----------------------------- MODULE PizzaProofs -----------------------------
(***************************************************************************)
(* Theorems about Pizza, for any command lines and any numbers of drivers, *)
(* customers and requests.                                                 *)
(*                                                                         *)
(* ObjectInv says what the two objects of a match know of each other, and  *)
(* how that depends on where the two threads are; SchedInv says where a    *)
(* thread is for the scheduler, and that it has pizza_lock where the       *)
(* program thinks it has.                                                  *)
(***************************************************************************)
EXTENDS Pizza, QueueProofs

ManagerPCs == {"load", "spawn", "lock", "check", "wait", "relock", "match", "assign",
               "notify", "unlock"}
DriverPCs == {"new", "ready", "readied", "unlock", "lock", "await_match", "relock",
              "drive", "arrived", "hand_over", "await_payment", "repay"}
CustomerPCs == {"new", "ready", "readied", "lock", "test", "await_pizza", "relock",
                "paying", "leave", "finish", "end"}

DriverRecord ==
    [status : {"Unavailable", "Available"}, location : Locations,
     assigned_customer : Customers \cup {0}, paid : BOOLEAN, matched : BOOLEAN,
     recipient : Customers \cup {0}, destination : Locations]
CustomerRecord ==
    [status : {"Unavailable", "Available", "Finished"}, location : Locations,
     requests : RequestLists, assigned_driver : Drivers \cup {0}, has_pizza : BOOLEAN,
     matched : BOOLEAN]

(* The types; each thread is at a place of its own function. *)
ShapeInv ==
    /\ input \in Inputs
    /\ process \in {"running", "exited", "aborted", "crashed"}
    /\ pc \in [Threads -> PCs]
    /\ pc[Manager] \in ManagerPCs
    /\ \A d \in Drivers : pc[Driver(d)] \in DriverPCs
    /\ \A c \in Customers : pc[Customer(c)] \in CustomerPCs
    /\ drivers \in [Drivers -> DriverRecord]
    /\ customers \in [Customers -> CustomerRecord]
    /\ pair \in (Customers \cup {0}) \X (Drivers \cup {0})
    /\ requested \in [Customers -> Nat] /\ delivered \in [Customers -> Nat]
    /\ payments \in [Customers -> Nat]

(* The threads are created in the order of their numbers, and the command  *)
(* line is a good one once the manager has left load_input.                *)
SpawnInv ==
    /\ \E n \in 0 .. MaxDrivers : {d \in Drivers : Created(Driver(d))} = 1 .. n
    /\ \E n \in 0 .. MaxCustomers : {c \in Customers : Created(Customer(c))} = 1 .. n
    /\ pc[Manager] # "load" => input.drivers \in Int /\ input.drivers <= MaxDrivers

-----------------------------------------------------------------------------
(* The match.                                                              *)

(* The driver has been matched and not yet been paid *)
Engaged(d) == drivers[d].matched /\ ~drivers[d].paid

(* The customer has been matched and the driver not yet been paid *)
Taken(c) ==
    customers[c].matched /\ customers[c].status = "Unavailable" /\ pc[Customer(c)] # "ready"

(* A request that has not been paid *)
Open(c) == pc[Customer(c)] = "readied" \/ customers[c].status = "Available" \/ Taken(c)

Waiting == {"unlock", "lock", "await_match", "relock"}
UnderWay == {"drive", "arrived", "hand_over", "await_payment", "repay"}
HandedIn == {"await_payment", "repay"}

(* A driver's flags, by the place of its thread *)
DriverInv(d) ==
    LET x == drivers[d]
        p == pc[Driver(d)]
    IN  /\ (x.status = "Available") => (~x.matched /\ p \in Waiting)
        /\ (p \in Waiting) => (~x.paid /\ (x.matched \/ x.status = "Available"))
        /\ (p \in UnderWay) => (x.matched /\ x.recipient = x.assigned_customer)
        /\ (p \in UnderWay \ HandedIn) => ~x.paid
        /\ Engaged(d) => (p \in Waiting \cup UnderWay)

(* An engaged driver and its customer know each other; the customer has    *)
(* the pizza as soon as the driver has handed it over.                     *)
MatchInv(d) ==
    LET c == drivers[d].assigned_customer
        p == pc[Driver(d)]
    IN  Engaged(d) =>
            /\ c \in Customers /\ Taken(c) /\ customers[c].assigned_driver = d
            /\ customers[c].has_pizza <=> (p \in HandedIn)
            /\ (p \in UnderWay \ {"drive"}) => drivers[d].destination = customers[c].location

TakenInv(c) ==
    LET d == customers[c].assigned_driver
    IN  Taken(c) => d \in Drivers /\ Engaged(d) /\ drivers[d].assigned_customer = c

(* A customer's flags, by the place of its thread *)
CustomerInv(c) ==
    LET y == customers[c]
        q == pc[Customer(c)]
    IN  /\ (y.status = "Available") => (~y.matched /\ ~y.has_pizza)
        /\ (y.status = "Available") => (q \in {"lock", "test", "await_pizza", "relock"})
        /\ (y.status = "Finished") => (q \in {"lock", "test", "leave", "finish", "end"})
        /\ (q \in {"leave", "finish", "end"}) => (y.status = "Finished")
        /\ (q \in {"lock", "test", "await_pizza", "relock"}) =>
               (y.status = "Unavailable" => y.matched)
        /\ (q = "paying") => (Taken(c) /\ y.has_pizza)
        /\ (q = "readied") => (~y.matched /\ ~y.has_pizza)
        /\ (q = "new") => (~y.matched /\ y.requests = <<>> /\ requested[c] = 0)

(* The counts, and the requests that are left *)
CountInv(c) ==
    /\ requested[c] = payments[c] + (IF Open(c) /\ pc[Customer(c)] # "paying" THEN 1 ELSE 0)
    /\ requested[c] = delivered[c] + (IF Open(c) /\ ~customers[c].has_pizza THEN 1 ELSE 0)
    /\ requested[c] + Len(customers[c].requests) <= MaxRequests

(* The pair the manager has chosen *)
PairInv ==
    /\ pc[Manager] \in {"assign", "notify"} => pair \in Customers \X Drivers
    /\ pc[Manager] = "assign" => is_ready(customers[pair[1]]) /\ is_ready(drivers[pair[2]])

ObjectInv ==
    /\ ShapeInv /\ SpawnInv /\ PairInv
    /\ \A d \in Drivers : DriverInv(d) /\ MatchInv(d)
    /\ \A c \in Customers : TakenInv(c) /\ CustomerInv(c) /\ CountInv(c)

-----------------------------------------------------------------------------
(* The scheduler and the lock.                                             *)

(* Where a thread has pizza_lock, or will have when it runs again *)
Locked == {"check", "wait", "match", "assign", "notify", "unlock", "await_match",
           "hand_over", "await_payment", "test", "await_pizza", "paying", "leave"}

QueueInv ==
    /\ ready \in Seq(Threads) /\ IsInjective(ready)
    /\ lockq \in Seq(Threads) /\ IsInjective(lockq)
    /\ asleep \subseteq Threads
    /\ ToSet(ready) \cap ToSet(lockq) = {}
    /\ asleep \cap (ToSet(ready) \cup ToSet(lockq)) = {}

LockInv ==
    /\ owner \in Threads \cup {None}
    /\ owner = None => lockq = <<>>
    /\ \A t \in Threads : pc[t] \in Locked => owner = t \/ t \in ToSet(lockq)

PlaceInv ==
    /\ \A t \in Threads : pc[t] \in {"new", "end"} =>
           t \notin ToSet(ready) \cup ToSet(lockq) \cup asleep
    /\ \A t \in ToSet(lockq) \cup asleep : pc[t] # "load"

SchedInv == QueueInv /\ LockInv /\ PlaceInv


-----------------------------------------------------------------------------
(* Threads, places and requests.                                           *)

(* Threads have different names. *)
LEMMA ThreadNames ==
    /\ Manager \in Threads
    /\ \A d \in Drivers : Driver(d) \in Threads /\ Driver(d) # Manager /\ Driver(d)[1] = "driver"
    /\ \A c \in Customers : Customer(c) \in Threads /\ Customer(c) # Manager
                              /\ Customer(c)[1] = "customer"
    /\ \A d, c : Driver(d) # Customer(c)
    /\ \A d, e : d # e => Driver(d) # Driver(e)
    /\ \A b, c : b # c => Customer(b) # Customer(c)
    /\ Manager[1] = "manager"
BY DEF Threads, Manager, Driver, Customer

LEMMA ThreadCases ==
    ASSUME NEW t \in Threads
    PROVE  t = Manager \/ (\E d \in Drivers : t = Driver(d)) \/ (\E c \in Customers : t = Customer(c))
BY DEF Threads

LEMMA GoesLemma ==
    ASSUME ShapeInv, NEW t \in Threads, NEW place \in PCs, Goes(t, place)
    PROVE  /\ pc' \in [Threads -> PCs] /\ pc'[t] = place
           /\ \A u \in Threads : u # t => pc'[u] = pc[u]
BY DEF ShapeInv, Goes

(* A request file as the sequence it is *)
LEMMA RequestSeq ==
    ASSUME NEW r
    PROVE  r \in RequestLists <=> r \in Seq(Locations) /\ Len(r) <= MaxRequests
<1>1. ASSUME r \in RequestLists PROVE r \in Seq(Locations) /\ Len(r) <= MaxRequests
  <2>1. PICK n \in 0 .. MaxRequests : r \in [1 .. n -> Locations]  BY <1>1 DEF RequestLists
  <2>2. r \in Seq(Locations) /\ Len(r) = n  BY <2>1, PizzaAssumption
  <2>3. QED  BY <2>1, <2>2, PizzaAssumption
<1>2. ASSUME r \in Seq(Locations), Len(r) <= MaxRequests PROVE r \in RequestLists
  <2>1. Len(r) \in 0 .. MaxRequests /\ r \in [1 .. Len(r) -> Locations]
    BY <1>2, PizzaAssumption
  <2>2. QED  BY <2>1 DEF RequestLists
<1>3. QED  BY <1>1, <1>2

(* What depends only on one driver's or one customer's object and thread *)
SameDriver(d) == drivers'[d] = drivers[d] /\ pc'[Driver(d)] = pc[Driver(d)]
SameCustomer(c) ==
    /\ customers'[c] = customers[c] /\ pc'[Customer(c)] = pc[Customer(c)]
    /\ requested'[c] = requested[c] /\ delivered'[c] = delivered[c] /\ payments'[c] = payments[c]

LEMMA DriverFrame ==
    ASSUME NEW d, SameDriver(d)
    PROVE  (Engaged(d)' <=> Engaged(d)) /\ (DriverInv(d)' <=> DriverInv(d))
BY DEF SameDriver, Engaged, DriverInv

LEMMA CustomerFrame ==
    ASSUME NEW c, SameCustomer(c)
    PROVE  /\ Taken(c)' <=> Taken(c)
           /\ CustomerInv(c)' <=> CustomerInv(c)
           /\ CountInv(c)' <=> CountInv(c)
BY DEF SameCustomer, Taken, CustomerInv, CountInv, Open


-----------------------------------------------------------------------------
(* Steps of one thread on its own object.                                  *)

(* A step of driver d that keeps the match, if there is one *)
DriverMove(d) ==
    /\ pc[Driver(d)] # "new"
    /\ \E place \in DriverPCs \ {"new"} : Goes(Driver(d), place)
    /\ drivers' \in [Drivers -> DriverRecord]
    /\ \A e \in Drivers \ {d} : drivers'[e] = drivers[e]
    /\ (drivers[d].status = "Available") => (drivers'[d].status = "Available")
    /\ Engaged(d)' <=> Engaged(d)
    /\ Engaged(d) => (drivers'[d].assigned_customer = drivers[d].assigned_customer)
    /\ UNCHANGED <<input, customers, pair, history>>
    /\ process' \in {"running", "exited", "aborted", "crashed"}

LEMMA DriverMoves ==
    ASSUME ObjectInv, NEW d \in Drivers, DriverMove(d), DriverInv(d)', MatchInv(d)'
    PROVE  ObjectInv'
<1> USE ThreadNames
<1>0. ShapeInv /\ SpawnInv /\ PairInv  BY DEF ObjectInv
<1>1. PICK place \in DriverPCs \ {"new"} : Goes(Driver(d), place)  BY DEF DriverMove
<1>2. place \in PCs  BY DEF DriverPCs, PCs
<1>3. /\ pc' \in [Threads -> PCs] /\ pc'[Driver(d)] = place
      /\ \A u \in Threads : u # Driver(d) => pc'[u] = pc[u]
  BY <1>0, <1>1, <1>2, GoesLemma
<1>4. UNCHANGED <<input, customers, pair, requested, delivered, payments>>
  BY DEF DriverMove, history
<1>5. \A c \in Customers : SameCustomer(c)  BY <1>3, <1>4 DEF SameCustomer
<1>6. \A e \in Drivers \ {d} : SameDriver(e)  BY <1>3 DEF SameDriver, DriverMove
<1>7. pc'[Manager] = pc[Manager]  BY <1>3
<1>8. ShapeInv'
  BY <1>0, <1>3, <1>4, <1>7 DEF ShapeInv, DriverMove
<1>9. SpawnInv'
  <2>1. \A e \in Drivers : Created(Driver(e))' <=> Created(Driver(e))
    BY <1>3 DEF Created, DriverMove
  <2>2. \A c \in Customers : Created(Customer(c))' <=> Created(Customer(c))
    BY <1>3 DEF Created
  <2>3. /\ {e \in Drivers : Created(Driver(e))'} = {e \in Drivers : Created(Driver(e))}
        /\ {c \in Customers : Created(Customer(c))'} = {c \in Customers : Created(Customer(c))}
    BY <2>1, <2>2
  <2>4. QED  BY <1>0, <1>4, <1>7, <2>3 DEF SpawnInv
<1>10. PairInv'
  BY <1>0, <1>4, <1>7 DEF PairInv, is_ready, DriverMove
<1>11. ASSUME NEW e \in Drivers PROVE DriverInv(e)' /\ MatchInv(e)'
  <2>1. CASE e = d  BY <2>1
  <2>2. CASE e # d
    <3>1. /\ Engaged(e)' <=> Engaged(e)
          /\ DriverInv(e)'
      BY <1>6, <2>2, DriverFrame DEF ObjectInv
    <3>2. \A c \in Customers : Taken(c)' <=> Taken(c)  BY <1>5, CustomerFrame
    <3>3. drivers'[e] = drivers[e] /\ pc'[Driver(e)] = pc[Driver(e)] /\ customers' = customers
      BY <1>4, <1>6, <2>2 DEF SameDriver
    <3>4. MatchInv(e)  BY DEF ObjectInv
    <3>5. MatchInv(e)'  BY <3>1, <3>2, <3>3, <3>4 DEF MatchInv
    <3>6. QED  BY <3>1, <3>5
  <2>3. QED  BY <2>1, <2>2
<1>12. ASSUME NEW c \in Customers PROVE TakenInv(c)' /\ CustomerInv(c)' /\ CountInv(c)'
  <2>1. /\ Taken(c)' <=> Taken(c)
        /\ CustomerInv(c)' /\ CountInv(c)'
    BY <1>5, CustomerFrame DEF ObjectInv
  <2>2. \A e \in Drivers : Engaged(e)' <=> Engaged(e)
    BY <1>6, DriverFrame DEF DriverMove
  <2>3. \A e \in Drivers : Engaged(e) => drivers'[e].assigned_customer = drivers[e].assigned_customer
    BY DEF DriverMove
  <2>4. TakenInv(c)  BY DEF ObjectInv
  <2>5. TakenInv(c)'  BY <1>4, <2>1, <2>2, <2>3, <2>4 DEF TakenInv
  <2>6. QED  BY <2>1, <2>5
<1>13. QED  BY <1>8, <1>9, <1>10, <1>11, <1>12 DEF ObjectInv

(* A step of customer c that keeps the match, if there is one *)
CustomerMove(c) ==
    /\ pc[Customer(c)] # "new"
    /\ \E place \in CustomerPCs \ {"new"} : Goes(Customer(c), place)
    /\ customers' \in [Customers -> CustomerRecord]
    /\ requested' \in [Customers -> Nat] /\ delivered' \in [Customers -> Nat]
    /\ payments' \in [Customers -> Nat]
    /\ \A b \in Customers \ {c} :
         /\ customers'[b] = customers[b] /\ requested'[b] = requested[b]
         /\ delivered'[b] = delivered[b] /\ payments'[b] = payments[b]
    /\ (customers[c].status = "Available") => (customers'[c].status = "Available")
    /\ Taken(c)' <=> Taken(c)
    /\ Taken(c) => (customers'[c] = customers[c])
    /\ UNCHANGED <<input, drivers, pair>>
    /\ process' \in {"running", "exited", "aborted", "crashed"}

LEMMA CustomerMoves ==
    ASSUME ObjectInv, NEW c \in Customers, CustomerMove(c), CustomerInv(c)', CountInv(c)'
    PROVE  ObjectInv'
<1> USE ThreadNames
<1>0. ShapeInv /\ SpawnInv /\ PairInv  BY DEF ObjectInv
<1>1. PICK place \in CustomerPCs \ {"new"} : Goes(Customer(c), place)  BY DEF CustomerMove
<1>2. place \in PCs  BY DEF CustomerPCs, PCs
<1>3. /\ pc' \in [Threads -> PCs] /\ pc'[Customer(c)] = place
      /\ \A u \in Threads : u # Customer(c) => pc'[u] = pc[u]
  BY <1>0, <1>1, <1>2, GoesLemma
<1>4. UNCHANGED <<input, drivers, pair>>
  BY DEF CustomerMove
<1>5. \A d \in Drivers : SameDriver(d)  BY <1>3, <1>4 DEF SameDriver
<1>6. \A b \in Customers \ {c} : SameCustomer(b)  BY <1>3 DEF SameCustomer, CustomerMove
<1>7. pc'[Manager] = pc[Manager]  BY <1>3
<1>8. ShapeInv'
  BY <1>0, <1>3, <1>4, <1>7 DEF ShapeInv, CustomerMove
<1>9. SpawnInv'
  <2>1. \A b \in Customers : Created(Customer(b))' <=> Created(Customer(b))
    BY <1>3 DEF Created, CustomerMove
  <2>2. \A d \in Drivers : Created(Driver(d))' <=> Created(Driver(d))
    BY <1>3 DEF Created
  <2>3. /\ {d \in Drivers : Created(Driver(d))'} = {d \in Drivers : Created(Driver(d))}
        /\ {b \in Customers : Created(Customer(b))'} = {b \in Customers : Created(Customer(b))}
    BY <2>1, <2>2
  <2>4. QED  BY <1>0, <1>4, <1>7, <2>3 DEF SpawnInv
<1>10. PairInv'
  BY <1>0, <1>4, <1>7 DEF PairInv, is_ready, CustomerMove
<1>11. \A b \in Customers : Taken(b)' <=> Taken(b)
  BY <1>6, CustomerFrame DEF CustomerMove
<1>12. \A b \in Customers : Taken(b) => customers'[b] = customers[b]
  BY DEF CustomerMove
<1>13. ASSUME NEW d \in Drivers PROVE DriverInv(d)' /\ MatchInv(d)'
  <2>1. /\ Engaged(d)' <=> Engaged(d)
        /\ DriverInv(d)'
    BY <1>5, DriverFrame DEF ObjectInv
  <2>2. pc'[Driver(d)] = pc[Driver(d)]  BY <1>5 DEF SameDriver
  <2>3. MatchInv(d)  BY DEF ObjectInv
  <2>4. MatchInv(d)'  BY <1>4, <1>11, <1>12, <2>1, <2>2, <2>3 DEF MatchInv
  <2>5. QED  BY <2>1, <2>4
<1>14. ASSUME NEW b \in Customers PROVE TakenInv(b)' /\ CustomerInv(b)' /\ CountInv(b)'
  <2>1. CustomerInv(b)' /\ CountInv(b)'
    BY <1>6, CustomerFrame DEF ObjectInv
  <2>2. \A d \in Drivers : Engaged(d)' <=> Engaged(d)
    BY <1>5, DriverFrame
  <2>3. TakenInv(b)  BY DEF ObjectInv
  <2>4. TakenInv(b)'  BY <1>4, <1>11, <1>12, <2>2, <2>3 DEF TakenInv
  <2>5. QED  BY <2>1, <2>4
<1>15. QED  BY <1>8, <1>9, <1>10, <1>13, <1>14 DEF ObjectInv

(* A step of the manager that changes no object *)
ManagerMove ==
    /\ \E place \in ManagerPCs \ {"load"} : Goes(Manager, place)
    /\ pair' \in (Customers \cup {0}) \X (Drivers \cup {0})
    /\ UNCHANGED <<input, drivers, customers, history>>
    /\ process' \in {"running", "exited", "aborted", "crashed"}

LEMMA ManagerMoves ==
    ASSUME ObjectInv, ManagerMove, PairInv',
           input.drivers \in Int, input.drivers <= MaxDrivers
    PROVE  ObjectInv'
<1> USE ThreadNames
<1>0. ShapeInv /\ SpawnInv  BY DEF ObjectInv
<1>1. PICK place \in ManagerPCs \ {"load"} : Goes(Manager, place)  BY DEF ManagerMove
<1>2. place \in PCs  BY DEF ManagerPCs, PCs
<1>3. /\ pc' \in [Threads -> PCs] /\ pc'[Manager] = place
      /\ \A u \in Threads : u # Manager => pc'[u] = pc[u]
  BY <1>0, <1>1, <1>2, GoesLemma
<1>4. UNCHANGED <<input, drivers, customers, requested, delivered, payments>>
  BY DEF ManagerMove, history
<1>5. \A d \in Drivers : SameDriver(d)  BY <1>3, <1>4 DEF SameDriver
<1>6. \A c \in Customers : SameCustomer(c)  BY <1>3, <1>4 DEF SameCustomer
<1>7. ShapeInv'
  BY <1>0, <1>3, <1>4 DEF ShapeInv, ManagerMove
<1>8. SpawnInv'
  <2>1. \A c \in Customers : Created(Customer(c))' <=> Created(Customer(c))
    BY <1>3 DEF Created
  <2>2. \A d \in Drivers : Created(Driver(d))' <=> Created(Driver(d))
    BY <1>3 DEF Created
  <2>3. /\ {d \in Drivers : Created(Driver(d))'} = {d \in Drivers : Created(Driver(d))}
        /\ {c \in Customers : Created(Customer(c))'} = {c \in Customers : Created(Customer(c))}
    BY <2>1, <2>2
  <2>4. QED  BY <1>0, <1>4, <2>3 DEF SpawnInv
<1>9. \A c \in Customers : Taken(c)' <=> Taken(c)  BY <1>6, CustomerFrame
<1>10. \A d \in Drivers : Engaged(d)' <=> Engaged(d)  BY <1>5, DriverFrame
<1>11. ASSUME NEW d \in Drivers PROVE DriverInv(d)' /\ MatchInv(d)'
  <2>1. DriverInv(d)'  BY <1>5, DriverFrame DEF ObjectInv
  <2>2. pc'[Driver(d)] = pc[Driver(d)]  BY <1>5 DEF SameDriver
  <2>3. MatchInv(d)  BY DEF ObjectInv
  <2>4. MatchInv(d)'  BY <1>4, <1>9, <1>10, <2>2, <2>3 DEF MatchInv
  <2>5. QED  BY <2>1, <2>4
<1>12. ASSUME NEW c \in Customers PROVE TakenInv(c)' /\ CustomerInv(c)' /\ CountInv(c)'
  <2>1. CustomerInv(c)' /\ CountInv(c)'  BY <1>6, CustomerFrame DEF ObjectInv
  <2>2. TakenInv(c)  BY DEF ObjectInv
  <2>3. TakenInv(c)'  BY <1>4, <1>9, <1>10, <2>2 DEF TakenInv
  <2>4. QED  BY <2>1, <2>3
<1>13. QED  BY <1>7, <1>8, <1>11, <1>12 DEF ObjectInv


-----------------------------------------------------------------------------
(* ObjectInv and the steps of run_driver.                                  *)

LEMMA DriverFields ==
    ASSUME ObjectInv, NEW d \in Drivers
    PROVE  /\ ShapeInv /\ DriverInv(d) /\ MatchInv(d) /\ drivers[d] \in DriverRecord
           /\ pc[Driver(d)] \in DriverPCs
           /\ drivers[d].matched \in BOOLEAN /\ drivers[d].paid \in BOOLEAN
           /\ drivers[d].status \in {"Unavailable", "Available"}
BY DEF ObjectInv, ShapeInv, DriverRecord

(* A place change alone *)
LEMMA DriverGoes ==
    ASSUME ObjectInv, NEW d \in Drivers, NEW place \in DriverPCs \ {"new"},
           At(Driver(d), pc[Driver(d)]), pc[Driver(d)] # "new", Goes(Driver(d), place),
           UNCHANGED <<input, process, objects, history>>,
           \/ pc[Driver(d)] \in Waiting /\ place \in Waiting
           \/ pc[Driver(d)] \in {"ready", "readied"} /\ place \in {"ready", "readied"}
           \/ pc[Driver(d)] = "arrived" /\ place = "hand_over"
           \/ pc[Driver(d)] \in HandedIn /\ place \in HandedIn
           \/ pc[Driver(d)] = "await_payment" /\ place = "ready" /\ drivers[d].paid
    PROVE  ObjectInv'
<1> USE ThreadNames
<1>0. /\ ShapeInv /\ DriverInv(d) /\ MatchInv(d) /\ drivers \in [Drivers -> DriverRecord]
      /\ drivers[d].matched \in BOOLEAN /\ drivers[d].paid \in BOOLEAN
  BY DriverFields DEF ShapeInv
<1>1. UNCHANGED <<input, process, drivers, customers, pair, history>>  BY DEF objects
<1>2. process' \in {"running", "exited", "aborted", "crashed"}  BY <1>1 DEF At
<1>3. place \in PCs  BY DEF DriverPCs, PCs
<1>4. /\ pc'[Driver(d)] = place
      /\ \A u \in Threads : u # Driver(d) => pc'[u] = pc[u]
  BY <1>0, <1>3, GoesLemma
<1>5. Engaged(d)' <=> Engaged(d)  BY <1>1 DEF Engaged
<1>6. DriverMove(d)  BY <1>0, <1>1, <1>2, <1>5 DEF DriverMove
<1>7. DriverInv(d)'
  BY <1>0, <1>1, <1>4, <1>5 DEF DriverInv, Engaged, Waiting, UnderWay, HandedIn
<1>8. \A c \in Customers : Taken(c)' <=> Taken(c)
  BY <1>1, <1>4 DEF Taken
<1>9. MatchInv(d)'
  BY <1>0, <1>1, <1>4, <1>5, <1>8 DEF MatchInv, DriverInv, Engaged, Waiting, UnderWay, HandedIn
<1>10. QED  BY <1>6, <1>7, <1>9, DriverMoves

(* The object changes as well, and the driver keeps its match. *)
LEMMA DriverChanges ==
    ASSUME ObjectInv, NEW d \in Drivers, NEW place \in DriverPCs \ {"new"},
           process = "running", pc[Driver(d)] # "new", Goes(Driver(d), place),
           NEW x \in DriverRecord, drivers' = [drivers EXCEPT ![d] = x],
           UNCHANGED <<input, process, customers, pair, history>>,
           (drivers[d].status = "Available") => (x.status = "Available"),
           Engaged(d) <=> (x.matched /\ ~x.paid),
           Engaged(d) => (x.assigned_customer = drivers[d].assigned_customer)
    PROVE  /\ DriverInv(d)' /\ MatchInv(d)' => ObjectInv'
           /\ drivers'[d] = x /\ pc'[Driver(d)] = place /\ (Engaged(d)' <=> Engaged(d))
           /\ \A c \in Customers : Taken(c)' <=> Taken(c)
<1> USE ThreadNames
<1>0. ShapeInv /\ drivers \in [Drivers -> DriverRecord]  BY DriverFields DEF ShapeInv
<1>1. place \in PCs  BY DEF DriverPCs, PCs
<1>2. /\ pc'[Driver(d)] = place
      /\ \A u \in Threads : u # Driver(d) => pc'[u] = pc[u]
  BY <1>0, <1>1, GoesLemma
<1>3. /\ drivers' \in [Drivers -> DriverRecord] /\ drivers'[d] = x
      /\ \A e \in Drivers \ {d} : drivers'[e] = drivers[e]
  BY <1>0
<1>4. Engaged(d)' <=> Engaged(d)  BY <1>3 DEF Engaged
<1>5. DriverMove(d)  BY <1>0, <1>3, <1>4 DEF DriverMove
<1>6. \A c \in Customers : Taken(c)' <=> Taken(c)  BY <1>2 DEF Taken
<1>7. QED  BY <1>2, <1>3, <1>4, <1>5, <1>6, DriverMoves

LEMMA DriverReadiedObject ==
    ASSUME ObjectInv, NEW d \in Drivers, DriverReadied(d)
    PROVE  ObjectInv'
<1> DEFINE x == ReadiedDriver(drivers[d])
           place == IF owner = Driver(d) THEN "unlock" ELSE "lock"
<1>0. /\ ShapeInv /\ DriverInv(d) /\ MatchInv(d) /\ drivers[d] \in DriverRecord
      /\ drivers \in [Drivers -> DriverRecord]
  BY DriverFields DEF ShapeInv
<1>1. /\ process = "running" /\ pc[Driver(d)] = "readied" /\ Goes(Driver(d), place)
      /\ drivers' = [drivers EXCEPT ![d] = x]
      /\ UNCHANGED <<input, process, customers, pair, history>>
  BY <1>0 DEF DriverReadied, At
<1>2. x \in DriverRecord /\ x.status = "Available" /\ ~x.matched /\ ~x.paid
  BY <1>0 DEF ReadiedDriver, DriverRecord
<1>3. place \in {"unlock", "lock"} /\ place \in DriverPCs \ {"new"}  BY DEF DriverPCs
<1>4. ~Engaged(d)  BY <1>0, <1>1 DEF DriverInv, Waiting, UnderWay
<1> HIDE DEF x, place
<1>5. /\ DriverInv(d)' /\ MatchInv(d)' => ObjectInv'
      /\ drivers'[d] = x /\ pc'[Driver(d)] = place /\ ~Engaged(d)'
  BY <1>1, <1>2, <1>3, <1>4, DriverChanges
<1>6. DriverInv(d)'  BY <1>2, <1>3, <1>5 DEF DriverInv, Waiting, UnderWay, HandedIn
<1>7. MatchInv(d)'  BY <1>5 DEF MatchInv
<1>8. QED  BY <1>5, <1>6, <1>7

LEMMA DriverAwaitMatchObject ==
    ASSUME ObjectInv, NEW d \in Drivers, DriverAwaitMatch(d)
    PROVE  ObjectInv'
<1>0. /\ ShapeInv /\ DriverInv(d) /\ MatchInv(d) /\ drivers[d] \in DriverRecord
      /\ drivers \in [Drivers -> DriverRecord] /\ drivers[d].paid \in BOOLEAN
      /\ drivers[d].matched \in BOOLEAN
  BY DriverFields DEF ShapeInv
<1>1. At(Driver(d), pc[Driver(d)]) /\ pc[Driver(d)] = "await_match" /\ process = "running"
  BY DEF DriverAwaitMatch, At
<1>2. CASE ~drivers[d].matched
  <2>1. Goes(Driver(d), "relock") /\ UNCHANGED <<input, process, objects, history>>
    BY <1>2 DEF DriverAwaitMatch, objects
  <2>2. "relock" \in DriverPCs \ {"new"} /\ "relock" \in Waiting /\ "await_match" \in Waiting
    BY DEF DriverPCs, Waiting
  <2>3. QED  BY <1>1, <2>1, <2>2, DriverGoes
<1>3. CASE drivers[d].matched
  <2> DEFINE x == [drivers[d] EXCEPT !.recipient = drivers[d].assigned_customer]
  <2>1. /\ drivers' = [drivers EXCEPT ![d] = x]
        /\ Goes(Driver(d), "drive") /\ UNCHANGED <<input, process, customers, pair, history>>
    BY <1>0, <1>3 DEF DriverAwaitMatch
  <2>2. /\ x \in DriverRecord /\ x.status = drivers[d].status /\ x.matched = drivers[d].matched
        /\ x.paid = drivers[d].paid /\ x.assigned_customer = drivers[d].assigned_customer
        /\ x.recipient = x.assigned_customer
    BY <1>0 DEF DriverRecord
  <2>3. "drive" \in DriverPCs \ {"new"}  BY DEF DriverPCs
  <2>4. drivers[d].status # "Available" /\ Engaged(d)
    BY <1>0, <1>1, <1>3 DEF DriverInv, Waiting, Engaged
  <2> HIDE DEF x
  <2>5. /\ DriverInv(d)' /\ MatchInv(d)' => ObjectInv'
        /\ drivers'[d] = x /\ pc'[Driver(d)] = "drive" /\ (Engaged(d)' <=> Engaged(d))
        /\ \A c \in Customers : Taken(c)' <=> Taken(c)
    BY <1>1, <2>1, <2>2, <2>3, <2>4, DriverChanges DEF Engaged
  <2>6. DriverInv(d)'
    BY <1>3, <2>2, <2>4, <2>5 DEF DriverInv, Waiting, UnderWay, HandedIn, Engaged
  <2>7. MatchInv(d)'
    BY <1>0, <1>1, <2>1, <2>2, <2>4, <2>5 DEF MatchInv, UnderWay, HandedIn
  <2>8. QED  BY <2>5, <2>6, <2>7
<1>4. QED  BY <1>0, <1>2, <1>3

LEMMA DriverDriveObject ==
    ASSUME ObjectInv, NEW d \in Drivers, DriverDrive(d)
    PROVE  ObjectInv'
<1> DEFINE goal == customers[drivers[d].recipient].location
           x == [drivers[d] EXCEPT !.destination = goal]
<1>0. /\ ShapeInv /\ DriverInv(d) /\ MatchInv(d) /\ drivers[d] \in DriverRecord
      /\ drivers \in [Drivers -> DriverRecord] /\ customers \in [Customers -> CustomerRecord]
  BY DriverFields DEF ShapeInv
<1>1. /\ process = "running" /\ pc[Driver(d)] = "drive" /\ Goes(Driver(d), "arrived")
      /\ drivers' = [drivers EXCEPT ![d] = x]
      /\ UNCHANGED <<input, process, customers, pair, history>>
  BY <1>0 DEF DriverDrive, At
<1>2. /\ Engaged(d) /\ drivers[d].recipient = drivers[d].assigned_customer
      /\ drivers[d].assigned_customer \in Customers /\ drivers[d].status # "Available"
  BY <1>0, <1>1 DEF DriverInv, MatchInv, Engaged, Waiting, UnderWay, HandedIn
<1>3. goal \in Locations  BY <1>0, <1>2 DEF CustomerRecord
<1>4. goal = customers[drivers[d].assigned_customer].location  BY <1>2
<1> HIDE DEF goal
<1>5. /\ x \in DriverRecord /\ x.status = drivers[d].status /\ x.matched = drivers[d].matched
      /\ x.paid = drivers[d].paid /\ x.assigned_customer = drivers[d].assigned_customer
      /\ x.recipient = drivers[d].recipient /\ x.destination = goal
  BY <1>0, <1>3 DEF DriverRecord
<1>6. "arrived" \in DriverPCs \ {"new"}  BY DEF DriverPCs
<1> HIDE DEF x
<1>7. /\ DriverInv(d)' /\ MatchInv(d)' => ObjectInv'
      /\ drivers'[d] = x /\ pc'[Driver(d)] = "arrived" /\ (Engaged(d)' <=> Engaged(d))
      /\ \A c \in Customers : Taken(c)' <=> Taken(c)
  BY <1>1, <1>2, <1>5, <1>6, DriverChanges DEF Engaged
<1>8. DriverInv(d)'
  BY <1>2, <1>5, <1>7 DEF DriverInv, Waiting, UnderWay, HandedIn, Engaged
<1>9. MatchInv(d)'
  BY <1>0, <1>1, <1>2, <1>4, <1>5, <1>7 DEF MatchInv, UnderWay, HandedIn
<1>10. QED  BY <1>7, <1>8, <1>9


-----------------------------------------------------------------------------
(* ObjectInv and the steps that change a driver and a customer.            *)

(* A step on the objects of driver d and customer c, which are matched     *)
(* with each other or with nobody.                                         *)
PairMove(c, d) ==
    /\ pc' \in [Threads -> PCs]
    /\ pc'[Manager] \in ManagerPCs /\ (pc'[Manager] # "load" => pc[Manager] # "load")
    /\ pc[Driver(d)] # "new" /\ pc'[Driver(d)] \in DriverPCs \ {"new"}
    /\ pc[Customer(c)] # "new" /\ pc'[Customer(c)] \in CustomerPCs \ {"new"}
    /\ \A t \in Threads \ {Manager, Driver(d), Customer(c)} : pc'[t] = pc[t]
    /\ drivers' \in [Drivers -> DriverRecord] /\ customers' \in [Customers -> CustomerRecord]
    /\ \A e \in Drivers \ {d} :
         /\ drivers'[e] = drivers[e]
         /\ Engaged(e) => drivers[e].assigned_customer # c
    /\ \A b \in Customers \ {c} :
         /\ customers'[b] = customers[b]
         /\ Taken(b) => customers[b].assigned_driver # d
    /\ delivered' \in [Customers -> Nat]
    /\ \A b \in Customers \ {c} : delivered'[b] = delivered[b]
    /\ UNCHANGED <<input, process, pair, requested, payments>>

LEMMA PairMoves ==
    ASSUME ObjectInv, NEW c \in Customers, NEW d \in Drivers, PairMove(c, d), PairInv',
           DriverInv(d)', MatchInv(d)', TakenInv(c)', CustomerInv(c)', CountInv(c)'
    PROVE  ObjectInv'
<1> USE ThreadNames
<1>0. ShapeInv /\ SpawnInv  BY DEF ObjectInv
<1>1. \A e \in Drivers \ {d} : SameDriver(e)  BY DEF SameDriver, PairMove
<1>2. \A b \in Customers \ {c} : SameCustomer(b)  BY DEF SameCustomer, PairMove
<1>3. ShapeInv'  BY <1>0 DEF ShapeInv, PairMove
<1>4. SpawnInv'
  <2>1. \A b \in Customers : Created(Customer(b))' <=> Created(Customer(b))
    BY DEF Created, PairMove
  <2>2. \A e \in Drivers : Created(Driver(e))' <=> Created(Driver(e))
    BY DEF Created, PairMove
  <2>3. /\ {e \in Drivers : Created(Driver(e))'} = {e \in Drivers : Created(Driver(e))}
        /\ {b \in Customers : Created(Customer(b))'} = {b \in Customers : Created(Customer(b))}
    BY <2>1, <2>2
  <2>4. QED  BY <1>0, <2>3 DEF SpawnInv, PairMove
<1>5. \A e \in Drivers \ {d} : Engaged(e)' <=> Engaged(e)  BY <1>1, DriverFrame
<1>6. \A b \in Customers \ {c} : Taken(b)' <=> Taken(b)  BY <1>2, CustomerFrame
<1>7. ASSUME NEW e \in Drivers \ {d} PROVE DriverInv(e)' /\ MatchInv(e)'
  <2>1. DriverInv(e)'  BY <1>1, DriverFrame DEF ObjectInv
  <2>2. drivers'[e] = drivers[e] /\ pc'[Driver(e)] = pc[Driver(e)]  BY <1>1 DEF SameDriver
  <2>3. Engaged(e) => drivers[e].assigned_customer # c  BY DEF PairMove
  <2>4. \A b \in Customers \ {c} : customers'[b] = customers[b]  BY DEF PairMove
  <2>5. MatchInv(e)  BY DEF ObjectInv
  <2>6. MatchInv(e)'  BY <1>5, <1>6, <2>2, <2>3, <2>4, <2>5 DEF MatchInv
  <2>7. QED  BY <2>1, <2>6
<1>8. ASSUME NEW b \in Customers \ {c} PROVE TakenInv(b)' /\ CustomerInv(b)' /\ CountInv(b)'
  <2>1. CustomerInv(b)' /\ CountInv(b)'  BY <1>2, CustomerFrame DEF ObjectInv
  <2>2. customers'[b] = customers[b]  BY DEF PairMove
  <2>3. Taken(b) => customers[b].assigned_driver # d  BY DEF PairMove
  <2>4. \A e \in Drivers \ {d} : drivers'[e] = drivers[e]  BY DEF PairMove
  <2>5. TakenInv(b)  BY DEF ObjectInv
  <2>6. TakenInv(b)'  BY <1>5, <1>6, <2>2, <2>3, <2>4, <2>5 DEF TakenInv
  <2>7. QED  BY <2>1, <2>6
<1>9. QED  BY <1>3, <1>4, <1>7, <1>8 DEF ObjectInv

(* Who is matched is matched with nobody else. *)
LEMMA OneMatch ==
    ASSUME ObjectInv, NEW d \in Drivers, NEW c \in Customers,
           \/ Engaged(d) /\ drivers[d].assigned_customer = c
           \/ Taken(c) /\ customers[c].assigned_driver = d
           \/ ~Engaged(d) /\ ~Taken(c)
    PROVE  /\ \A e \in Drivers \ {d} : Engaged(e) => drivers[e].assigned_customer # c
           /\ \A b \in Customers \ {c} : Taken(b) => customers[b].assigned_driver # d
<1>1. /\ \A e \in Drivers : MatchInv(e)
      /\ \A b \in Customers : TakenInv(b)
  BY DEF ObjectInv
<1>2. /\ \A e \in Drivers : Engaged(e) => LET b == drivers[e].assigned_customer IN
                              b \in Customers /\ Taken(b) /\ customers[b].assigned_driver = e
  BY <1>1 DEF MatchInv
<1>3. QED  BY <1>1, <1>2 DEF TakenInv

LEMMA CustomerFields ==
    ASSUME ObjectInv, NEW c \in Customers
    PROVE  /\ ShapeInv /\ CustomerInv(c) /\ CountInv(c) /\ TakenInv(c)
           /\ customers[c] \in CustomerRecord /\ pc[Customer(c)] \in CustomerPCs
           /\ customers[c].matched \in BOOLEAN /\ customers[c].has_pizza \in BOOLEAN
           /\ customers[c].status \in {"Unavailable", "Available", "Finished"}
           /\ requested[c] \in Nat /\ delivered[c] \in Nat /\ payments[c] \in Nat
           /\ customers[c].requests \in Seq(Locations)
           /\ Len(customers[c].requests) \in Nat
<1>1. customers[c].requests \in RequestLists
  BY DEF ObjectInv, ShapeInv, CustomerRecord
<1>2. /\ customers[c].requests \in Seq(Locations)
      /\ Len(customers[c].requests) \in Nat
  BY <1>1, RequestSeq
<1>3. QED  BY <1>2 DEF ObjectInv, ShapeInv, CustomerRecord

LEMMA DriverHandOverObject ==
    ASSUME ObjectInv, NEW d \in Drivers, DriverHandOver(d)
    PROVE  ObjectInv'
<1> USE ThreadNames
<1>0. /\ ShapeInv /\ DriverInv(d) /\ MatchInv(d) /\ drivers[d] \in DriverRecord
      /\ drivers \in [Drivers -> DriverRecord] /\ customers \in [Customers -> CustomerRecord]
      /\ delivered \in [Customers -> Nat]
  BY DriverFields DEF ShapeInv
<1>1. pc[Driver(d)] = "hand_over"  BY DEF DriverHandOver, At
<1>2. /\ Engaged(d) /\ drivers[d].recipient = drivers[d].assigned_customer
      /\ drivers[d].assigned_customer \in Customers /\ drivers[d].status # "Available"
  BY <1>0, <1>1 DEF DriverInv, MatchInv, Engaged, Waiting, UnderWay, HandedIn
<1>3. PICK c \in Customers : c = drivers[d].recipient  BY <1>2
<1> DEFINE x == [drivers[d] EXCEPT !.location = customers[c].location]
           y == [customers[c] EXCEPT !.has_pizza = TRUE]
<1>4. /\ process = "running" /\ pc[Driver(d)] = "hand_over"
      /\ Goes(Driver(d), "await_payment")
      /\ drivers' = [drivers EXCEPT ![d] = x]
      /\ customers' = [customers EXCEPT ![c] = y]
      /\ delivered' = [delivered EXCEPT ![c] = @ + 1]
      /\ UNCHANGED <<input, process, pair, requested, payments>>
  BY <1>0, <1>3 DEF DriverHandOver, At
<1>5. /\ Engaged(d) /\ c = drivers[d].assigned_customer /\ c \in Customers
      /\ drivers[d].status # "Available"
  BY <1>2, <1>3
<1>6. /\ Taken(c) /\ customers[c].assigned_driver = d /\ ~customers[c].has_pizza
      /\ drivers[d].destination = customers[c].location
  BY <1>0, <1>4, <1>5 DEF MatchInv, UnderWay, HandedIn
<1>7. /\ customers[c] \in CustomerRecord /\ CustomerInv(c) /\ CountInv(c)
      /\ pc[Customer(c)] \in CustomerPCs /\ delivered[c] \in Nat /\ customers[c].location \in Locations
      /\ requested[c] \in Nat
  BY <1>5, CustomerFields DEF CustomerRecord
<1>8. /\ x \in DriverRecord /\ x.status = drivers[d].status /\ x.matched = drivers[d].matched
      /\ x.paid = drivers[d].paid /\ x.assigned_customer = drivers[d].assigned_customer
      /\ x.recipient = drivers[d].recipient /\ x.destination = drivers[d].destination
  BY <1>0, <1>7 DEF DriverRecord
<1>9. /\ y \in CustomerRecord /\ y.status = customers[c].status
      /\ y.matched = customers[c].matched /\ y.assigned_driver = customers[c].assigned_driver
      /\ y.location = customers[c].location /\ y.has_pizza = TRUE
      /\ y.requests = customers[c].requests
  BY <1>7 DEF CustomerRecord
<1> HIDE DEF x, y
<1>10. /\ pc' \in [Threads -> PCs] /\ pc'[Driver(d)] = "await_payment"
      /\ \A u \in Threads : u # Driver(d) => pc'[u] = pc[u]
  <2>1. "await_payment" \in PCs  BY DEF PCs
  <2>2. QED  BY <1>0, <1>4, <2>1, GoesLemma
<1>11. /\ drivers' \in [Drivers -> DriverRecord] /\ drivers'[d] = x
      /\ \A e \in Drivers \ {d} : drivers'[e] = drivers[e]
  BY <1>0, <1>4, <1>8
<1>12. /\ customers' \in [Customers -> CustomerRecord] /\ customers'[c] = y
      /\ \A b \in Customers \ {c} : customers'[b] = customers[b]
  BY <1>0, <1>4, <1>5, <1>9
<1>13. /\ delivered' \in [Customers -> Nat] /\ delivered'[c] = delivered[c] + 1
       /\ \A b \in Customers \ {c} : delivered'[b] = delivered[b]
  BY <1>0, <1>4, <1>5
<1>14. pc[Customer(c)] # "new" /\ pc[Customer(c)] # "readied" /\ pc[Customer(c)] # "paying"
  BY <1>6, <1>7 DEF CustomerInv, Taken
<1>15. /\ pc[Manager] \in ManagerPCs /\ pc'[Manager] = pc[Manager]
       /\ pc'[Customer(c)] = pc[Customer(c)]
  BY <1>0, <1>5, <1>10 DEF ShapeInv
<1>16. PairMove(c, d)
  <2>1. /\ \A e \in Drivers \ {d} : Engaged(e) => drivers[e].assigned_customer # c
        /\ \A b \in Customers \ {c} : Taken(b) => customers[b].assigned_driver # d
    BY <1>5, OneMatch
  <2>2. "await_payment" \in DriverPCs \ {"new"}  BY DEF DriverPCs
  <2>3. QED
    BY <1>4, <1>7, <1>10, <1>11, <1>12, <1>13, <1>14, <1>15, <2>1, <2>2 DEF PairMove
<1>17. Engaged(d)'  BY <1>5, <1>8, <1>11 DEF Engaged
<1>18. Taken(c)'  BY <1>6, <1>9, <1>12, <1>15 DEF Taken
<1>19. DriverInv(d)'
  BY <1>2, <1>8, <1>10, <1>11, <1>17 DEF DriverInv, Waiting, UnderWay, HandedIn, Engaged
<1>20. MatchInv(d)'
  BY <1>5, <1>6, <1>8, <1>9, <1>10, <1>11, <1>12, <1>18 DEF MatchInv, HandedIn
<1>21. TakenInv(c)'
  BY <1>5, <1>6, <1>8, <1>9, <1>11, <1>12, <1>17 DEF TakenInv
<1>22. CustomerInv(c)'
  BY <1>4, <1>6, <1>7, <1>9, <1>12, <1>14, <1>15, <1>18 DEF CustomerInv, Taken
<1>23. CountInv(c)'
  BY <1>4, <1>6, <1>7, <1>9, <1>12, <1>13, <1>14, <1>15, <1>18 DEF CountInv, Open
<1>24. PairInv'
  <2>1. PairInv  BY DEF ObjectInv
  <2>2. QED
    BY <1>4, <1>5, <1>6, <1>8, <1>9, <1>11, <1>12, <1>15, <2>1 DEF PairInv, is_ready, Taken
<1>25. QED
  BY <1>5, <1>16, <1>19, <1>20, <1>21, <1>22, <1>23, <1>24, PairMoves

LEMMA CustomerPaidObject ==
    ASSUME ObjectInv, NEW c \in Customers, CustomerPaid(c)
    PROVE  ObjectInv'
<1> USE ThreadNames
<1>0. /\ ShapeInv /\ CustomerInv(c) /\ CountInv(c) /\ TakenInv(c) /\ customers[c] \in CustomerRecord
      /\ drivers \in [Drivers -> DriverRecord] /\ customers \in [Customers -> CustomerRecord]
      /\ delivered \in [Customers -> Nat] /\ pc[Manager] \in ManagerPCs
  BY CustomerFields DEF ShapeInv
<1>1. pc[Customer(c)] = "paying"  BY DEF CustomerPaid, At
<1>2. Taken(c) /\ customers[c].has_pizza  BY <1>0, <1>1 DEF CustomerInv
<1>3. customers[c].assigned_driver \in Drivers  BY <1>0, <1>2 DEF TakenInv
<1>4. PICK d \in Drivers : customers[c].assigned_driver = d  BY <1>3
<1>5. d \in Drivers /\ Engaged(d) /\ drivers[d].assigned_customer = c
  BY <1>0, <1>2, <1>4 DEF TakenInv
<1> DEFINE x == [drivers[d] EXCEPT !.paid = TRUE]
<1>6. /\ process = "running" /\ pc[Customer(c)] = "paying" /\ Goes(Customer(c), "ready")
      /\ drivers' = [drivers EXCEPT ![d] = x]
      /\ UNCHANGED <<input, process, customers, pair, requested, delivered, payments>>
  BY <1>0, <1>4 DEF CustomerPaid, At, history
<1>7. /\ DriverInv(d) /\ drivers[d] \in DriverRecord /\ pc[Driver(d)] \in HandedIn
      /\ pc[Driver(d)] \in DriverPCs
  BY <1>2, <1>5, DriverFields DEF MatchInv
<1>8. /\ x \in DriverRecord /\ x.status = drivers[d].status /\ x.matched = drivers[d].matched
      /\ x.paid = TRUE /\ x.assigned_customer = drivers[d].assigned_customer
      /\ x.recipient = drivers[d].recipient /\ x.destination = drivers[d].destination
  BY <1>7 DEF DriverRecord
<1> HIDE DEF x
<1>9. /\ pc' \in [Threads -> PCs] /\ pc'[Customer(c)] = "ready"
      /\ \A u \in Threads : u # Customer(c) => pc'[u] = pc[u]
  <2>1. "ready" \in PCs  BY DEF PCs
  <2>2. QED  BY <1>0, <1>6, <2>1, GoesLemma
<1>10. /\ drivers' \in [Drivers -> DriverRecord] /\ drivers'[d] = x
      /\ \A e \in Drivers \ {d} : drivers'[e] = drivers[e]
  BY <1>0, <1>6, <1>5, <1>8
<1>11. pc'[Manager] = pc[Manager] /\ pc'[Driver(d)] = pc[Driver(d)]
  BY <1>5, <1>9
<1>12. PairMove(c, d)
  <2>1. /\ \A e \in Drivers \ {d} : Engaged(e) => drivers[e].assigned_customer # c
        /\ \A b \in Customers \ {c} : Taken(b) => customers[b].assigned_driver # d
    BY <1>5, OneMatch
  <2>2. "ready" \in CustomerPCs \ {"new"} /\ pc[Driver(d)] # "new"  BY <1>7 DEF CustomerPCs, HandedIn
  <2>3. QED
    BY <1>0, <1>6, <1>7, <1>9, <1>10, <1>11, <2>1, <2>2 DEF PairMove
<1>13. ~Engaged(d)'  BY <1>8, <1>10 DEF Engaged
<1>14. ~Taken(c)'  BY <1>9 DEF Taken
<1>15. DriverInv(d)'
  BY <1>7, <1>8, <1>10, <1>11, <1>13 DEF DriverInv, Waiting, UnderWay, HandedIn
<1>16. MatchInv(d)'  BY <1>13 DEF MatchInv
<1>17. TakenInv(c)'  BY <1>14 DEF TakenInv
<1>18. CustomerInv(c)'
  BY <1>0, <1>6, <1>2, <1>9 DEF CustomerInv, Taken
<1>19. CountInv(c)'
  <2>1. ~Open(c)' /\ Open(c)  BY <1>6, <1>2, <1>9, <1>14 DEF Open, Taken
  <2>2. requested[c] = payments[c] /\ requested[c] = delivered[c]
    <3>1. requested[c] \in Nat /\ delivered[c] \in Nat /\ payments[c] \in Nat  BY CustomerFields
    <3>2. QED  BY <1>0, <1>6, <1>2, <2>1, <3>1 DEF CountInv
  <2>3. requested[c] \in Nat  BY CustomerFields
  <2>4. QED  BY <1>0, <1>6, <2>1, <2>2, <2>3 DEF CountInv
<1>20. PairInv'
  <2>1. PairInv  BY DEF ObjectInv
  <2>2. QED  BY <1>6, <1>5, <1>8, <1>10, <1>11, <2>1 DEF PairInv, is_ready
<1>21. QED
  BY <1>5, <1>12, <1>15, <1>16, <1>17, <1>18, <1>19, <1>20, PairMoves


-----------------------------------------------------------------------------
(* ObjectInv and the steps of run_customer.                                *)

Asking == {"lock", "test", "await_pizza", "relock"}

(* A place change alone *)
LEMMA CustomerGoes ==
    ASSUME ObjectInv, NEW c \in Customers, NEW place \in CustomerPCs,
           process = "running", Goes(Customer(c), place),
           UNCHANGED <<input, process, objects, history>>,
           \/ pc[Customer(c)] \in Asking /\ place \in Asking
                /\ (place \in {"lock", "test"} \/ customers[c].status # "Finished")
           \/ pc[Customer(c)] \in {"test", "leave", "finish"} /\ place \in {"leave", "finish", "end"}
                /\ customers[c].status = "Finished"
    PROVE  ObjectInv'
<1> USE ThreadNames
<1>0. /\ ShapeInv /\ CustomerInv(c) /\ CountInv(c) /\ customers \in [Customers -> CustomerRecord]
      /\ requested \in [Customers -> Nat] /\ delivered \in [Customers -> Nat]
      /\ payments \in [Customers -> Nat]
  BY CustomerFields DEF ShapeInv
<1>1. UNCHANGED <<input, process, drivers, customers, pair, requested, delivered, payments>>
  BY DEF objects, history
<1>2. place \in PCs /\ place # "new" /\ place \notin {"ready", "readied", "paying"}
  BY DEF CustomerPCs, PCs, Asking
<1>3. pc[Customer(c)] \notin {"new", "ready", "readied", "paying"}  BY DEF Asking
<1>4. pc'[Customer(c)] = place  BY <1>0, <1>2, GoesLemma
<1>5. Taken(c)' <=> Taken(c)  BY <1>1, <1>2, <1>3, <1>4 DEF Taken
<1>6. Open(c)' <=> Open(c)  BY <1>1, <1>2, <1>3, <1>4, <1>5 DEF Open
<1>7. CustomerMove(c)  BY <1>0, <1>1, <1>2, <1>3, <1>5 DEF CustomerMove
<1>8. CustomerInv(c)'
  BY <1>0, <1>1, <1>2, <1>3, <1>4, <1>5 DEF CustomerInv, Asking
<1>9. CountInv(c)'  BY <1>0, <1>1, <1>2, <1>3, <1>4, <1>6 DEF CountInv
<1>10. QED  BY <1>7, <1>8, <1>9, CustomerMoves

(* The object or the counts change as well: a customer who is not taken,   *)
(* or who changes only the counts.                                         *)
CustomerChange(c, place, y, n, m) ==
    /\ place \in CustomerPCs \ {"new"} /\ y \in CustomerRecord /\ n \in Nat /\ m \in Nat
    /\ process = "running" /\ pc[Customer(c)] # "new" /\ Goes(Customer(c), place)
    /\ customers' = [customers EXCEPT ![c] = y]
    /\ requested' = [requested EXCEPT ![c] = n]
    /\ payments' = [payments EXCEPT ![c] = m]
    /\ UNCHANGED <<input, process, drivers, pair, delivered>>
    /\ (customers[c].status = "Available") => (y.status = "Available")
    /\ Taken(c) <=> (y.matched /\ y.status = "Unavailable" /\ place # "ready")
    /\ Taken(c) => (y = customers[c])

LEMMA CustomerChanges ==
    ASSUME ObjectInv, NEW c \in Customers, NEW place, NEW y, NEW n, NEW m,
           CustomerChange(c, place, y, n, m)
    PROVE  /\ CustomerInv(c)' /\ CountInv(c)' => ObjectInv'
           /\ customers'[c] = y /\ pc'[Customer(c)] = place /\ (Taken(c)' <=> Taken(c))
           /\ requested'[c] = n /\ payments'[c] = m /\ delivered'[c] = delivered[c]
<1> USE ThreadNames
<1>0. /\ ShapeInv /\ customers \in [Customers -> CustomerRecord]
      /\ requested \in [Customers -> Nat] /\ delivered \in [Customers -> Nat]
      /\ payments \in [Customers -> Nat]
  BY CustomerFields DEF ShapeInv
<1>1. place \in PCs  BY DEF CustomerPCs, PCs, CustomerChange
<1>2. pc'[Customer(c)] = place  BY <1>0, <1>1, GoesLemma DEF CustomerChange
<1>3. /\ customers' \in [Customers -> CustomerRecord] /\ customers'[c] = y
      /\ requested' \in [Customers -> Nat] /\ requested'[c] = n
      /\ payments' \in [Customers -> Nat] /\ payments'[c] = m
      /\ \A b \in Customers \ {c} : customers'[b] = customers[b] /\ requested'[b] = requested[b]
                                      /\ payments'[b] = payments[b]
  BY <1>0 DEF CustomerChange
<1>4. Taken(c)' <=> Taken(c)  BY <1>2, <1>3 DEF Taken, CustomerChange
<1>5. CustomerMove(c)  BY <1>0, <1>3, <1>4 DEF CustomerMove, CustomerChange
<1>6. delivered'[c] = delivered[c]  BY DEF CustomerChange
<1>7. QED  BY <1>2, <1>3, <1>4, <1>5, <1>6, CustomerMoves

LEMMA CustomerReadyObject ==
    ASSUME ObjectInv, NEW c \in Customers, CustomerReady(c)
    PROVE  ObjectInv'
<1>0. /\ ShapeInv /\ CustomerInv(c) /\ CountInv(c) /\ customers[c] \in CustomerRecord
      /\ customers \in [Customers -> CustomerRecord] /\ requested \in [Customers -> Nat]
      /\ payments \in [Customers -> Nat]
      /\ requested[c] \in Nat /\ delivered[c] \in Nat /\ payments[c] \in Nat
      /\ customers[c].requests \in Seq(Locations) /\ Len(customers[c].requests) \in Nat
      /\ customers[c].requests \in RequestLists
  BY CustomerFields DEF ShapeInv, CustomerRecord
<1>1. /\ process = "running" /\ pc[Customer(c)] = "ready"
      /\ UNCHANGED <<input, process, drivers, pair, delivered, payments>>
  BY DEF CustomerReady, At
<1>2. ~Taken(c) /\ customers[c].status = "Unavailable"
  BY <1>0, <1>1 DEF Taken, CustomerInv, CustomerRecord
<1>3. ~Open(c) /\ requested[c] = payments[c] /\ requested[c] = delivered[c]
      /\ requested[c] + Len(customers[c].requests) <= MaxRequests
  <2>1. ~Open(c)  BY <1>1, <1>2 DEF Open
  <2>2. QED  BY <1>0, <2>1 DEF CountInv
<1>4. payments' = [payments EXCEPT ![c] = payments[c]]  BY <1>0, <1>1
<1>5. CASE customers[c].requests = <<>>
  <2> DEFINE y == [customers[c] EXCEPT !.status = "Finished"]
             place == AfterReady(c)
  <2>1. /\ customers' = [customers EXCEPT ![c] = y] /\ Goes(Customer(c), place)
        /\ requested' = [requested EXCEPT ![c] = requested[c]]
    BY <1>0, <1>5 DEF CustomerReady
  <2>2. /\ y \in CustomerRecord /\ y.status = "Finished" /\ y.requests = customers[c].requests
    BY <1>0 DEF CustomerRecord
  <2>3. place \in {"test", "lock"} /\ place \in CustomerPCs \ {"new"}
    BY DEF AfterReady, CustomerPCs
  <2> HIDE DEF y, place
  <2>4. CustomerChange(c, place, y, requested[c], payments[c])
    BY <1>0, <1>1, <1>2, <1>4, <2>1, <2>2, <2>3 DEF CustomerChange
  <2>5. /\ CustomerInv(c)' /\ CountInv(c)' => ObjectInv'
        /\ customers'[c] = y /\ pc'[Customer(c)] = place /\ ~Taken(c)'
        /\ requested'[c] = requested[c] /\ payments'[c] = payments[c]
        /\ delivered'[c] = delivered[c]
    BY <1>2, <2>4, CustomerChanges
  <2>6. CustomerInv(c)'  BY <2>2, <2>3, <2>5 DEF CustomerInv
  <2>7. ~Open(c)'  BY <2>2, <2>3, <2>5 DEF Open
  <2>8. CountInv(c)'  BY <1>0, <1>3, <2>2, <2>5, <2>7 DEF CountInv
  <2>9. QED  BY <2>5, <2>6, <2>8
<1>6. CASE customers[c].requests # <<>>
  <2> DEFINE y == NextRequest(customers[c])
             left == customers[c].requests
  <2>1. /\ customers' = [customers EXCEPT ![c] = y] /\ Goes(Customer(c), "readied")
        /\ requested' = [requested EXCEPT ![c] = requested[c] + 1]
    BY <1>0, <1>6 DEF CustomerReady
  <2>2. Head(left) \in Locations /\ Tail(left) \in Seq(Locations) /\ Len(Tail(left)) = Len(left) - 1
    BY <1>0, <1>6
  <2>3. Tail(left) \in RequestLists
    <3>1. Len(left) <= MaxRequests  BY <1>0, RequestSeq
    <3>2. Len(Tail(left)) <= MaxRequests  BY <1>0, <2>2, <3>1, PizzaAssumption
    <3>3. QED  BY <2>2, <3>2, RequestSeq
  <2>4. /\ y \in CustomerRecord /\ y.status = "Unavailable" /\ y.matched = FALSE
        /\ y.has_pizza = FALSE /\ Len(y.requests) = Len(left) - 1
    BY <1>0, <1>2, <2>2, <2>3 DEF CustomerRecord, NextRequest
  <2>5. "readied" \in CustomerPCs \ {"new"} /\ requested[c] + 1 \in Nat
    BY <1>0 DEF CustomerPCs
  <2> HIDE DEF y
  <2>6. CustomerChange(c, "readied", y, requested[c] + 1, payments[c])
    BY <1>0, <1>1, <1>2, <1>4, <2>1, <2>4, <2>5 DEF CustomerChange
  <2>7. /\ CustomerInv(c)' /\ CountInv(c)' => ObjectInv'
        /\ customers'[c] = y /\ pc'[Customer(c)] = "readied" /\ ~Taken(c)'
        /\ requested'[c] = requested[c] + 1 /\ payments'[c] = payments[c]
        /\ delivered'[c] = delivered[c]
    BY <1>2, <2>6, CustomerChanges
  <2>8. CustomerInv(c)'  BY <2>4, <2>7 DEF CustomerInv
  <2>9. Open(c)'  BY <2>7 DEF Open
  <2>10. CountInv(c)'
    <3>1. /\ requested[c] + 1 = payments[c] + 1 /\ requested[c] + 1 = delivered[c] + 1
          /\ (requested[c] + 1) + (Len(left) - 1) <= MaxRequests
      BY <1>0, <1>3, PizzaAssumption
    <3>2. QED  BY <2>4, <2>7, <2>9, <3>1 DEF CountInv
  <2>11. QED  BY <2>7, <2>8, <2>10
<1>7. QED  BY <1>5, <1>6

LEMMA CustomerReadiedObject ==
    ASSUME ObjectInv, NEW c \in Customers, CustomerReadied(c)
    PROVE  ObjectInv'
<1> DEFINE y == [customers[c] EXCEPT !.status = "Available"]
           place == AfterReady(c)
<1>0. /\ ShapeInv /\ CustomerInv(c) /\ CountInv(c) /\ customers[c] \in CustomerRecord
      /\ customers \in [Customers -> CustomerRecord] /\ requested \in [Customers -> Nat]
      /\ payments \in [Customers -> Nat] /\ requested[c] \in Nat /\ payments[c] \in Nat
  BY CustomerFields DEF ShapeInv
<1>1. /\ process = "running" /\ pc[Customer(c)] = "readied"
      /\ customers' = [customers EXCEPT ![c] = y] /\ Goes(Customer(c), place)
      /\ requested' = [requested EXCEPT ![c] = requested[c]]
      /\ payments' = [payments EXCEPT ![c] = payments[c]]
      /\ UNCHANGED <<input, process, drivers, pair, delivered>>
  BY <1>0 DEF CustomerReadied, At, history
<1>2. ~customers[c].matched /\ ~customers[c].has_pizza /\ ~Taken(c)
  BY <1>0, <1>1 DEF CustomerInv, Taken
<1>3. /\ y \in CustomerRecord /\ y.status = "Available" /\ y.requests = customers[c].requests
      /\ y.matched = customers[c].matched /\ y.has_pizza = customers[c].has_pizza
  BY <1>0 DEF CustomerRecord
<1>4. place \in {"test", "lock"} /\ place \in CustomerPCs \ {"new"}
  BY DEF AfterReady, CustomerPCs
<1> HIDE DEF y, place
<1>5. CustomerChange(c, place, y, requested[c], payments[c])
  BY <1>0, <1>1, <1>2, <1>3, <1>4 DEF CustomerChange
<1>6. /\ CustomerInv(c)' /\ CountInv(c)' => ObjectInv'
      /\ customers'[c] = y /\ pc'[Customer(c)] = place /\ ~Taken(c)'
      /\ requested'[c] = requested[c] /\ payments'[c] = payments[c]
      /\ delivered'[c] = delivered[c]
  BY <1>2, <1>5, CustomerChanges
<1>7. CustomerInv(c)'  BY <1>2, <1>3, <1>4, <1>6 DEF CustomerInv
<1>8. Open(c) /\ Open(c)'  BY <1>1, <1>3, <1>6 DEF Open
<1>9. CountInv(c)'  BY <1>0, <1>1, <1>2, <1>3, <1>4, <1>6, <1>8 DEF CountInv
<1>10. QED  BY <1>6, <1>7, <1>9

LEMMA CustomerAwaitPizzaObject ==
    ASSUME ObjectInv, NEW c \in Customers, CustomerAwaitPizza(c)
    PROVE  ObjectInv'
<1>0. /\ ShapeInv /\ CustomerInv(c) /\ CountInv(c) /\ customers[c] \in CustomerRecord
      /\ customers \in [Customers -> CustomerRecord] /\ requested \in [Customers -> Nat]
      /\ payments \in [Customers -> Nat] /\ requested[c] \in Nat /\ payments[c] \in Nat
      /\ customers[c].status \in {"Unavailable", "Available", "Finished"}
  BY CustomerFields DEF ShapeInv
<1>1. /\ process = "running" /\ pc[Customer(c)] = "await_pizza"
      /\ UNCHANGED <<input, process, objects, requested, delivered>>
  BY DEF CustomerAwaitPizza, At
<1>2. customers[c].status # "Finished"  BY <1>0, <1>1 DEF CustomerInv
<1>3. CASE ~CanPay(customers[c])
  <2>1. Goes(Customer(c), "relock") /\ UNCHANGED <<input, process, objects, history>>
    BY <1>1, <1>3 DEF CustomerAwaitPizza, history
  <2>2. "relock" \in CustomerPCs /\ "relock" \in Asking /\ "await_pizza" \in Asking
    BY DEF CustomerPCs, Asking
  <2>3. QED  BY <1>1, <1>2, <2>1, <2>2, CustomerGoes
<1>4. CASE CanPay(customers[c])
  <2>1. /\ Goes(Customer(c), "paying") /\ payments' = [payments EXCEPT ![c] = payments[c] + 1]
        /\ customers' = [customers EXCEPT ![c] = customers[c]]
        /\ requested' = [requested EXCEPT ![c] = requested[c]]
        /\ UNCHANGED <<input, process, drivers, pair, delivered>>
    BY <1>0, <1>1, <1>4 DEF CustomerAwaitPizza, objects
  <2>2. customers[c].has_pizza /\ customers[c].matched /\ customers[c].status = "Unavailable"
        /\ Taken(c)
    BY <1>0, <1>1, <1>2, <1>4 DEF CanPay, CustomerInv, Taken
  <2>3. "paying" \in CustomerPCs \ {"new"} /\ payments[c] + 1 \in Nat
    BY <1>0 DEF CustomerPCs
  <2>4. CustomerChange(c, "paying", customers[c], requested[c], payments[c] + 1)
    BY <1>0, <1>1, <2>1, <2>2, <2>3 DEF CustomerChange
  <2>5. /\ CustomerInv(c)' /\ CountInv(c)' => ObjectInv'
        /\ customers'[c] = customers[c] /\ pc'[Customer(c)] = "paying" /\ Taken(c)'
        /\ requested'[c] = requested[c] /\ payments'[c] = payments[c] + 1
        /\ delivered'[c] = delivered[c]
    BY <2>2, <2>4, CustomerChanges
  <2>6. CustomerInv(c)'  BY <2>2, <2>5 DEF CustomerInv
  <2>7. Open(c) /\ Open(c)'  BY <2>2, <2>5 DEF Open
  <2>8. CountInv(c)'  BY <1>0, <1>1, <2>2, <2>5, <2>7 DEF CountInv
  <2>9. QED  BY <2>5, <2>6, <2>8
<1>5. QED  BY <1>3, <1>4


-----------------------------------------------------------------------------
(* ObjectInv and the steps of run_pizza_manager.                           *)

(* What calc_dist returns is an unsigned int. *)
LEMMA DistanceType ==
    ASSUME ObjectInv, NEW p \in AvailablePairs
    PROVE  DistanceOf(p) \in Nat
<1>1. p[1] \in Customers /\ p[2] \in Drivers  BY DEF AvailablePairs
<1>2. customers[p[1]].location \in Locations /\ drivers[p[2]].location \in Locations
  BY <1>1 DEF ObjectInv, ShapeInv, CustomerRecord, DriverRecord
<1>3. ASSUME NEW a \in Locations, NEW b \in Locations PROVE rectilinear(a, b) \in Int
  <2>0. Coordinates \subseteq Int
    <3>1. UINT_MAX \in Nat /\ Coordinates \subseteq 0 .. UINT_MAX  BY PizzaAssumption
    <3>2. QED  BY <3>1
  <2>1. a[1] \in Int /\ a[2] \in Int /\ b[1] \in Int /\ b[2] \in Int
    BY <2>0 DEF Locations
  <2>2. QED  BY <2>1 DEF rectilinear, Difference
<1>4. ASSUME NEW i \in Int PROVE i % (UINT_MAX + 1) \in Nat
  <2>1. UINT_MAX + 1 \in Int /\ UINT_MAX + 1 > 0  BY PizzaAssumption
  <2>2. \A k \in Int : k > 0 => i % k \in 0 .. (k - 1)  OBVIOUS
  <2>3. QED  BY <2>1, <2>2
<1>5. QED  BY <1>2, <1>3, <1>4 DEF DistanceOf, calc_dist

(* The two loops of match_delivery find a pair, if there is a near one. *)
LEMMA MatchFound ==
    ASSUME ObjectInv, Near # {}
    PROVE  match_delivery \in AvailablePairs
<1> DEFINE S == {DistanceOf(p) : p \in Near}
<1>1. S \subseteq Nat /\ S # {}
  <2>1. \A p \in Near : DistanceOf(p) \in Nat  BY DistanceType DEF Near
  <2>2. QED  BY <2>1
<1>2. PICK m \in S : \A n \in S : m <= n
  <2> HIDE DEF S
  <2>1. QED  BY <1>1, LeastOf
<1>3. PICK p \in Near : DistanceOf(p) = m  BY <1>2
<1>4. p \in Nearest  BY <1>2, <1>3 DEF Nearest
<1>5. Nearest \subseteq Customers \X Drivers /\ Nearest \subseteq AvailablePairs
  BY DEF Nearest, Near, AvailablePairs
<1> DEFINE C == {q[1] : q \in Nearest}
<1>6. C \subseteq Nat /\ C # {}  BY <1>4, <1>5 DEF Customers
<1>7. PICK c \in C : \A b \in C : c <= b
  <2> HIDE DEF C
  <2>1. QED  BY <1>6, LeastOf
<1> DEFINE D == {q[2] : q \in {r \in Nearest : r[1] = c}}
<1>8. D \subseteq Nat /\ D # {}  BY <1>5, <1>7 DEF Drivers
<1>9. PICK d \in D : \A e \in D : d <= e
  <2> HIDE DEF D
  <2>1. QED  BY <1>8, LeastOf
<1>10. PICK r \in Nearest : r[1] = c /\ r[2] = d  BY <1>9
<1>11. \A q \in Nearest : r[1] < q[1] \/ (r[1] = q[1] /\ r[2] <= q[2])
  <2> SUFFICES ASSUME NEW q \in Nearest PROVE r[1] < q[1] \/ (r[1] = q[1] /\ r[2] <= q[2])
    OBVIOUS
  <2>1. q[1] \in C /\ c <= q[1] /\ c \in Nat /\ q[1] \in Nat  BY <1>6, <1>7
  <2>2. CASE q[1] = c
    <3>1. q[2] \in D  BY <2>2
    <3>2. QED  BY <1>9, <1>10, <2>2, <3>1
  <2>3. CASE q[1] # c  BY <1>10, <2>1, <2>3
  <2>4. QED  BY <2>2, <2>3
<1>12. match_delivery \in Nearest  BY <1>11 DEF match_delivery
<1>13. QED  BY <1>5, <1>12

(* The end of the process changes nothing else. *)
LEMMA ObjectSame ==
    ASSUME ObjectInv, UNCHANGED <<input, pc, objects, history>>,
           process' \in {"running", "exited", "aborted", "crashed"}
    PROVE  ObjectInv'
<1>1. UNCHANGED <<input, pc, drivers, customers, pair, requested, delivered, payments>>
  BY DEF objects, history
<1>2. ShapeInv /\ SpawnInv /\ PairInv  BY DEF ObjectInv
<1>3. ShapeInv'  BY <1>1, <1>2 DEF ShapeInv
<1>4. SpawnInv'  BY <1>1, <1>2 DEF SpawnInv, Created
<1>5. PairInv'  BY <1>1, <1>2 DEF PairInv, is_ready
<1>6. \A d : SameDriver(d)  BY <1>1 DEF SameDriver
<1>7. \A c : SameCustomer(c)  BY <1>1 DEF SameCustomer
<1>8. ASSUME NEW d \in Drivers PROVE DriverInv(d)' /\ MatchInv(d)'
  <2>1. DriverInv(d) /\ MatchInv(d)  BY DEF ObjectInv
  <2>2. DriverInv(d)' /\ (Engaged(d)' <=> Engaged(d))  BY <1>6, <2>1, DriverFrame
  <2>3. \A c \in Customers : Taken(c)' <=> Taken(c)  BY <1>7, CustomerFrame
  <2>4. MatchInv(d)'  BY <1>1, <2>1, <2>2, <2>3 DEF MatchInv
  <2>5. QED  BY <2>2, <2>4
<1>9. ASSUME NEW c \in Customers PROVE TakenInv(c)' /\ CustomerInv(c)' /\ CountInv(c)'
  <2>1. TakenInv(c) /\ CustomerInv(c) /\ CountInv(c)  BY DEF ObjectInv
  <2>2. CustomerInv(c)' /\ CountInv(c)' /\ (Taken(c)' <=> Taken(c))
    BY <1>7, <2>1, CustomerFrame
  <2>3. \A d \in Drivers : Engaged(d)' <=> Engaged(d)  BY <1>6, DriverFrame
  <2>4. TakenInv(c)'  BY <1>1, <2>1, <2>2, <2>3 DEF TakenInv
  <2>5. QED  BY <2>2, <2>4
<1>10. QED  BY <1>3, <1>4, <1>5, <1>8, <1>9 DEF ObjectInv

LEMMA EndsObject ==
    ASSUME ObjectInv, NEW how \in {"exited", "aborted", "crashed"}, Ends(how)
    PROVE  ObjectInv'
BY ObjectSame DEF Ends

LEMMA ManagerMatchObject ==
    ASSUME ObjectInv, ManagerMatch
    PROVE  ObjectInv'
<1>0. ShapeInv /\ SpawnInv  BY DEF ObjectInv
<1>1. pc[Manager] = "match" /\ process = "running"  BY DEF ManagerMatch, At
<1>2. CASE Near = {}
  <2>1. Ends("crashed")  BY <1>2 DEF ManagerMatch
  <2>2. QED  BY <2>1, EndsObject
<1>3. CASE Near # {}
  <2>1. /\ pair' = match_delivery /\ Goes(Manager, "assign")
        /\ UNCHANGED <<input, process, drivers, customers, history>>
    BY <1>3 DEF ManagerMatch
  <2>2. pair' \in AvailablePairs  BY <1>3, <2>1, MatchFound
  <2>3. pair' \in Customers \X Drivers  BY <2>2 DEF AvailablePairs
  <2>4. "assign" \in ManagerPCs \ {"load"}  BY DEF ManagerPCs
  <2>5. ManagerMove  BY <1>1, <2>1, <2>3, <2>4 DEF ManagerMove
  <2>6. PairInv'  BY <2>1, <2>2, <2>3 DEF PairInv, AvailablePairs, is_ready
  <2>7. QED  BY <1>0, <1>1, <2>5, <2>6, ManagerMoves DEF SpawnInv
<1>4. QED  BY <1>2, <1>3

LEMMA ManagerAssignObject ==
    ASSUME ObjectInv, ManagerAssign
    PROVE  ObjectInv'
<1> USE ThreadNames
<1>0. /\ ShapeInv /\ SpawnInv /\ PairInv
      /\ drivers \in [Drivers -> DriverRecord] /\ customers \in [Customers -> CustomerRecord]
      /\ delivered \in [Customers -> Nat]
  BY DEF ObjectInv, ShapeInv
<1>1. pc[Manager] = "assign" /\ process = "running"  BY DEF ManagerAssign, At
<1>2. pair[1] \in Customers /\ pair[2] \in Drivers  BY <1>0, <1>1 DEF PairInv
<1>3. PICK c \in Customers : c = pair[1]  BY <1>2
<1>4. PICK d \in Drivers : d = pair[2]  BY <1>2
<1>5. customers[c].status = "Available" /\ drivers[d].status = "Available"
  BY <1>0, <1>1, <1>3, <1>4 DEF PairInv, is_ready
<1>6. /\ DriverInv(d) /\ drivers[d] \in DriverRecord /\ pc[Driver(d)] \in DriverPCs
      /\ CustomerInv(c) /\ CountInv(c) /\ customers[c] \in CustomerRecord
      /\ pc[Customer(c)] \in CustomerPCs
  BY DriverFields, CustomerFields
<1>7. /\ ~drivers[d].matched /\ ~drivers[d].paid /\ pc[Driver(d)] \in Waiting
      /\ ~customers[c].matched /\ ~customers[c].has_pizza
      /\ pc[Customer(c)] \in {"lock", "test", "await_pizza", "relock"}
  BY <1>5, <1>6 DEF DriverInv, CustomerInv
<1> DEFINE x == [drivers[d] EXCEPT !.status = "Unavailable", !.matched = TRUE,
                                   !.assigned_customer = c]
           y == TakenBy(customers[c], d)
<1>8. /\ Goes(Manager, "notify")
      /\ drivers' = [drivers EXCEPT ![d] = x] /\ customers' = [customers EXCEPT ![c] = y]
      /\ UNCHANGED <<input, process, pair, requested, delivered, payments>>
  <2>1. /\ Goes(Manager, "notify")
        /\ drivers' = [drivers EXCEPT ![d].status = "Unavailable", ![d].matched = TRUE,
                                      ![d].assigned_customer = c]
        /\ customers' = [customers EXCEPT ![c] = TakenBy(@, d)]
        /\ UNCHANGED <<input, process, pair, requested, delivered, payments>>
    BY <1>3, <1>4 DEF ManagerAssign, history
  <2>2. QED  BY <1>0, <2>1
<1>9. /\ x \in DriverRecord /\ x.status = "Unavailable" /\ x.matched = TRUE
      /\ x.paid = drivers[d].paid /\ x.assigned_customer = c
  BY <1>6 DEF DriverRecord
<1>10. /\ y \in CustomerRecord /\ y.status = "Unavailable" /\ y.matched = TRUE
       /\ y.assigned_driver = d /\ y.has_pizza = customers[c].has_pizza
       /\ y.requests = customers[c].requests
  BY <1>6 DEF CustomerRecord, TakenBy
<1> HIDE DEF x, y
<1>11. /\ pc' \in [Threads -> PCs] /\ pc'[Manager] = "notify"
       /\ \A u \in Threads : u # Manager => pc'[u] = pc[u]
  <2>1. "notify" \in PCs  BY DEF PCs
  <2>2. QED  BY <1>0, <1>8, <2>1, GoesLemma
<1>12. /\ drivers' \in [Drivers -> DriverRecord] /\ drivers'[d] = x
       /\ \A e \in Drivers \ {d} : drivers'[e] = drivers[e]
  BY <1>0, <1>8, <1>9
<1>13. /\ customers' \in [Customers -> CustomerRecord] /\ customers'[c] = y
       /\ \A b \in Customers \ {c} : customers'[b] = customers[b]
  BY <1>0, <1>8, <1>10
<1>14. pc'[Driver(d)] = pc[Driver(d)] /\ pc'[Customer(c)] = pc[Customer(c)]  BY <1>11
<1>15. PairMove(c, d)
  <2>1. ~Engaged(d) /\ ~Taken(c)  BY <1>5, <1>7 DEF Engaged, Taken
  <2>2. /\ \A e \in Drivers \ {d} : Engaged(e) => drivers[e].assigned_customer # c
        /\ \A b \in Customers \ {c} : Taken(b) => customers[b].assigned_driver # d
    BY <2>1, OneMatch
  <2>3. "notify" \in ManagerPCs /\ pc[Driver(d)] # "new" /\ pc[Customer(c)] # "new"
    BY <1>7 DEF ManagerPCs, Waiting
  <2>4. QED
    BY <1>0, <1>1, <1>6, <1>8, <1>11, <1>12, <1>13, <1>14, <2>2, <2>3 DEF PairMove
<1>16. Engaged(d)'  BY <1>7, <1>9, <1>12 DEF Engaged
<1>17. Taken(c)'  BY <1>7, <1>10, <1>13, <1>14 DEF Taken
<1>18. DriverInv(d)'
  BY <1>7, <1>9, <1>12, <1>14 DEF DriverInv, Waiting, UnderWay, HandedIn
<1>19. MatchInv(d)'
  BY <1>7, <1>9, <1>10, <1>12, <1>13, <1>14, <1>17 DEF MatchInv, Waiting, UnderWay, HandedIn
<1>20. TakenInv(c)'  BY <1>9, <1>10, <1>12, <1>13, <1>16 DEF TakenInv
<1>21. CustomerInv(c)'  BY <1>7, <1>10, <1>13, <1>14 DEF CustomerInv
<1>22. CountInv(c)'
  <2>1. Open(c) /\ Open(c)'  BY <1>5, <1>17 DEF Open
  <2>2. QED  BY <1>6, <1>7, <1>8, <1>10, <1>13, <1>14, <2>1 DEF CountInv
<1>23. PairInv'  BY <1>2, <1>0, <1>1, <1>8, <1>11 DEF PairInv
<1>24. QED
  BY <1>15, <1>18, <1>19, <1>20, <1>21, <1>22, <1>23, PairMoves


(* The numbers that create the next thread *)
LEMMA NextNumbers ==
    ASSUME ObjectInv
    PROVE  /\ NextDriver \in 1 .. MaxDrivers + 1 /\ NextCustomer \in 1 .. MaxCustomers + 1
           /\ {d \in Drivers : Created(Driver(d))} = 1 .. NextDriver - 1
           /\ {c \in Customers : Created(Customer(c))} = 1 .. NextCustomer - 1
<1>0. MaxDrivers \in Nat /\ MaxCustomers \in Nat  BY PizzaAssumption
<1>1. \A n \in Nat : Cardinality(1 .. n) = n
  <2> TAKE n \in Nat
  <2>1. QED  BY FS_Interval
<1>2. PICK n \in 0 .. MaxDrivers : {d \in Drivers : Created(Driver(d))} = 1 .. n
  BY DEF ObjectInv, SpawnInv
<1>3. PICK m \in 0 .. MaxCustomers : {c \in Customers : Created(Customer(c))} = 1 .. m
  BY DEF ObjectInv, SpawnInv
<1>4. n \in Nat /\ m \in Nat  BY <1>0
<1>5. NextDriver = n + 1  BY <1>1, <1>2, <1>4 DEF NextDriver
<1>6. NextCustomer = m + 1  BY <1>1, <1>3, <1>4 DEF NextCustomer
<1>7. QED  BY <1>0, <1>2, <1>3, <1>4, <1>5, <1>6

LEMMA SpawnDriverObject ==
    ASSUME ObjectInv, SpawnDriver
    PROVE  ObjectInv'
<1> USE ThreadNames
<1>0. ShapeInv /\ SpawnInv /\ drivers \in [Drivers -> DriverRecord]  BY DEF ObjectInv, ShapeInv
<1>1. /\ pc[Manager] = "spawn" /\ process = "running" /\ NextDriver <= input.drivers
      /\ drivers' = [drivers EXCEPT ![NextDriver] = NewDriver]
      /\ Goes(Driver(NextDriver), "ready")
      /\ UNCHANGED <<input, process, customers, pair, requested, delivered, payments>>
  BY DEF SpawnDriver, At, history
<1>2. NextDriver \in Drivers
  <2>1. NextDriver \in Nat /\ NextDriver >= 1  BY NextNumbers, PizzaAssumption
  <2>2. input.drivers \in Int /\ input.drivers <= MaxDrivers  BY <1>0, <1>1 DEF SpawnInv
  <2>3. MaxDrivers \in Nat  BY PizzaAssumption
  <2>4. QED  BY <1>1, <2>1, <2>2, <2>3 DEF Drivers
<1>3. PICK d \in Drivers : d = NextDriver  BY <1>2
<1>4. {e \in Drivers : Created(Driver(e))} = 1 .. d - 1  BY <1>3, NextNumbers
<1>5. d \in 1 .. MaxDrivers /\ MaxDrivers \in Nat  BY PizzaAssumption DEF Drivers
<1>6. pc[Driver(d)] = "new"
  <2>1. d \notin 1 .. d - 1  BY <1>5
  <2>2. QED  BY <1>4, <2>1 DEF Created
<1>7. /\ pc' \in [Threads -> PCs] /\ pc'[Driver(d)] = "ready"
      /\ \A u \in Threads : u # Driver(d) => pc'[u] = pc[u]
  <2>1. "ready" \in PCs  BY DEF PCs
  <2>2. QED  BY <1>0, <1>1, <1>3, <2>1, GoesLemma
<1>8. /\ NewDriver \in DriverRecord /\ NewDriver.status = "Unavailable" /\ ~NewDriver.matched
  <2>1. Start \in Locations  BY PizzaAssumption DEF Start, Locations
  <2>2. QED  BY <2>1 DEF NewDriver, DriverRecord
<1>9. /\ drivers' \in [Drivers -> DriverRecord] /\ drivers'[d] = NewDriver
      /\ \A e \in Drivers \ {d} : drivers'[e] = drivers[e]
  BY <1>0, <1>1, <1>3, <1>8
<1>10. ~Engaged(d)' /\ ~Engaged(d)
  <2>1. DriverInv(d)  BY DriverFields
  <2>2. QED  BY <1>6, <1>8, <1>9, <2>1 DEF Engaged, DriverInv, Waiting, UnderWay
<1>11. \A c \in Customers : SameCustomer(c)  BY <1>1, <1>7 DEF SameCustomer
<1>12. \A e \in Drivers \ {d} : SameDriver(e)  BY <1>7, <1>9 DEF SameDriver
<1>13. pc'[Manager] = pc[Manager]  BY <1>7
<1>14. ShapeInv'
  <2>1. "ready" \in DriverPCs  BY DEF DriverPCs
  <2>2. QED  BY <1>0, <1>1, <1>7, <1>9, <1>13, <2>1 DEF ShapeInv
<1>15. SpawnInv'
  <2>1. \A e \in Drivers : Created(Driver(e))' <=> (e = d \/ Created(Driver(e)))
    BY <1>7 DEF Created
  <2>2. {e \in Drivers : Created(Driver(e))'} = 1 .. d
    <3>1. \A e \in Drivers : Created(Driver(e)) <=> e \in 1 .. d - 1  BY <1>4
    <3>2. \A e \in Drivers : Created(Driver(e))' <=> e \in 1 .. d
      BY <1>5, <2>1, <3>1 DEF Drivers
    <3>3. 1 .. d \subseteq Drivers  BY <1>5 DEF Drivers
    <3>4. QED  BY <3>2, <3>3
  <2>3. \A c \in Customers : Created(Customer(c))' <=> Created(Customer(c))
    BY <1>7 DEF Created
  <2>4. {c \in Customers : Created(Customer(c))'} = {c \in Customers : Created(Customer(c))}
    BY <2>3
  <2>5. d \in 0 .. MaxDrivers  BY <1>5
  <2>6. QED  BY <1>0, <1>1, <1>13, <2>2, <2>4, <2>5 DEF SpawnInv
<1>16. PairInv'  BY <1>1, <1>13 DEF PairInv
<1>17. \A c \in Customers : Taken(c)' <=> Taken(c)  BY <1>11, CustomerFrame
<1>18. \A e \in Drivers : Engaged(e)' <=> Engaged(e)  BY <1>10, <1>12, DriverFrame
<1>19. ASSUME NEW e \in Drivers PROVE DriverInv(e)' /\ MatchInv(e)'
  <2>1. CASE e = d
    <3>1. DriverInv(d)'
      BY <1>7, <1>8, <1>9, <1>10 DEF DriverInv, Waiting, UnderWay, HandedIn
    <3>2. MatchInv(d)'  BY <1>10 DEF MatchInv
    <3>3. QED  BY <2>1, <3>1, <3>2
  <2>2. CASE e # d
    <3>1. DriverInv(e)'  BY <1>12, <2>2, DriverFrame DEF ObjectInv
    <3>2. MatchInv(e)  BY DEF ObjectInv
    <3>3. drivers'[e] = drivers[e] /\ pc'[Driver(e)] = pc[Driver(e)]
      BY <1>12, <2>2 DEF SameDriver
    <3>4. MatchInv(e)'  BY <1>1, <1>17, <1>18, <3>2, <3>3 DEF MatchInv
    <3>5. QED  BY <3>1, <3>4
  <2>3. QED  BY <2>1, <2>2
<1>20. ASSUME NEW c \in Customers PROVE TakenInv(c)' /\ CustomerInv(c)' /\ CountInv(c)'
  <2>1. CustomerInv(c)' /\ CountInv(c)'  BY <1>11, CustomerFrame DEF ObjectInv
  <2>2. TakenInv(c)  BY DEF ObjectInv
  <2>3. \A e \in Drivers : Engaged(e) => drivers'[e] = drivers[e]
    BY <1>9, <1>10
  <2>4. TakenInv(c)'  BY <1>1, <1>17, <1>18, <2>2, <2>3 DEF TakenInv
  <2>5. QED  BY <2>1, <2>4
<1>21. QED  BY <1>14, <1>15, <1>16, <1>19, <1>20 DEF ObjectInv

LEMMA SpawnCustomerObject ==
    ASSUME ObjectInv, SpawnCustomer
    PROVE  ObjectInv'
<1> USE ThreadNames
<1>0. /\ ShapeInv /\ SpawnInv /\ customers \in [Customers -> CustomerRecord]
      /\ input \in Inputs
  BY DEF ObjectInv, ShapeInv
<1>1. pc[Manager] = "spawn" /\ process = "running" /\ NextCustomer <= Len(input.files)
  BY DEF SpawnCustomer, At
<1>2. /\ input.files \in Seq(Files) /\ Len(input.files) <= MaxCustomers
  BY <1>0, PizzaAssumption
<1>3. NextCustomer \in Customers /\ input.files[NextCustomer] \in Files
  <2>1. NextCustomer \in Nat /\ NextCustomer >= 1  BY NextNumbers, PizzaAssumption
  <2>2. MaxCustomers \in Nat /\ Len(input.files) \in Nat  BY <1>2, PizzaAssumption
  <2>3. NextCustomer \in 1 .. Len(input.files) /\ NextCustomer \in 1 .. MaxCustomers
    BY <1>1, <1>2, <2>1, <2>2
  <2>4. QED  BY <1>2, <2>3 DEF Customers
<1>4. CASE input.files[NextCustomer] = Unreadable
  <2>1. Ends("exited")  BY <1>4 DEF SpawnCustomer
  <2>2. QED  BY <2>1, EndsObject
<1>5. CASE input.files[NextCustomer] # Unreadable
  <2>1. PICK c \in Customers : c = NextCustomer  BY <1>3
  <2>2. PICK garbage \in BOOLEAN :
          customers' = [customers EXCEPT ![c] = NewCustomer(input.files[c], garbage)]
    BY <1>5, <2>1 DEF SpawnCustomer
  <2> DEFINE file == input.files[c]
             y == NewCustomer(file, garbage)
  <2>3. /\ customers' = [customers EXCEPT ![c] = y] /\ Goes(Customer(c), "ready")
        /\ UNCHANGED <<input, process, drivers, pair, requested, delivered, payments>>
    BY <1>5, <2>1, <2>2 DEF SpawnCustomer, history
  <2>4. file \in RequestLists /\ Len(file) \in Nat /\ Len(file) <= MaxRequests
    <3>1. file \in RequestLists  BY <1>3, <1>5, <2>1 DEF Files
    <3>2. QED  BY <3>1, RequestSeq
  <2>5. /\ y \in CustomerRecord /\ y.status = "Unavailable" /\ ~y.matched /\ y.requests = file
    <3>1. Start \in Locations  BY PizzaAssumption DEF Start, Locations
    <3>2. QED  BY <2>4, <3>1 DEF NewCustomer, CustomerRecord
  <2> HIDE DEF file, y
  <2>6. {b \in Customers : Created(Customer(b))} = 1 .. c - 1  BY <2>1, NextNumbers
  <2>7. c \in 1 .. MaxCustomers /\ MaxCustomers \in Nat  BY PizzaAssumption DEF Customers
  <2>8. pc[Customer(c)] = "new"
    <3>1. c \notin 1 .. c - 1  BY <2>7
    <3>2. QED  BY <2>6, <3>1 DEF Created
  <2>9. /\ pc' \in [Threads -> PCs] /\ pc'[Customer(c)] = "ready"
        /\ \A u \in Threads : u # Customer(c) => pc'[u] = pc[u]
    <3>1. "ready" \in PCs  BY DEF PCs
    <3>2. QED  BY <1>0, <2>3, <3>1, GoesLemma
  <2>10. /\ customers' \in [Customers -> CustomerRecord] /\ customers'[c] = y
         /\ \A b \in Customers \ {c} : customers'[b] = customers[b]
    BY <1>0, <2>3, <2>5
  <2>11. CustomerInv(c) /\ CountInv(c) /\ customers[c].status \in {"Unavailable", "Available", "Finished"}
         /\ requested[c] \in Nat /\ delivered[c] \in Nat /\ payments[c] \in Nat
    BY CustomerFields
  <2>12. ~Taken(c) /\ ~Taken(c)' /\ ~Open(c) /\ ~Open(c)'
    BY <2>5, <2>8, <2>9, <2>10, <2>11 DEF Taken, Open, CustomerInv
  <2>13. \A d \in Drivers : SameDriver(d)  BY <2>3, <2>9 DEF SameDriver
  <2>14. \A b \in Customers \ {c} : SameCustomer(b)  BY <2>3, <2>9, <2>10 DEF SameCustomer
  <2>15. pc'[Manager] = pc[Manager]  BY <2>9
  <2>16. ShapeInv'
    <3>1. "ready" \in CustomerPCs  BY DEF CustomerPCs
    <3>2. QED  BY <1>0, <2>3, <2>9, <2>10, <2>15, <3>1 DEF ShapeInv
  <2>17. SpawnInv'
    <3>1. \A b \in Customers : Created(Customer(b))' <=> (b = c \/ Created(Customer(b)))
      BY <2>9 DEF Created
    <3>2. {b \in Customers : Created(Customer(b))'} = 1 .. c
      <4>1. \A b \in Customers : Created(Customer(b)) <=> b \in 1 .. c - 1  BY <2>6
      <4>2. \A b \in Customers : Created(Customer(b))' <=> b \in 1 .. c
        BY <2>7, <3>1, <4>1 DEF Customers
      <4>3. 1 .. c \subseteq Customers  BY <2>7 DEF Customers
      <4>4. QED  BY <4>2, <4>3
    <3>3. \A d \in Drivers : Created(Driver(d))' <=> Created(Driver(d))
      BY <2>9 DEF Created
    <3>4. {d \in Drivers : Created(Driver(d))'} = {d \in Drivers : Created(Driver(d))}
      BY <3>3
    <3>5. c \in 0 .. MaxCustomers  BY <2>7
    <3>6. QED  BY <1>0, <2>3, <2>15, <3>2, <3>4, <3>5 DEF SpawnInv
  <2>18. PairInv'  BY <1>1, <2>15 DEF PairInv
  <2>19. \A b \in Customers : Taken(b)' <=> Taken(b)  BY <2>12, <2>14, CustomerFrame
  <2>20. \A d \in Drivers : Engaged(d)' <=> Engaged(d)  BY <2>13, DriverFrame
  <2>21. ASSUME NEW d \in Drivers PROVE DriverInv(d)' /\ MatchInv(d)'
    <3>1. DriverInv(d)'  BY <2>13, DriverFrame DEF ObjectInv
    <3>2. MatchInv(d)  BY DEF ObjectInv
    <3>3. pc'[Driver(d)] = pc[Driver(d)]  BY <2>13 DEF SameDriver
    <3>4. \A b \in Customers : Taken(b) => customers'[b] = customers[b]  BY <2>10, <2>12
    <3>5. MatchInv(d)'  BY <2>3, <2>19, <2>20, <3>2, <3>3, <3>4 DEF MatchInv
    <3>6. QED  BY <3>1, <3>5
  <2>22. ASSUME NEW b \in Customers PROVE TakenInv(b)' /\ CustomerInv(b)' /\ CountInv(b)'
    <3>1. CASE b = c
      <4>1. TakenInv(c)'  BY <2>12 DEF TakenInv
      <4>2. CustomerInv(c)'  BY <2>5, <2>9, <2>10 DEF CustomerInv
      <4>3. requested[c] = 0 /\ payments[c] = 0 /\ delivered[c] = 0
        BY <2>8, <2>11, <2>12 DEF CustomerInv, CountInv
      <4>4. CountInv(c)'  BY <2>3, <2>4, <2>5, <2>10, <2>12, <4>3 DEF CountInv
      <4>5. QED  BY <3>1, <4>1, <4>2, <4>4
    <3>2. CASE b # c
      <4>1. CustomerInv(b)' /\ CountInv(b)'  BY <2>14, <3>2, CustomerFrame DEF ObjectInv
      <4>2. TakenInv(b)  BY DEF ObjectInv
      <4>3. customers'[b] = customers[b]  BY <2>10, <3>2
      <4>4. TakenInv(b)'  BY <2>3, <2>19, <2>20, <4>2, <4>3 DEF TakenInv
      <4>5. QED  BY <4>1, <4>4
    <3>3. QED  BY <3>1, <3>2
  <2>23. QED  BY <2>16, <2>17, <2>18, <2>21, <2>22 DEF ObjectInv
<1>6. QED  BY <1>4, <1>5


-----------------------------------------------------------------------------
(* ObjectInv and the calls of lock and unlock, and all steps together.     *)

(* The tables of Locking and Unlocking, thread by thread *)
LEMMA LockTables ==
    /\ \A p \in DOMAIN Locking.manager : p \in {"lock", "relock"} /\ Locking.manager[p] = "check"
    /\ \A p \in DOMAIN Locking.driver :
         \/ p \in {"lock", "relock"} /\ Locking.driver[p] = "await_match"
         \/ p = "arrived" /\ Locking.driver[p] = "hand_over"
         \/ p = "repay" /\ Locking.driver[p] = "await_payment"
    /\ \A p \in DOMAIN Locking.customer :
         \/ p = "lock" /\ Locking.customer[p] = "test"
         \/ p = "relock" /\ Locking.customer[p] = "await_pizza"
    /\ \A p \in DOMAIN Unlocking : \/ p = "unlock" /\ Unlocking[p] = "lock"
                                   \/ p = "leave" /\ Unlocking[p] = "finish"
<1>1. /\ DOMAIN Locking.manager = {"lock", "relock"}
      /\ DOMAIN Locking.driver = {"lock", "relock", "arrived", "repay"}
      /\ DOMAIN Locking.customer = {"lock", "relock"}
      /\ DOMAIN Unlocking = {"unlock", "leave"}
  BY DEF Locking, Unlocking
<1>2. QED  BY <1>1 DEF Locking, Unlocking

LEMMA LockObject ==
    ASSUME ObjectInv, NEW t \in Threads, TakeLock(t) \/ GiveLock(t)
    PROVE  ObjectInv'
<1> USE ThreadNames
<1>0. ShapeInv /\ SpawnInv /\ PairInv  BY DEF ObjectInv
<1>1. /\ At(t, pc[t]) /\ process = "running"
      /\ UNCHANGED <<input, process, objects, history>>
  BY DEF TakeLock, GiveLock, At
<1>2. CASE t = Manager
  <2>1. PICK place \in {"check", "lock", "finish"} :
          /\ Goes(Manager, place) /\ pc[Manager] \in {"lock", "relock", "unlock", "leave"}
          /\ place = "finish" => pc[Manager] = "leave"
    <3>1. CASE TakeLock(t)
      <4>1. pc[t] \in DOMAIN Locking.manager /\ Goes(t, Locking.manager[pc[t]])
        BY <1>2, <3>1 DEF TakeLock, Locking
      <4>2. QED  BY <1>2, <4>1, LockTables
    <3>2. CASE GiveLock(t)
      <4>1. pc[t] \in DOMAIN Unlocking /\ Goes(t, Unlocking[pc[t]])  BY <3>2 DEF GiveLock
      <4>2. QED  BY <1>2, <4>1, LockTables
    <3>3. QED  BY <3>1, <3>2
  <2>2. place \in ManagerPCs \ {"load"} /\ place \in {"check", "lock"} /\ pc[Manager] # "load"
    BY <1>0, <2>1 DEF ManagerPCs, ShapeInv
  <2>3. UNCHANGED <<input, process, drivers, customers, pair, history>>  BY <1>1 DEF objects
  <2>4. ManagerMove  BY <1>0, <1>1, <2>1, <2>2, <2>3 DEF ManagerMove, ShapeInv
  <2>5. pc'[Manager] = place
    <3>1. place \in PCs  BY <2>2 DEF PCs
    <3>2. QED  BY <1>0, <2>1, <3>1, GoesLemma
  <2>6. PairInv'  BY <2>2, <2>5 DEF PairInv
  <2>7. QED  BY <1>0, <2>2, <2>4, <2>6, ManagerMoves DEF SpawnInv
<1>3. ASSUME NEW d \in Drivers, t = Driver(d) PROVE ObjectInv'
  <2>0. pc[Driver(d)] \in DriverPCs  BY <1>0 DEF ShapeInv
  <2>1. CASE TakeLock(t)
    <3>1. pc[t] \in DOMAIN Locking.driver /\ Goes(t, Locking.driver[pc[t]])
      BY <1>3, <2>1 DEF TakeLock, Locking
    <3>2. CASE pc[t] \in {"lock", "relock"} /\ Goes(t, "await_match")
      <4>1. "await_match" \in DriverPCs \ {"new"} /\ "await_match" \in Waiting /\ pc[t] \in Waiting
        BY <3>2 DEF DriverPCs, Waiting
      <4>2. pc[t] # "new"  BY <3>2
      <4>3. QED  BY <1>1, <1>3, <3>2, <4>1, <4>2, DriverGoes
    <3>3. CASE pc[t] = "arrived" /\ Goes(t, "hand_over")
      <4>1. "hand_over" \in DriverPCs \ {"new"}  BY DEF DriverPCs
      <4>2. QED  BY <1>1, <1>3, <3>3, <4>1, DriverGoes
    <3>4. CASE pc[t] = "repay" /\ Goes(t, "await_payment")
      <4>1. "await_payment" \in DriverPCs \ {"new"} /\ "await_payment" \in HandedIn
            /\ "repay" \in HandedIn
        BY DEF DriverPCs, HandedIn
      <4>2. QED  BY <1>1, <1>3, <3>4, <4>1, DriverGoes
    <3>5. QED  BY <3>1, <3>2, <3>3, <3>4, LockTables
  <2>2. CASE GiveLock(t)
    <3>1. pc[t] \in DOMAIN Unlocking /\ Goes(t, Unlocking[pc[t]])  BY <2>2 DEF GiveLock
    <3>2. pc[t] = "unlock" /\ Goes(t, "lock")
      BY <1>3, <2>0, <3>1, LockTables DEF DriverPCs
    <3>3. "lock" \in DriverPCs \ {"new"} /\ "lock" \in Waiting /\ "unlock" \in Waiting
      BY DEF DriverPCs, Waiting
    <3>4. QED  BY <1>1, <1>3, <3>2, <3>3, DriverGoes
  <2>3. QED  BY <2>1, <2>2
<1>4. ASSUME NEW c \in Customers, t = Customer(c) PROVE ObjectInv'
  <2>0. pc[Customer(c)] \in CustomerPCs /\ CustomerInv(c)  BY CustomerFields
  <2>1. CASE TakeLock(t)
    <3>1. pc[t] \in DOMAIN Locking.customer /\ Goes(t, Locking.customer[pc[t]])
      BY <1>4, <2>1 DEF TakeLock, Locking
    <3>2. CASE pc[t] = "lock" /\ Goes(t, "test")
      <4>1. "test" \in CustomerPCs /\ "test" \in Asking /\ "lock" \in Asking
        BY DEF CustomerPCs, Asking
      <4>2. QED  BY <1>1, <1>4, <3>2, <4>1, CustomerGoes
    <3>3. CASE pc[t] = "relock" /\ Goes(t, "await_pizza")
      <4>1. "await_pizza" \in CustomerPCs /\ "await_pizza" \in Asking /\ "relock" \in Asking
        BY DEF CustomerPCs, Asking
      <4>2. customers[c].status # "Finished"  BY <1>4, <2>0, <3>3 DEF CustomerInv
      <4>3. QED  BY <1>1, <1>4, <3>3, <4>1, <4>2, CustomerGoes
    <3>4. QED  BY <3>1, <3>2, <3>3, LockTables
  <2>2. CASE GiveLock(t)
    <3>1. pc[t] \in DOMAIN Unlocking /\ Goes(t, Unlocking[pc[t]])  BY <2>2 DEF GiveLock
    <3>2. pc[t] = "leave" /\ Goes(t, "finish")
      BY <1>4, <2>0, <3>1, LockTables DEF CustomerPCs
    <3>3. "finish" \in CustomerPCs /\ customers[c].status = "Finished"
      BY <1>4, <2>0, <3>2 DEF CustomerPCs, CustomerInv
    <3>4. QED  BY <1>1, <1>4, <3>2, <3>3, CustomerGoes
  <2>3. QED  BY <2>1, <2>2
<1>5. QED  BY <1>2, <1>3, <1>4, ThreadCases

LEMMA ManagerObject ==
    ASSUME ObjectInv, ManagerStep
    PROVE  ObjectInv'
<1> USE ThreadNames
<1>0. ShapeInv /\ SpawnInv /\ PairInv /\ input \in Inputs
      /\ pair \in (Customers \cup {0}) \X (Drivers \cup {0})
  BY DEF ObjectInv, ShapeInv
(* From one place of the manager to another, while it has no pair, or with *)
(* the pair it has notified                                                *)
<1>1. ASSUME NEW place \in {"spawn", "lock", "match", "wait", "relock", "unlock"},
             process = "running", Goes(Manager, place),
             UNCHANGED <<input, process, objects, history>>,
             input.drivers \in Int, input.drivers <= MaxDrivers
      PROVE  ObjectInv'
  <2>1. place \in ManagerPCs \ {"load"} /\ place \in PCs  BY DEF ManagerPCs, PCs
  <2>2. UNCHANGED <<input, process, drivers, customers, pair, history>>  BY <1>1 DEF objects
  <2>3. ManagerMove  BY <1>0, <1>1, <2>1, <2>2 DEF ManagerMove
  <2>4. pc'[Manager] = place  BY <1>0, <1>1, <2>1, GoesLemma
  <2>5. PairInv'  BY <2>4 DEF PairInv
  <2>6. QED  BY <1>1, <2>3, <2>5, ManagerMoves
<1>2. pc[Manager] # "load" => input.drivers \in Int /\ input.drivers <= MaxDrivers
  BY <1>0 DEF SpawnInv
<1>3. CASE LoadInput
  <2>1. CASE \E how \in InputErrors(input) : Ends(how)
    <3>1. PICK how \in InputErrors(input) : Ends(how)  BY <2>1
    <3>2. how \in {"exited", "aborted", "crashed"}  BY <3>1 DEF InputErrors
    <3>3. QED  BY <3>1, <3>2, EndsObject
  <2>2. CASE InputErrors(input) = {} /\ Goes(Manager, "spawn")
             /\ UNCHANGED <<input, process, schedVars, objects, history>>
    <3>1. input.drivers \notin {OutOfRange, Missing, NotANumber}  BY <2>2 DEF InputErrors
    <3>2. input.drivers \in Int /\ input.drivers <= MaxDrivers  BY <1>0, <3>1, PizzaAssumption
    <3>3. QED  BY <1>1, <1>3, <2>2, <3>2 DEF LoadInput, At
  <2>3. QED  BY <1>3, <2>1, <2>2 DEF LoadInput
<1>4. CASE SpawnDone  BY <1>1, <1>2, <1>4 DEF SpawnDone, At
<1>5. CASE ManagerCheck
  <2>1. PICK place \in {"match", "wait"} : Goes(Manager, place)
    BY <1>5 DEF ManagerCheck
  <2>2. QED  BY <1>1, <1>2, <1>5, <2>1 DEF ManagerCheck, At
<1>6. CASE ManagerWait  BY <1>1, <1>2, <1>6 DEF ManagerWait, At
<1>7. CASE ManagerNotify  BY <1>1, <1>2, <1>7 DEF ManagerNotify, At
<1>8. QED
  BY <1>3, <1>4, <1>5, <1>6, <1>7, SpawnDriverObject, SpawnCustomerObject, ManagerMatchObject,
     ManagerAssignObject DEF ManagerStep

LEMMA DriverObject ==
    ASSUME ObjectInv, NEW d \in Drivers, DriverStep(d)
    PROVE  ObjectInv'
<1>1. CASE DriverReady(d)
  <2>1. /\ At(Driver(d), pc[Driver(d)]) /\ pc[Driver(d)] = "ready" /\ Goes(Driver(d), "readied")
        /\ UNCHANGED <<input, process, objects, history>>
    BY <1>1 DEF DriverReady, At
  <2>2. "readied" \in DriverPCs \ {"new"}  BY DEF DriverPCs
  <2>3. QED  BY <2>1, <2>2, DriverGoes
<1>2. CASE DriverAwaitPayment(d)
  <2>1. /\ At(Driver(d), pc[Driver(d)]) /\ pc[Driver(d)] = "await_payment"
        /\ UNCHANGED <<input, process, objects, history>>
    BY <1>2 DEF DriverAwaitPayment, At
  <2>2. CASE Goes(Driver(d), "repay")
    <3>1. "repay" \in DriverPCs \ {"new"} /\ "repay" \in HandedIn /\ "await_payment" \in HandedIn
      BY DEF DriverPCs, HandedIn
    <3>2. QED  BY <2>1, <2>2, <3>1, DriverGoes
  <2>3. CASE drivers[d].paid /\ Goes(Driver(d), "ready")
    <3>1. "ready" \in DriverPCs \ {"new"}  BY DEF DriverPCs
    <3>2. QED  BY <2>1, <2>3, <3>1, DriverGoes
  <2>4. QED  BY <1>2, <2>2, <2>3 DEF DriverAwaitPayment, is_paid
<1>3. QED
  BY <1>1, <1>2, DriverReadiedObject, DriverAwaitMatchObject, DriverDriveObject,
     DriverHandOverObject DEF DriverStep

LEMMA CustomerObject ==
    ASSUME ObjectInv, NEW c \in Customers, CustomerStep(c)
    PROVE  ObjectInv'
<1>0. CustomerInv(c)  BY CustomerFields
<1>1. CASE CustomerTest(c)
  <2>1. /\ process = "running" /\ pc[Customer(c)] = "test"
        /\ UNCHANGED <<input, process, objects, history>>
    BY <1>1 DEF CustomerTest, At
  <2>2. CASE customers[c].status = "Finished" /\ Goes(Customer(c), "leave")
    <3>1. "leave" \in CustomerPCs  BY DEF CustomerPCs
    <3>2. QED  BY <2>1, <2>2, <3>1, CustomerGoes
  <2>3. CASE customers[c].status # "Finished" /\ Goes(Customer(c), "await_pizza")
    <3>1. "await_pizza" \in CustomerPCs /\ "await_pizza" \in Asking /\ "test" \in Asking
      BY DEF CustomerPCs, Asking
    <3>2. QED  BY <2>1, <2>3, <3>1, CustomerGoes
  <2>4. QED  BY <1>1, <2>2, <2>3 DEF CustomerTest
<1>2. CASE CustomerFinish(c)
  <2>1. /\ process = "running" /\ pc[Customer(c)] = "finish" /\ Goes(Customer(c), "end")
        /\ UNCHANGED <<input, process, objects, history>>
    BY <1>2 DEF CustomerFinish, At
  <2>2. "end" \in CustomerPCs /\ customers[c].status = "Finished"
    BY <1>0, <2>1 DEF CustomerPCs, CustomerInv
  <2>3. QED  BY <1>2, <2>1, <2>2, CustomerGoes DEF CustomerFinish
<1>3. QED
  BY <1>1, <1>2, CustomerReadyObject, CustomerReadiedObject, CustomerAwaitPizzaObject,
     CustomerPaidObject DEF CustomerStep


LEMMA ObjectInit ==
    ASSUME Init
    PROVE  ObjectInv
<1> USE ThreadNames
<1>0. MaxDrivers \in Nat /\ MaxCustomers \in Nat /\ MaxRequests \in Nat
  BY PizzaAssumption
<1>1. /\ pc[Manager] = "load"
      /\ \A d \in Drivers : pc[Driver(d)] = "new"
      /\ \A c \in Customers : pc[Customer(c)] = "new"
      /\ pc \in [Threads -> PCs]
  BY DEF Init, PCs
<1>2. Start \in Locations /\ <<>> \in RequestLists /\ Len(<<>>) = 0
  <2>1. Start \in Locations  BY PizzaAssumption DEF Start, Locations
  <2>2. <<>> \in Seq(Locations) /\ Len(<<>>) = 0 /\ Len(<<>>) <= MaxRequests  BY <1>0
  <2>3. QED  BY <2>1, <2>2, RequestSeq
<1>3. /\ \A d \in Drivers : drivers[d] = NewDriver
      /\ \A c \in Customers : customers[c] = NewCustomer(<<>>, FALSE)
  BY DEF Init
<1>4. NewDriver \in DriverRecord /\ NewDriver.status = "Unavailable" /\ ~NewDriver.matched
  BY <1>2 DEF NewDriver, DriverRecord
<1>5. /\ NewCustomer(<<>>, FALSE) \in CustomerRecord
      /\ NewCustomer(<<>>, FALSE).status = "Unavailable" /\ ~NewCustomer(<<>>, FALSE).matched
      /\ NewCustomer(<<>>, FALSE).requests = <<>>
  BY <1>2 DEF NewCustomer, CustomerRecord
<1>6. ShapeInv
  <2>1. drivers \in [Drivers -> DriverRecord] /\ customers \in [Customers -> CustomerRecord]
    BY <1>4, <1>5 DEF Init
  <2>2. QED  BY <1>1, <2>1 DEF Init, ShapeInv, ManagerPCs, DriverPCs, CustomerPCs
<1>7. SpawnInv
  <2>1. /\ {d \in Drivers : Created(Driver(d))} = 1 .. 0
        /\ {c \in Customers : Created(Customer(c))} = 1 .. 0
    BY <1>1 DEF Created
  <2>2. 0 \in 0 .. MaxDrivers /\ 0 \in 0 .. MaxCustomers  BY <1>0
  <2>3. \E n \in 0 .. MaxDrivers : {d \in Drivers : Created(Driver(d))} = 1 .. n
    BY <2>1, <2>2, Zenon
  <2>4. \E n \in 0 .. MaxCustomers : {c \in Customers : Created(Customer(c))} = 1 .. n
    BY <2>1, <2>2, Zenon
  <2>5. QED  BY <1>1, <2>3, <2>4, Zenon DEF SpawnInv
<1>8. PairInv  BY <1>1 DEF PairInv
<1>9. ASSUME NEW d \in Drivers PROVE DriverInv(d) /\ MatchInv(d)
  <2>1. ~Engaged(d)  BY <1>3, <1>4 DEF Engaged
  <2>2. QED
    BY <1>1, <1>3, <1>4, <2>1 DEF DriverInv, MatchInv, Waiting, UnderWay, HandedIn
<1>10. ASSUME NEW c \in Customers PROVE TakenInv(c) /\ CustomerInv(c) /\ CountInv(c)
  <2>1. ~Taken(c) /\ ~Open(c)  BY <1>1, <1>3, <1>5 DEF Taken, Open
  <2>2. requested[c] = 0 /\ delivered[c] = 0 /\ payments[c] = 0  BY DEF Init
  <2>3. CustomerInv(c)  BY <1>1, <1>3, <1>5, <2>2 DEF CustomerInv
  <2>4. CountInv(c)
    <3>1. Len(customers[c].requests) = 0  BY <1>2, <1>3, <1>5
    <3>2. QED  BY <1>0, <2>1, <2>2, <3>1 DEF CountInv
  <2>5. QED  BY <2>1, <2>3, <2>4 DEF TakenInv
<1>11. QED  BY <1>6, <1>7, <1>8, <1>9, <1>10 DEF ObjectInv

LEMMA ObjectNext ==
    ASSUME ObjectInv, [Next]_vars
    PROVE  ObjectInv'
<1>1. CASE UNCHANGED vars
  <2>1. UNCHANGED <<input, pc, objects, history>> /\ process' = process
    BY <1>1 DEF vars
  <2>2. process \in {"running", "exited", "aborted", "crashed"}  BY DEF ObjectInv, ShapeInv
  <2>3. QED  BY <2>1, <2>2, ObjectSame
<1>2. CASE Next
  BY <1>2, LockObject, ManagerObject, DriverObject, CustomerObject DEF Next
<1>3. QED  BY <1>1, <1>2

(* The invariant of the objects: what the flags of drivers and customers   *)
(* say, by the places of their threads.                                    *)
LEMMA ObjectsCorrect == Spec => []ObjectInv
<1>1. Init => ObjectInv  BY ObjectInit
<1>2. ObjectInv /\ [Next]_vars => ObjectInv'  BY ObjectNext
<1>3. QED  BY <1>1, <1>2, PTL DEF Spec

LEMMA ObjectsPair ==
    ASSUME ObjectInv
    PROVE  PairedUntilPaid
<1> SUFFICES ASSUME NEW d \in Drivers, Delivering(d)
             PROVE  LET c == drivers[d].recipient IN
                    /\ drivers[d].status = "Unavailable" /\ drivers[d].assigned_customer = c
                    /\ customers[c].status = "Unavailable" /\ customers[c].matched
                    /\ customers[c].assigned_driver = d
                    /\ \A e \in Drivers \ {d} : Delivering(e) => drivers[e].recipient # c
                    /\ pc[Driver(d)] # "drive" => drivers[d].destination = customers[c].location
  BY DEF PairedUntilPaid
<1>1. \A e \in Drivers : Delivering(e) => /\ Engaged(e) /\ pc[Driver(e)] \in UnderWay
                                          /\ drivers[e].recipient = drivers[e].assigned_customer
                                          /\ drivers[e].status # "Available"
  <2> SUFFICES ASSUME NEW e \in Drivers, Delivering(e)
               PROVE  /\ Engaged(e) /\ pc[Driver(e)] \in UnderWay
                      /\ drivers[e].recipient = drivers[e].assigned_customer
                      /\ drivers[e].status # "Available"
    OBVIOUS
  <2>1. DriverInv(e) /\ pc[Driver(e)] \in UnderWay /\ ~drivers[e].paid
    BY DEF ObjectInv, Delivering, UnderWay
  <2>2. QED  BY <2>1 DEF DriverInv, Engaged, Waiting, UnderWay
<1>2. PICK c \in Customers : c = drivers[d].recipient
  BY <1>1 DEF ObjectInv, MatchInv
<1>3. /\ Taken(c) /\ customers[c].assigned_driver = d
      /\ (pc[Driver(d)] # "drive" => drivers[d].destination = customers[c].location)
  BY <1>1, <1>2 DEF ObjectInv, MatchInv
<1>4. drivers[d].status = "Unavailable"  BY <1>1, DriverFields
<1>5. \A e \in Drivers \ {d} : Delivering(e) => drivers[e].recipient # c
  <2>1. Engaged(d) /\ drivers[d].assigned_customer = c  BY <1>1, <1>2
  <2>2. \A e \in Drivers \ {d} : Engaged(e) => drivers[e].assigned_customer # c
    BY <2>1, OneMatch
  <2>3. QED  BY <1>1, <2>2
<1>6. QED  BY <1>1, <1>2, <1>3, <1>4, <1>5 DEF Taken

LEMMA ObjectsTrade ==
    ASSUME ObjectInv
    PROVE  TradeInOrder
<1> SUFFICES ASSUME NEW c \in Customers
             PROVE  /\ payments[c] <= delivered[c] /\ delivered[c] <= requested[c]
                    /\ requested[c] <= payments[c] + 1
                    /\ pc[Customer(c)] = "paying" =>
                         LET d == customers[c].assigned_driver IN
                         /\ pc[Driver(d)] \in {"await_payment", "repay"}
                         /\ drivers[d].recipient = c /\ ~drivers[d].paid
  BY DEF TradeInOrder
<1>0. /\ CustomerInv(c) /\ CountInv(c) /\ TakenInv(c)
      /\ requested[c] \in Nat /\ delivered[c] \in Nat /\ payments[c] \in Nat
  BY CustomerFields
<1>1. (Open(c) /\ ~customers[c].has_pizza) => pc[Customer(c)] # "paying"
  BY <1>0 DEF CustomerInv
<1>2. /\ payments[c] <= delivered[c] /\ delivered[c] <= requested[c]
      /\ requested[c] <= payments[c] + 1
  BY <1>0, <1>1 DEF CountInv
<1>3. ASSUME pc[Customer(c)] = "paying"
      PROVE  LET d == customers[c].assigned_driver IN
             /\ pc[Driver(d)] \in {"await_payment", "repay"}
             /\ drivers[d].recipient = c /\ ~drivers[d].paid
  <2>1. Taken(c) /\ customers[c].has_pizza  BY <1>0, <1>3 DEF CustomerInv
  <2>2. PICK d \in Drivers : /\ d = customers[c].assigned_driver /\ Engaged(d)
                             /\ drivers[d].assigned_customer = c
    BY <1>0, <2>1 DEF TakenInv
  <2>3. MatchInv(d) /\ DriverInv(d)  BY DriverFields
  <2>4. pc[Driver(d)] \in HandedIn  BY <2>1, <2>2, <2>3 DEF MatchInv
  <2>5. drivers[d].recipient = c /\ ~drivers[d].paid
    BY <2>2, <2>3, <2>4 DEF DriverInv, HandedIn, UnderWay, Engaged
  <2>6. QED  BY <2>2, <2>4, <2>5 DEF HandedIn
<1>4. QED  BY <1>2, <1>3

(* PairedUntilPaid for any numbers of drivers and customers: from the      *)
(* match made by the manager to the payment, over both waits and the drive *)
(* without the lock, driver and customer belong to each other.             *)
THEOREM PairsStayTogether == Spec => []PairedUntilPaid
<1>1. ObjectInv => PairedUntilPaid  BY ObjectsPair
<1>2. QED  BY <1>1, ObjectsCorrect, PTL

(* TradeInOrder for any numbers of drivers, customers and requests: each   *)
(* request is delivered once and paid once, to the driver who brought it.  *)
THEOREM TradesInOrder == Spec => []TradeInOrder
<1>1. ObjectInv => TradeInOrder  BY ObjectsTrade
<1>2. QED  BY <1>1, ObjectsCorrect, PTL


-----------------------------------------------------------------------------
(* What a step does to the scheduler and the lock.                         *)

Relocking == {"relock", "repay"}
Nowhere == {"new", "load", "end"}

(* The running thread t goes on to a place. *)
Moves(t, place) ==
    /\ t \in Threads /\ MayRun(t) /\ pc[t] \in PCs \ Nowhere
    /\ place \in PCs \ Nowhere /\ Goes(t, place)

(* Without having called lock it is not where it should have called it. *)
Keeps(t, place) ==
    /\ pc[t] \notin Relocking /\ place \notin Relocking
    /\ place \in Locked => pc[t] \in Locked \/ owner = t

LocksStep(t, place) == Moves(t, place) /\ place \notin Relocking /\ Lock(t)
UnlocksStep(t, place) ==
    Moves(t, place) /\ pc[t] \in Locked /\ place \notin Locked \cup Relocking /\ Unlock(t)
WaitsStep(t, place) ==
    Moves(t, place) /\ pc[t] \in Locked /\ place \in Relocking /\ Wait(t)
SignalsStep(t, place) ==
    Moves(t, place) /\ Keeps(t, place) /\ \E u \in Threads : Signal(u)
RunsStep(t, place) ==
    Moves(t, place) /\ Keeps(t, place) /\ (LibraryCall(t) \/ UNCHANGED schedVars)
CreatesStep(u) ==
    /\ MayRun(Manager) /\ pc[Manager] = "spawn"
    /\ u \in Threads /\ pc[u] = "new" /\ Goes(u, "ready")
    /\ ready' = Append(ready, u) /\ UNCHANGED <<owner, lockq, asleep>>
FinishesStep(t) ==
    /\ t \in Threads /\ MayRun(t) /\ pc[t] = "finish" /\ Goes(t, "end")
    /\ ready' = Others /\ UNCHANGED <<owner, lockq, asleep>>
LoadsStep ==
    MayRun(Manager) /\ pc[Manager] = "load" /\ Goes(Manager, "spawn") /\ UNCHANGED schedVars

(* Every step is of one of these kinds, or changes nothing of this. *)
SchedStep ==
    \/ \E t \in Threads, place \in PCs :
         \/ LocksStep(t, place) \/ UnlocksStep(t, place) \/ WaitsStep(t, place)
         \/ SignalsStep(t, place) \/ RunsStep(t, place)
    \/ \E u \in Threads : CreatesStep(u) \/ FinishesStep(u)
    \/ LoadsStep
    \/ UNCHANGED <<pc, schedVars>>

LEMMA ManagerSched ==
    ASSUME ObjectInv, ManagerStep
    PROVE  SchedStep
<1> USE ThreadNames
<1>0. ShapeInv  BY DEF ObjectInv
<1>1. ASSUME NEW place \in PCs, RunsStep(Manager, place) \/ SignalsStep(Manager, place)
                                \/ WaitsStep(Manager, place)
      PROVE  SchedStep
  BY <1>1 DEF SchedStep
<1>2. ASSUME NEW how, Ends(how) PROVE SchedStep
  BY <1>2 DEF Ends, SchedStep
<1>3. CASE LoadInput
  <2>1. CASE \E how \in InputErrors(input) : Ends(how)  BY <1>2, <2>1
  <2>2. CASE Goes(Manager, "spawn") /\ UNCHANGED <<input, process, schedVars, objects, history>>
    BY <1>3, <2>2 DEF LoadInput, At, LoadsStep, SchedStep
  <2>3. QED  BY <1>3, <2>1, <2>2 DEF LoadInput
<1>4. CASE SpawnDriver
  <2>1. NextDriver \in Drivers /\ pc[Driver(NextDriver)] = "new"
    <3>1. NextDriver \in Nat /\ NextDriver >= 1  BY NextNumbers, PizzaAssumption
    <3>2. pc[Manager] = "spawn" /\ NextDriver <= input.drivers  BY <1>4 DEF SpawnDriver, At
    <3>3. input.drivers \in Int /\ input.drivers <= MaxDrivers  BY <3>2 DEF ObjectInv, SpawnInv
    <3>4. NextDriver \in Drivers  BY <3>1, <3>2, <3>3, PizzaAssumption DEF Drivers
    <3>5. NextDriver \notin 1 .. NextDriver - 1  BY <3>1
    <3>6. QED  BY <3>4, <3>5, NextNumbers DEF Created
  <2>2. CreatesStep(Driver(NextDriver))  BY <1>4, <2>1 DEF SpawnDriver, At, CreatesStep
  <2>3. QED  BY <2>1, <2>2 DEF SchedStep
<1>5. CASE SpawnCustomer
  <2>1. CASE Ends("exited")  BY <1>2, <2>1
  <2>2. CASE ~Ends("exited")
    <3>1. NextCustomer \in Nat /\ NextCustomer >= 1  BY NextNumbers, PizzaAssumption
    <3>2. pc[Manager] = "spawn" /\ NextCustomer <= Len(input.files)  BY <1>5 DEF SpawnCustomer, At
    <3>3. Len(input.files) \in Nat /\ Len(input.files) <= MaxCustomers
      BY <1>0, PizzaAssumption DEF ShapeInv
    <3>4. NextCustomer \in Customers  BY <3>1, <3>2, <3>3, PizzaAssumption DEF Customers
    <3>5. NextCustomer \notin 1 .. NextCustomer - 1  BY <3>1
    <3>6. pc[Customer(NextCustomer)] = "new"  BY <3>4, <3>5, NextNumbers DEF Created
    <3>7. CreatesStep(Customer(NextCustomer))
      BY <1>5, <2>2, <3>4, <3>6 DEF SpawnCustomer, At, CreatesStep
    <3>8. QED  BY <3>4, <3>7 DEF SchedStep
  <2>3. QED  BY <2>1, <2>2
<1>6. CASE SpawnDone
  <2>1. RunsStep(Manager, "lock")
    BY <1>6 DEF SpawnDone, At, RunsStep, Moves, Keeps, PCs, Nowhere, Relocking, Locked
  <2>2. QED  BY <1>1, <2>1 DEF PCs
<1>7. CASE ManagerCheck
  <2>1. PICK place \in {"match", "wait"} : Goes(Manager, place)
    BY <1>7 DEF ManagerCheck
  <2>2. RunsStep(Manager, place)
    BY <1>7, <2>1 DEF ManagerCheck, At, RunsStep, Moves, Keeps, PCs, Nowhere, Relocking, Locked
  <2>3. QED  BY <1>1, <2>2 DEF PCs
<1>8. CASE ManagerWait
  <2>1. WaitsStep(Manager, "relock")
    BY <1>8 DEF ManagerWait, At, WaitsStep, Moves, PCs, Nowhere, Relocking, Locked
  <2>2. QED  BY <1>1, <2>1 DEF PCs
<1>9. CASE ManagerMatch
  <2>1. CASE Ends("crashed")  BY <1>2, <2>1
  <2>2. CASE LibraryCall(Manager) /\ Goes(Manager, "assign")
    <3>1. RunsStep(Manager, "assign")
      BY <1>9, <2>2 DEF ManagerMatch, At, RunsStep, Moves, Keeps, PCs, Nowhere, Relocking, Locked
    <3>2. QED  BY <1>1, <3>1 DEF PCs
  <2>3. QED  BY <1>9, <2>1, <2>2 DEF ManagerMatch
<1>10. ASSUME ManagerAssign \/ ManagerNotify PROVE SchedStep
  <2>1. pair[1] \in Customers /\ pair[2] \in Drivers
    BY <1>10 DEF ObjectInv, PairInv, ManagerAssign, ManagerNotify, At
  <2>2. PICK place \in {"notify", "unlock"} : Goes(Manager, place)
    BY <1>10 DEF ManagerAssign, ManagerNotify
  <2>3. /\ pc[Manager] \in {"assign", "notify"} /\ MayRun(Manager)
        /\ \E u \in Threads : Signal(u)
    BY <1>10, <2>1 DEF ManagerAssign, ManagerNotify, At
  <2>4. SignalsStep(Manager, place)
    BY <2>2, <2>3 DEF SignalsStep, Moves, Keeps, PCs, Nowhere, Relocking, Locked
  <2>5. QED  BY <1>1, <2>4 DEF PCs
<1>11. QED
  BY <1>3, <1>4, <1>5, <1>6, <1>7, <1>8, <1>9, <1>10 DEF ManagerStep

LEMMA DriverSched ==
    ASSUME ObjectInv, NEW d \in Drivers, DriverStep(d)
    PROVE  SchedStep
<1> USE ThreadNames
<1> DEFINE t == Driver(d)
<1>0. t \in Threads /\ DriverInv(d) /\ MatchInv(d)  BY DriverFields
<1>1. ASSUME NEW place \in PCs, RunsStep(t, place) \/ SignalsStep(t, place)
                                \/ WaitsStep(t, place) \/ UnlocksStep(t, place)
      PROVE  SchedStep
  BY <1>0, <1>1 DEF SchedStep
<1>2. CASE DriverReady(d)
  <2>1. RunsStep(t, "readied")
    BY <1>0, <1>2 DEF DriverReady, At, RunsStep, Moves, Keeps, PCs, Nowhere, Relocking, Locked
  <2>2. QED  BY <1>1, <2>1 DEF PCs
<1>3. CASE DriverReadied(d)
  <2>1. PICK place \in {"unlock", "lock"} : Goes(t, place) /\ (place = "unlock" => owner = t)
    BY <1>3 DEF DriverReadied
  <2>2. SignalsStep(t, place)
    BY <1>0, <1>3, <2>1
    DEF DriverReadied, At, SignalsStep, Moves, Keeps, PCs, Nowhere, Relocking, Locked
  <2>3. QED  BY <1>1, <2>2 DEF PCs
<1>4. CASE DriverAwaitMatch(d)
  <2>1. At(t, "await_match")  BY <1>4 DEF DriverAwaitMatch
  <2>2. CASE Wait(t) /\ Goes(t, "relock")
    <3>1. WaitsStep(t, "relock")
      BY <1>0, <2>1, <2>2 DEF At, WaitsStep, Moves, PCs, Nowhere, Relocking, Locked
    <3>2. QED  BY <1>1, <3>1 DEF PCs
  <2>3. CASE Unlock(t) /\ Goes(t, "drive")
    <3>1. UnlocksStep(t, "drive")
      BY <1>0, <2>1, <2>3 DEF At, UnlocksStep, Moves, PCs, Nowhere, Relocking, Locked
    <3>2. QED  BY <1>1, <3>1 DEF PCs
  <2>4. QED  BY <1>4, <2>2, <2>3 DEF DriverAwaitMatch
<1>5. CASE DriverDrive(d)
  <2>1. RunsStep(t, "arrived")
    BY <1>0, <1>5 DEF DriverDrive, At, RunsStep, Moves, Keeps, PCs, Nowhere, Relocking, Locked
  <2>2. QED  BY <1>1, <2>1 DEF PCs
<1>6. CASE DriverHandOver(d)
  <2>1. At(t, "hand_over") /\ pc[t] = "hand_over"  BY <1>6 DEF DriverHandOver, At
  <2>2. drivers[d].recipient \in Customers
    BY <1>0, <2>1 DEF DriverInv, MatchInv, Engaged, UnderWay, HandedIn
  <2>3. SignalsStep(t, "await_payment")
    BY <1>0, <1>6, <2>1, <2>2
    DEF DriverHandOver, At, SignalsStep, Moves, Keeps, PCs, Nowhere, Relocking, Locked
  <2>4. QED  BY <1>1, <2>3 DEF PCs
<1>7. CASE DriverAwaitPayment(d)
  <2>1. At(t, "await_payment")  BY <1>7 DEF DriverAwaitPayment
  <2>2. CASE Wait(t) /\ Goes(t, "repay")
    <3>1. WaitsStep(t, "repay")
      BY <1>0, <2>1, <2>2 DEF At, WaitsStep, Moves, PCs, Nowhere, Relocking, Locked
    <3>2. QED  BY <1>1, <3>1 DEF PCs
  <2>3. CASE Goes(t, "ready") /\ UNCHANGED schedVars
    <3>1. RunsStep(t, "ready")
      BY <1>0, <2>1, <2>3 DEF At, RunsStep, Moves, Keeps, PCs, Nowhere, Relocking, Locked
    <3>2. QED  BY <1>1, <3>1 DEF PCs
  <2>4. QED  BY <1>7, <2>2, <2>3 DEF DriverAwaitPayment
<1>8. QED
  BY <1>2, <1>3, <1>4, <1>5, <1>6, <1>7 DEF DriverStep

LEMMA CustomerSched ==
    ASSUME ObjectInv, NEW c \in Customers, CustomerStep(c)
    PROVE  SchedStep
<1> USE ThreadNames
<1> DEFINE t == Customer(c)
<1>0. t \in Threads /\ CustomerInv(c) /\ TakenInv(c)  BY CustomerFields
<1>1. ASSUME NEW place \in PCs, RunsStep(t, place) \/ SignalsStep(t, place)
                                \/ WaitsStep(t, place)
      PROVE  SchedStep
  BY <1>0, <1>1 DEF SchedStep
<1>2. AfterReady(c) \in {"test", "lock"} /\ (AfterReady(c) = "test" => owner = t)
  BY DEF AfterReady
<1>3. CASE CustomerReady(c)
  <2>1. At(t, "ready")  BY <1>3 DEF CustomerReady
  <2>2. CASE Signal(Manager) /\ Goes(t, AfterReady(c))
    <3>1. PICK place \in {"test", "lock"} : place = AfterReady(c)  BY <1>2
    <3>2. SignalsStep(t, place)
      BY <1>0, <1>2, <2>1, <2>2, <3>1
      DEF At, SignalsStep, Moves, Keeps, PCs, Nowhere, Relocking, Locked
    <3>3. QED  BY <1>1, <3>2 DEF PCs
  <2>3. CASE LibraryCall(t) /\ Goes(t, "readied")
    <3>1. RunsStep(t, "readied")
      BY <1>0, <2>1, <2>3 DEF At, RunsStep, Moves, Keeps, PCs, Nowhere, Relocking, Locked
    <3>2. QED  BY <1>1, <3>1 DEF PCs
  <2>4. QED  BY <1>3, <2>2, <2>3 DEF CustomerReady
<1>4. CASE CustomerReadied(c)
  <2>1. PICK place \in {"test", "lock"} : place = AfterReady(c)  BY <1>2
  <2>2. SignalsStep(t, place)
    BY <1>0, <1>2, <1>4, <2>1
    DEF CustomerReadied, At, SignalsStep, Moves, Keeps, PCs, Nowhere, Relocking, Locked
  <2>3. QED  BY <1>1, <2>2 DEF PCs
<1>5. CASE CustomerTest(c)
  <2>1. PICK place \in {"leave", "await_pizza"} : Goes(t, place)
    BY <1>5 DEF CustomerTest
  <2>2. RunsStep(t, place)
    BY <1>0, <1>5, <2>1
    DEF CustomerTest, At, RunsStep, Moves, Keeps, PCs, Nowhere, Relocking, Locked
  <2>3. QED  BY <1>1, <2>2 DEF PCs
<1>6. CASE CustomerAwaitPizza(c)
  <2>1. At(t, "await_pizza")  BY <1>6 DEF CustomerAwaitPizza
  <2>2. CASE Wait(t) /\ Goes(t, "relock")
    <3>1. WaitsStep(t, "relock")
      BY <1>0, <2>1, <2>2 DEF At, WaitsStep, Moves, PCs, Nowhere, Relocking, Locked
    <3>2. QED  BY <1>1, <3>1 DEF PCs
  <2>3. CASE LibraryCall(t) /\ Goes(t, "paying")
    <3>1. RunsStep(t, "paying")
      BY <1>0, <2>1, <2>3 DEF At, RunsStep, Moves, Keeps, PCs, Nowhere, Relocking, Locked
    <3>2. QED  BY <1>1, <3>1 DEF PCs
  <2>4. QED  BY <1>6, <2>2, <2>3 DEF CustomerAwaitPizza
<1>7. CASE CustomerPaid(c)
  <2>1. pc[t] = "paying"  BY <1>7 DEF CustomerPaid, At
  <2>2. customers[c].assigned_driver \in Drivers
    BY <1>0, <2>1 DEF CustomerInv, TakenInv
  <2>3. SignalsStep(t, "ready")
    BY <1>0, <1>7, <2>2
    DEF CustomerPaid, At, SignalsStep, Moves, Keeps, PCs, Nowhere, Relocking, Locked
  <2>4. QED  BY <1>1, <2>3 DEF PCs
<1>8. CASE CustomerFinish(c)
  BY <1>0, <1>8 DEF CustomerFinish, At, FinishesStep, SchedStep
<1>9. QED
  BY <1>3, <1>4, <1>5, <1>6, <1>7, <1>8 DEF CustomerStep

LEMMA LockSched ==
    ASSUME ObjectInv, NEW t \in Threads, TakeLock(t) \/ GiveLock(t)
    PROVE  SchedStep
<1> USE ThreadNames
<1>1. CASE TakeLock(t)
  <2>1. PICK place \in {"check", "await_match", "hand_over", "await_payment", "test", "await_pizza"} :
          Goes(t, place) /\ pc[t] \in {"lock", "relock", "arrived", "repay"}
    <3>1. t[1] \in {"manager", "driver", "customer"}  BY ThreadCases
    <3>2. /\ Locking["manager"] = Locking.manager /\ Locking["driver"] = Locking.driver
          /\ Locking["customer"] = Locking.customer
      OBVIOUS
    <3>3. CASE t[1] = "manager"  BY <1>1, <3>2, <3>3, LockTables DEF TakeLock
    <3>4. CASE t[1] = "driver"  BY <1>1, <3>2, <3>4, LockTables DEF TakeLock
    <3>5. CASE t[1] = "customer"  BY <1>1, <3>2, <3>5, LockTables DEF TakeLock
    <3>6. QED  BY <3>1, <3>3, <3>4, <3>5
  <2>2. LocksStep(t, place)
    BY <1>1, <2>1 DEF TakeLock, At, LocksStep, Moves, PCs, Nowhere, Relocking
  <2>3. QED  BY <2>2 DEF SchedStep, PCs
<1>2. CASE GiveLock(t)
  <2>1. PICK place \in {"lock", "finish"} : Goes(t, place) /\ pc[t] \in {"unlock", "leave"}
    BY <1>2, LockTables DEF GiveLock
  <2>2. UnlocksStep(t, place)
    BY <1>2, <2>1 DEF GiveLock, At, UnlocksStep, Moves, PCs, Nowhere, Relocking, Locked
  <2>3. QED  BY <2>2 DEF SchedStep, PCs
<1>3. QED  BY <1>1, <1>2

LEMMA KindOfStep ==
    ASSUME ObjectInv, [Next]_vars
    PROVE  SchedStep
<1>1. CASE UNCHANGED vars  BY <1>1 DEF vars, SchedStep
<1>2. CASE Next
  BY <1>2, LockSched, ManagerSched, DriverSched, CustomerSched DEF Next
<1>3. QED  BY <1>1, <1>2


-----------------------------------------------------------------------------
(* SchedInv.                                                               *)

(* The threads that run and wait, once the running thread t has left *)
LEMMA Leaving ==
    ASSUME QueueInv, NEW t \in Threads, MayRun(t)
    PROVE  /\ t \in ToSet(ready) /\ t \notin ToSet(lockq) /\ t \notin asleep
           /\ Others \in Seq(Threads) /\ IsInjective(Others)
           /\ ToSet(Others) = ToSet(ready) \ {t}
<1>1. /\ ready \in Seq(Threads) /\ ready # <<>> /\ Head(ready) = t /\ IsInjective(ready)
  BY DEF QueueInv, MayRun
<1>2. /\ Tail(ready) \in Seq(Threads) /\ ToSet(ready) = {t} \cup ToSet(Tail(ready))
      /\ t \notin ToSet(Tail(ready)) /\ IsInjective(Tail(ready))
  BY <1>1, HeadTailLemma
<1>3. QED  BY <1>2 DEF QueueInv, Others

(* pizza_lock is handed over to the thread that waits longest, if one does. *)
LEMMA Passing ==
    ASSUME QueueInv, LockInv, PassLock
    PROVE  /\ HandedOver \in Seq(Threads) /\ IsInjective(HandedOver)
           /\ ToSet(HandedOver) \subseteq ToSet(lockq)
           /\ lockq' \in Seq(Threads) /\ IsInjective(lockq')
           /\ ToSet(lockq') = ToSet(lockq) \ ToSet(HandedOver)
           /\ owner' \in Threads \cup {None}
           /\ owner' = None => lockq' = <<>>
           /\ \A t \in ToSet(lockq) : owner' = t \/ t \in ToSet(lockq')
<1>0. lockq \in Seq(Threads) /\ IsInjective(lockq)  BY DEF QueueInv
<1>1. CASE lockq = <<>>
  BY <1>0, <1>1, EmptyLemma DEF HandedOver, PassLock
<1>2. CASE lockq # <<>>
  <2>1. /\ Head(lockq) \in Threads /\ Tail(lockq) \in Seq(Threads)
        /\ ToSet(lockq) = {Head(lockq)} \cup ToSet(Tail(lockq))
        /\ Head(lockq) \notin ToSet(Tail(lockq)) /\ IsInjective(Tail(lockq))
    BY <1>0, <1>2, HeadTailLemma
  <2>2. HandedOver = <<Head(lockq)>> /\ owner' = Head(lockq) /\ lockq' = Tail(lockq)
    BY <1>2 DEF HandedOver, PassLock
  <2>3. ASSUME NEW e \in Threads PROVE <<e>> \in Seq(Threads) /\ IsInjective(<<e>>) /\ ToSet(<<e>>) = {e}
    BY DEF IsInjective, ToSet
  <2>4. None \notin Threads  BY PizzaAssumption
  <2>5. QED  BY <2>1, <2>2, <2>3, <2>4
<1>3. QED  BY <1>1, <1>2

(* A place change keeps what the scheduler says of places. *)
LEMMA MovesLemma ==
    ASSUME ShapeInv, NEW t, NEW place, Moves(t, place)
    PROVE  /\ t \in Threads /\ MayRun(t) /\ pc'[t] = place
           /\ place \notin Nowhere /\ pc[t] \notin Nowhere
           /\ \A u \in Threads : u # t => pc'[u] = pc[u]
           /\ \A u \in Threads : pc'[u] \in Nowhere <=> pc[u] \in Nowhere
           /\ \A u \in Threads : pc'[u] \in Nowhere => pc'[u] = pc[u]
<1>1. t \in Threads /\ place \in PCs /\ Goes(t, place) /\ place \notin Nowhere /\ MayRun(t)
      /\ pc[t] \notin Nowhere
  BY DEF Moves
<1>2. pc'[t] = place /\ \A u \in Threads : u # t => pc'[u] = pc[u]  BY <1>1, GoesLemma
<1>3. QED  BY <1>1, <1>2

LEMMA LocksSched ==
    ASSUME ShapeInv, SchedInv, NEW t, NEW place, LocksStep(t, place)
    PROVE  SchedInv'
<1>0. QueueInv /\ LockInv /\ PlaceInv  BY DEF SchedInv
<1>1. /\ t \in Threads /\ MayRun(t) /\ pc'[t] = place
      /\ \A u \in Threads : u # t => pc'[u] = pc[u]
      /\ \A u \in Threads : pc'[u] \in Nowhere => pc'[u] = pc[u]
      /\ pc[t] \notin Nowhere /\ place \notin Nowhere
  BY MovesLemma DEF LocksStep
<1>2. /\ t \in ToSet(ready) /\ t \notin ToSet(lockq) /\ t \notin asleep
      /\ Others \in Seq(Threads) /\ IsInjective(Others) /\ ToSet(Others) = ToSet(ready) \ {t}
  BY <1>0, <1>1, Leaving
<1>3. None \notin Threads  BY PizzaAssumption
<1>4. CASE owner = None /\ owner' = t /\ UNCHANGED <<ready, lockq, asleep>>
  <2>1. QueueInv'  BY <1>0, <1>4 DEF QueueInv
  <2>2. lockq = <<>> /\ ToSet(lockq) = {}  BY <1>0, <1>4, EmptyLemma DEF LockInv
  <2>3. LockInv'  BY <1>0, <1>1, <1>3, <1>4, <2>2 DEF LockInv
  <2>4. PlaceInv'
    <3>1. ToSet(lockq) \cup asleep \subseteq Threads  BY <1>0, <2>2 DEF QueueInv
    <3>2. QED  BY <1>0, <1>1, <1>4, <3>1 DEF PlaceInv, Nowhere
  <2>5. QED  BY <2>1, <2>3, <2>4 DEF SchedInv
<1>5. CASE owner # None /\ lockq' = Append(lockq, t) /\ ready' = Others
           /\ UNCHANGED <<owner, asleep>>
  <2>1. /\ lockq' \in Seq(Threads) /\ ToSet(lockq') = ToSet(lockq) \cup {t} /\ IsInjective(lockq')
    <3>1. lockq \in Seq(Threads) /\ IsInjective(lockq)  BY <1>0 DEF QueueInv
    <3>2. QED  BY <1>1, <1>2, <1>5, <3>1, AppendLemma
  <2>2. QueueInv'  BY <1>0, <1>2, <1>5, <2>1 DEF QueueInv
  <2>3. LockInv'
    <3>1. owner' # None /\ owner' \in Threads \cup {None}  BY <1>0, <1>5 DEF LockInv
    <3>2. \A u \in Threads : pc'[u] \in Locked => owner' = u \/ u \in ToSet(lockq')
      BY <1>0, <1>1, <1>5, <2>1 DEF LockInv
    <3>3. QED  BY <3>1, <3>2 DEF LockInv
  <2>4. PlaceInv'
    <3>1. ToSet(lockq) \cup asleep \subseteq Threads  BY <1>0, ToSetType DEF QueueInv
    <3>2. QED  BY <1>0, <1>1, <1>2, <1>5, <2>1, <3>1 DEF PlaceInv, Nowhere
  <2>5. QED  BY <2>2, <2>3, <2>4 DEF SchedInv
<1>6. QED  BY <1>4, <1>5 DEF LocksStep, Lock

(* Unlock and Wait: t gives the lock up, and goes to sleep or not. *)
LEMMA PassesSched ==
    ASSUME ShapeInv, SchedInv, NEW t, NEW place, Moves(t, place),
           pc[t] \in Locked, place \notin Locked, PassLock,
           \/ ready' = ready \o HandedOver /\ asleep' = asleep
           \/ ready' = Others \o HandedOver /\ asleep' = asleep \cup {t}
    PROVE  SchedInv' /\ owner = t
<1>0. QueueInv /\ LockInv /\ PlaceInv  BY DEF SchedInv
<1>1. /\ t \in Threads /\ MayRun(t) /\ pc'[t] = place
      /\ \A u \in Threads : u # t => pc'[u] = pc[u]
      /\ \A u \in Threads : pc'[u] \in Nowhere => pc'[u] = pc[u]
      /\ pc[t] \notin Nowhere /\ place \notin Nowhere
  BY MovesLemma
<1>2. /\ t \in ToSet(ready) /\ t \notin ToSet(lockq) /\ t \notin asleep
      /\ Others \in Seq(Threads) /\ IsInjective(Others) /\ ToSet(Others) = ToSet(ready) \ {t}
  BY <1>0, <1>1, Leaving
<1>3. owner = t  BY <1>0, <1>1, <1>2 DEF LockInv
<1>4. /\ HandedOver \in Seq(Threads) /\ IsInjective(HandedOver)
      /\ ToSet(HandedOver) \subseteq ToSet(lockq)
      /\ lockq' \in Seq(Threads) /\ IsInjective(lockq')
      /\ ToSet(lockq') = ToSet(lockq) \ ToSet(HandedOver)
      /\ owner' \in Threads \cup {None} /\ (owner' = None => lockq' = <<>>)
      /\ \A u \in ToSet(lockq) : owner' = u \/ u \in ToSet(lockq')
  BY <1>0, Passing
<1>5. /\ ready \in Seq(Threads) /\ IsInjective(ready) /\ ToSet(ready) \cap ToSet(lockq) = {}
      /\ asleep \subseteq Threads /\ asleep \cap (ToSet(ready) \cup ToSet(lockq)) = {}
      /\ ToSet(lockq) \subseteq Threads
  BY <1>0, ToSetType DEF QueueInv
<1>6. /\ ready' \in Seq(Threads) /\ IsInjective(ready')
      /\ ToSet(ready') \cup asleep' = ToSet(ready) \cup ToSet(HandedOver) \cup asleep
      /\ asleep' \cap ToSet(ready') = {} /\ asleep' \subseteq asleep \cup {t}
  <2>1. CASE ready' = ready \o HandedOver /\ asleep' = asleep
    <3>1. ToSet(ready) \cap ToSet(HandedOver) = {}  BY <1>4, <1>5
    <3>2. /\ ready' \in Seq(Threads) /\ IsInjective(ready')
          /\ ToSet(ready') = ToSet(ready) \cup ToSet(HandedOver)
      BY <1>4, <1>5, <2>1, <3>1, ConcatLemma
    <3>3. QED  BY <1>4, <1>5, <2>1, <3>2
  <2>2. CASE ready' = Others \o HandedOver /\ asleep' = asleep \cup {t}
    <3>1. ToSet(Others) \cap ToSet(HandedOver) = {}  BY <1>2, <1>4, <1>5
    <3>2. /\ ready' \in Seq(Threads) /\ IsInjective(ready')
          /\ ToSet(ready') = ToSet(Others) \cup ToSet(HandedOver)
      BY <1>2, <1>4, <2>2, <3>1, ConcatLemma
    <3>3. QED  BY <1>2, <1>4, <1>5, <2>2, <3>2
  <2>3. QED  BY <2>1, <2>2
<1>7. QueueInv'
  <2>1. ToSet(ready') \cap ToSet(lockq') = {}  BY <1>2, <1>4, <1>5, <1>6
  <2>2. asleep' \cap (ToSet(ready') \cup ToSet(lockq')) = {}  BY <1>2, <1>4, <1>5, <1>6
  <2>3. asleep' \subseteq Threads  BY <1>1, <1>5, <1>6
  <2>4. QED  BY <1>4, <1>6, <2>1, <2>2, <2>3 DEF QueueInv
<1>8. LockInv'
  <2>1. \A u \in Threads : pc'[u] \in Locked => u # t /\ pc[u] \in Locked  BY <1>1
  <2>2. \A u \in Threads : pc'[u] \in Locked => u \in ToSet(lockq)
    BY <1>0, <1>3, <2>1 DEF LockInv
  <2>3. QED  BY <1>4, <2>2 DEF LockInv
<1>9. PlaceInv'
  <2>1. \A u \in Threads : pc'[u] \in {"new", "end"} =>
          u \notin ToSet(ready) \cup ToSet(lockq) \cup asleep
    BY <1>0, <1>1 DEF PlaceInv, Nowhere
  <2>2. ToSet(ready') \cup ToSet(lockq') \cup asleep' \subseteq ToSet(ready) \cup ToSet(lockq) \cup asleep
    BY <1>4, <1>6
  <2>3. \A u \in ToSet(lockq) \cup asleep \cup {t} : pc'[u] # "load"
    BY <1>0, <1>1, <1>5 DEF PlaceInv, Nowhere
  <2>4. ToSet(lockq') \cup asleep' \subseteq ToSet(lockq) \cup asleep \cup {t}  BY <1>4, <1>6
  <2>5. QED  BY <2>1, <2>2, <2>3, <2>4 DEF PlaceInv
<1>10. QED  BY <1>3, <1>7, <1>8, <1>9 DEF SchedInv

(* Signals, calls of the pizza library and steps without a call *)
LEMMA KeepsSched ==
    ASSUME ShapeInv, SchedInv, NEW t, NEW place, SignalsStep(t, place) \/ RunsStep(t, place)
    PROVE  SchedInv'
<1>0. QueueInv /\ LockInv /\ PlaceInv  BY DEF SchedInv
<1>1. /\ t \in Threads /\ MayRun(t) /\ pc'[t] = place
      /\ \A u \in Threads : u # t => pc'[u] = pc[u]
      /\ \A u \in Threads : pc'[u] \in Nowhere => pc'[u] = pc[u]
      /\ pc[t] \notin Nowhere /\ place \notin Nowhere
  BY MovesLemma DEF SignalsStep, RunsStep
<1>2. /\ t \in ToSet(ready) /\ t \notin ToSet(lockq) /\ t \notin asleep
      /\ Others \in Seq(Threads) /\ IsInjective(Others) /\ ToSet(Others) = ToSet(ready) \ {t}
  BY <1>0, <1>1, Leaving
<1>3. place \in Locked => owner = t
  BY <1>0, <1>1, <1>2 DEF LockInv, SignalsStep, RunsStep, Keeps
<1>4. UNCHANGED <<owner, lockq>>
  BY DEF SignalsStep, RunsStep, Signal, LibraryCall, schedVars
<1>5. /\ ready \in Seq(Threads) /\ IsInjective(ready) /\ ToSet(ready) \cap ToSet(lockq) = {}
      /\ asleep \subseteq Threads /\ asleep \cap (ToSet(ready) \cup ToSet(lockq)) = {}
      /\ ToSet(lockq) \subseteq Threads
  BY <1>0, ToSetType DEF QueueInv
<1>6. /\ ready' \in Seq(Threads) /\ IsInjective(ready') /\ asleep' \subseteq asleep
      /\ ToSet(ready') \cup asleep' = ToSet(ready) \cup asleep
      /\ asleep' \cap ToSet(ready') = {}
  <2>1. CASE RunsStep(t, place)
    <3>1. CASE UNCHANGED <<ready, asleep>>  BY <1>5, <3>1
    <3>2. CASE ready' = Append(Others, t) /\ UNCHANGED asleep
      <4>1. /\ ready' \in Seq(Threads) /\ IsInjective(ready') /\ ToSet(ready') = ToSet(Others) \cup {t}
        BY <1>1, <1>2, <3>2, AppendLemma
      <4>2. QED  BY <1>2, <1>5, <3>2, <4>1
    <3>3. QED  BY <2>1, <3>1, <3>2 DEF RunsStep, LibraryCall, schedVars
  <2>2. CASE SignalsStep(t, place)
    <3>1. PICK u \in Threads : Signal(u)  BY <2>2 DEF SignalsStep
    <3>2. CASE u \notin asleep
      <4>1. ready' = ready /\ asleep' = asleep  BY <3>1, <3>2 DEF Signal
      <4>2. QED  BY <1>5, <4>1
    <3>3. CASE u \in asleep
      <4>1. ready' = Append(ready, u) /\ asleep' = asleep \ {u}  BY <3>1, <3>3 DEF Signal
      <4>2. /\ ready' \in Seq(Threads) /\ IsInjective(ready') /\ ToSet(ready') = ToSet(ready) \cup {u}
        BY <1>5, <3>3, <4>1, AppendLemma
      <4>3. QED  BY <1>5, <3>3, <4>1, <4>2
    <3>4. QED  BY <3>2, <3>3
  <2>3. QED  BY <2>1, <2>2
<1>7. QueueInv'
  <2>1. ToSet(ready') \cap ToSet(lockq') = {} /\ asleep' \cap (ToSet(ready') \cup ToSet(lockq')) = {}
    BY <1>4, <1>5, <1>6
  <2>2. QED  BY <1>0, <1>4, <1>5, <1>6, <2>1 DEF QueueInv
<1>8. LockInv'  BY <1>0, <1>1, <1>3, <1>4 DEF LockInv
<1>9. PlaceInv'
  <2>1. \A u \in Threads : pc'[u] \in {"new", "end"} =>
          u \notin ToSet(ready) \cup ToSet(lockq) \cup asleep
    BY <1>0, <1>1 DEF PlaceInv, Nowhere
  <2>2. ToSet(ready') \cup ToSet(lockq') \cup asleep' \subseteq ToSet(ready) \cup ToSet(lockq) \cup asleep
    BY <1>4, <1>6
  <2>3. \A u \in ToSet(lockq) \cup asleep : pc'[u] # "load"
    BY <1>0, <1>1, <1>5 DEF PlaceInv, Nowhere
  <2>4. QED  BY <1>4, <1>6, <2>1, <2>2, <2>3 DEF PlaceInv
<1>10. QED  BY <1>7, <1>8, <1>9 DEF SchedInv

LEMMA OtherSched ==
    ASSUME ShapeInv, SchedInv,
           \/ \E u \in Threads : CreatesStep(u) \/ FinishesStep(u)
           \/ LoadsStep \/ UNCHANGED <<pc, schedVars>>
    PROVE  SchedInv'
<1> USE ThreadNames
<1>0. QueueInv /\ LockInv /\ PlaceInv  BY DEF SchedInv
<1>1. /\ ready \in Seq(Threads) /\ IsInjective(ready) /\ ToSet(ready) \cap ToSet(lockq) = {}
      /\ asleep \subseteq Threads /\ asleep \cap (ToSet(ready) \cup ToSet(lockq)) = {}
      /\ ToSet(lockq) \subseteq Threads
  BY <1>0, ToSetType DEF QueueInv
<1>2. ASSUME NEW u \in Threads, CreatesStep(u) PROVE SchedInv'
  <2>1. /\ pc'[u] = "ready" /\ \A v \in Threads : v # u => pc'[v] = pc[v]
    <3>1. "ready" \in PCs  BY DEF PCs
    <3>2. QED  BY <1>2, <3>1, GoesLemma DEF CreatesStep
  <2>2. pc[u] = "new" /\ ready' = Append(ready, u) /\ UNCHANGED <<owner, lockq, asleep>>
    BY <1>2 DEF CreatesStep
  <2>3. u \notin ToSet(ready) \cup ToSet(lockq) \cup asleep  BY <1>0, <2>2 DEF PlaceInv
  <2>4. /\ ready' \in Seq(Threads) /\ IsInjective(ready') /\ ToSet(ready') = ToSet(ready) \cup {u}
    BY <1>1, <2>2, <2>3, AppendLemma
  <2>5. QueueInv'  BY <1>0, <1>1, <2>2, <2>3, <2>4 DEF QueueInv
  <2>6. LockInv'  BY <1>0, <2>1, <2>2 DEF LockInv, Locked
  <2>7. PlaceInv'  BY <1>0, <1>1, <2>1, <2>2, <2>4 DEF PlaceInv
  <2>8. QED  BY <2>5, <2>6, <2>7 DEF SchedInv
<1>3. ASSUME NEW u \in Threads, FinishesStep(u) PROVE SchedInv'
  <2>1. /\ pc'[u] = "end" /\ \A v \in Threads : v # u => pc'[v] = pc[v]
    <3>1. "end" \in PCs  BY DEF PCs
    <3>2. QED  BY <1>3, <3>1, GoesLemma DEF FinishesStep
  <2>2. ready' = Others /\ UNCHANGED <<owner, lockq, asleep>>  BY <1>3 DEF FinishesStep
  <2>3. /\ u \in ToSet(ready) /\ u \notin ToSet(lockq) /\ u \notin asleep
        /\ Others \in Seq(Threads) /\ IsInjective(Others) /\ ToSet(Others) = ToSet(ready) \ {u}
    BY <1>0, <1>3, Leaving DEF FinishesStep
  <2>4. QueueInv'  BY <1>0, <1>1, <2>2, <2>3 DEF QueueInv
  <2>5. LockInv'  BY <1>0, <2>1, <2>2 DEF LockInv, Locked
  <2>6. PlaceInv'  BY <1>0, <1>1, <2>1, <2>2, <2>3 DEF PlaceInv
  <2>7. QED  BY <2>4, <2>5, <2>6 DEF SchedInv
<1>4. CASE LoadsStep
  <2>1. pc'[Manager] = "spawn" /\ \A v \in Threads : v # Manager => pc'[v] = pc[v]
    <3>1. "spawn" \in PCs  BY DEF PCs
    <3>2. QED  BY <1>4, <3>1, GoesLemma DEF LoadsStep
  <2>2. UNCHANGED <<ready, owner, lockq, asleep>>  BY <1>4 DEF LoadsStep, schedVars
  <2>3. QueueInv'  BY <1>0, <2>2 DEF QueueInv
  <2>4. LockInv'  BY <1>0, <2>1, <2>2 DEF LockInv, Locked
  <2>5. PlaceInv'  BY <1>0, <1>1, <2>1, <2>2 DEF PlaceInv
  <2>6. QED  BY <2>3, <2>4, <2>5 DEF SchedInv
<1>5. CASE UNCHANGED <<pc, schedVars>>
  BY <1>0, <1>5 DEF schedVars, SchedInv, QueueInv, LockInv, PlaceInv
<1>6. QED  BY <1>2, <1>3, <1>4, <1>5

LEMMA SchedNext ==
    ASSUME ShapeInv, SchedInv, SchedStep
    PROVE  SchedInv'
<1>1. ASSUME NEW t \in Threads, NEW place \in PCs,
             UnlocksStep(t, place) \/ WaitsStep(t, place)
      PROVE  SchedInv'
  <2>1. /\ Moves(t, place) /\ pc[t] \in Locked /\ place \notin Locked /\ PassLock
        /\ \/ ready' = ready \o HandedOver /\ asleep' = asleep
           \/ ready' = Others \o HandedOver /\ asleep' = asleep \cup {t}
    BY <1>1 DEF UnlocksStep, WaitsStep, Unlock, Wait, Locked, Relocking
  <2>2. QED  BY <2>1, PassesSched
<1>2. QED
  BY <1>1, LocksSched, KeepsSched, OtherSched DEF SchedStep


LEMMA SchedInit == Init => SchedInv
<1> SUFFICES ASSUME Init PROVE SchedInv  OBVIOUS
<1> USE ThreadNames
<1>1. /\ ready = <<Manager>> /\ lockq = <<>> /\ asleep = {} /\ owner = None
      /\ \A t \in Threads : pc[t] = IF t = Manager THEN "load" ELSE "new"
  BY DEF Init
<1>2. <<Manager>> \in Seq(Threads) /\ IsInjective(<<Manager>>) /\ ToSet(<<Manager>>) = {Manager}
  BY DEF IsInjective, ToSet
<1>3. lockq \in Seq(Threads) /\ ToSet(lockq) = {} /\ IsInjective(lockq)  BY <1>1, EmptyLemma
<1>4. QueueInv  BY <1>1, <1>2, <1>3 DEF QueueInv
<1>5. LockInv
  <2>1. \A t \in Threads : pc[t] \notin Locked  BY <1>1 DEF Locked
  <2>2. QED  BY <1>1, <2>1 DEF LockInv
<1>6. PlaceInv  BY <1>1, <1>2, <1>3 DEF PlaceInv
<1>7. QED  BY <1>4, <1>5, <1>6 DEF SchedInv

PizzaInv == ObjectInv /\ SchedInv

LEMMA PizzaStep == PizzaInv /\ [Next]_vars => PizzaInv'
<1> SUFFICES ASSUME PizzaInv, [Next]_vars PROVE PizzaInv'  OBVIOUS
<1>1. ObjectInv /\ SchedInv /\ ShapeInv  BY DEF PizzaInv, ObjectInv
<1>2. ObjectInv'  BY <1>1, ObjectNext
<1>3. SchedStep  BY <1>1, KindOfStep
<1>4. SchedInv'  BY <1>1, <1>3, SchedNext
<1>5. QED  BY <1>2, <1>4 DEF PizzaInv

LEMMA PizzaCorrect == Spec => []PizzaInv
<1>1. Init => PizzaInv  BY ObjectInit, SchedInit DEF PizzaInv
<1>2. QED  BY <1>1, PizzaStep, PTL DEF Spec

LEMMA PizzaTypes ==
    ASSUME PizzaInv
    PROVE  TypeOK
<1>1. ShapeInv /\ QueueInv /\ LockInv /\ \A c \in Customers : CountInv(c)
  BY DEF PizzaInv, ObjectInv, SchedInv
<1>2. ToSet(ready) \cup ToSet(lockq) \cup asleep \subseteq Threads
  BY <1>1, ToSetType DEF QueueInv
<1>3. ASSUME NEW c \in Customers
      PROVE  /\ requested[c] \in 0 .. MaxRequests /\ delivered[c] \in 0 .. MaxRequests
             /\ payments[c] \in 0 .. MaxRequests
  <2>1. requested[c] \in Nat /\ delivered[c] \in Nat /\ payments[c] \in Nat  BY <1>1 DEF ShapeInv
  <2>2. MaxRequests \in Nat  BY PizzaAssumption
  <2>3. customers[c].requests \in RequestLists  BY <1>1 DEF ShapeInv, CustomerRecord
  <2>4. PICK n \in Nat : n = Len(customers[c].requests)  BY <2>3, RequestSeq
  <2>5. requested[c] + n <= MaxRequests  BY <1>1, <2>4 DEF CountInv
  <2>6. payments[c] <= requested[c] /\ delivered[c] <= requested[c]
    BY <1>1, <2>1 DEF CountInv
  <2>7. QED  BY <2>1, <2>2, <2>5, <2>6
<1>4. \A h \in {requested, delivered, payments} : h \in [Customers -> 0 .. MaxRequests]
  BY <1>1, <1>3 DEF ShapeInv
<1>5. owner \in Threads \cup {None}  BY <1>1 DEF LockInv
<1>6. QED  BY <1>1, <1>2, <1>4, <1>5 DEF TypeOK, ShapeInv, DriverRecord, CustomerRecord

(* TypeOK for any command lines: the counts stay within the requests of a  *)
(* file, however the threads are scheduled, and assigned_driver and        *)
(* assigned_customer always name somebody when they are used.              *)
THEOREM PizzaTypeCorrect == Spec => []TypeOK
<1>1. PizzaInv => TypeOK  BY PizzaTypes
<1>2. QED  BY <1>1, PizzaCorrect, PTL


-----------------------------------------------------------------------------
(* The program as a client of Monitor.                                     *)

CvNames == {CvOf(t) : t \in Threads}
MonObjects == {pizza_lock} \cup CvNames \cup Threads

(* The queues of Monitor, for a queue of the lock and a set of sleepers *)
QueuesOf(locked, sleepers) ==
    [o \in MonObjects |->
       IF o = pizza_lock THEN locked
       ELSE IF o \in {CvOf(t) : t \in sleepers} THEN <<o[2]>> ELSE <<>>]

(* What Monitor sees of the program *)
AbsLife == [t \in Threads |-> IF pc[t] \in {"new", "load"} THEN "new"
                              ELSE IF pc[t] = "end" THEN "finished" ELSE "live"]
AbsRunnable == {t \in ToSet(ready) : pc[t] # "load"}
AbsOwner == [m \in {pizza_lock} |-> owner]
AbsQueue == QueuesOf(lockq, asleep)
AbsRelock == [t \in Threads |-> IF pc[t] \in {"relock", "repay"} THEN pizza_lock ELSE None]

LEMMA MonStutter ==
    ASSUME UNCHANGED <<AbsLife, AbsRunnable, AbsOwner, AbsQueue, AbsRelock>>
    PROVE  UNCHANGED Mon!vars
BY DEF Mon!vars, AbsLife, AbsRunnable, AbsOwner, AbsQueue, AbsRelock, QueuesOf, MonObjects, CvNames

(* The lock, the condition variables and the threads are different. *)
LEMMA ObjectNames ==
    /\ pizza_lock \notin Threads /\ \A t : CvOf(t) # pizza_lock /\ CvOf(t) \notin Threads
    /\ \A t, u : t # u => CvOf(t) # CvOf(u)
    /\ \A t : CvOf(t)[2] = t
    /\ pizza_lock # None /\ None \notin Threads
<1>1. \A t \in Threads : t[1] \in {"manager", "driver", "customer"}
  BY DEF Threads, Manager, Driver, Customer
<1>2. pizza_lock[1] = "pizza_lock" /\ \A t : CvOf(t)[1] = "cv"  BY DEF pizza_lock, CvOf
<1>3. \A t : CvOf(t)[2] = t  BY DEF CvOf
<1>4. pizza_lock # None /\ None \notin Threads  BY PizzaAssumption
<1>5. QED  BY <1>1, <1>2, <1>3, <1>4

LEMMA QueueValues ==
    ASSUME NEW locked, NEW sleepers \in SUBSET Threads
    PROVE  /\ QueuesOf(locked, sleepers)[pizza_lock] = locked
           /\ \A u \in Threads : QueuesOf(locked, sleepers)[CvOf(u)] =
                                   IF u \in sleepers THEN <<u>> ELSE <<>>
           /\ \A u \in Threads : QueuesOf(locked, sleepers)[u] = <<>>
<1> USE ObjectNames
<1>1. \A o \in MonObjects : QueuesOf(locked, sleepers)[o] =
        IF o = pizza_lock THEN locked
        ELSE IF o \in {CvOf(t) : t \in sleepers} THEN <<o[2]>> ELSE <<>>
  BY DEF QueuesOf
<1>2. /\ pizza_lock \in MonObjects
      /\ \A u \in Threads : u \in MonObjects /\ CvOf(u) \in MonObjects
  BY DEF MonObjects, CvNames
<1>3. \A u \in Threads : CvOf(u) \in {CvOf(t) : t \in sleepers} <=> u \in sleepers
  OBVIOUS
<1>4. \A u \in Threads : u \notin {CvOf(t) : t \in sleepers}  OBVIOUS
<1>5. QED  BY <1>1, <1>2, <1>3, <1>4

(* Queues are equal when their members are. *)
LEMMA QueueEqual ==
    ASSUME NEW locked, NEW sleepers \in SUBSET Threads, NEW f,
           f = [o \in MonObjects |-> f[o]], f[pizza_lock] = locked,
           \A u \in Threads : f[CvOf(u)] = IF u \in sleepers THEN <<u>> ELSE <<>>,
           \A u \in Threads : f[u] = <<>>
    PROVE  QueuesOf(locked, sleepers) = f
<1> DEFINE g == QueuesOf(locked, sleepers)
<1>1. g = [o \in MonObjects |-> g[o]]  BY DEF QueuesOf
<1>2. ASSUME NEW o \in MonObjects PROVE g[o] = f[o]
  <2>1. CASE o = pizza_lock  BY <2>1, QueueValues
  <2>2. CASE o \in Threads  BY <2>2, QueueValues
  <2>3. CASE o \in CvNames
    <3>1. PICK u \in Threads : o = CvOf(u)  BY <2>3 DEF CvNames
    <3>2. g[CvOf(u)] = IF u \in sleepers THEN <<u>> ELSE <<>>  BY QueueValues
    <3> HIDE DEF g
    <3>3. QED  BY <3>1, <3>2
  <2>4. QED  BY <2>1, <2>2, <2>3 DEF MonObjects
<1> HIDE DEF g
<1>3. QED  BY <1>1, <1>2 DEF g

(* What the calls do to the queues *)
QueuesChange(locked, sleepers, t, next) ==
    /\ QueuesOf(next, sleepers) = [QueuesOf(locked, sleepers) EXCEPT ![pizza_lock] = next]
    /\ QueuesOf(locked, sleepers \ {t}) = [QueuesOf(locked, sleepers) EXCEPT ![CvOf(t)] = <<>>]
    /\ QueuesOf(next, sleepers \cup {t}) =
         [QueuesOf(locked, sleepers) EXCEPT ![pizza_lock] = next, ![CvOf(t)] = <<t>>]
    /\ QueuesOf(locked, sleepers) = [QueuesOf(locked, sleepers) EXCEPT ![t] = <<>>]

LEMMA QueueChanges ==
    ASSUME NEW locked, NEW sleepers \in SUBSET Threads, NEW t \in Threads, NEW next
    PROVE  QueuesChange(locked, sleepers, t, next)
<1> USE ObjectNames
<1> DEFINE q == QueuesOf(locked, sleepers)
<1>1. q = [o \in MonObjects |-> q[o]]  BY DEF QueuesOf
<1>2. /\ q[pizza_lock] = locked
      /\ \A u \in Threads : q[CvOf(u)] = IF u \in sleepers THEN <<u>> ELSE <<>>
      /\ \A u \in Threads : q[u] = <<>>
  BY QueueValues
<1>3. /\ pizza_lock \in MonObjects
      /\ \A u \in Threads : u \in MonObjects /\ CvOf(u) \in MonObjects
  BY DEF MonObjects, CvNames
<1> HIDE DEF q
<1>4. QueuesOf(next, sleepers) = [q EXCEPT ![pizza_lock] = next]
  <2> DEFINE f == [q EXCEPT ![pizza_lock] = next]
  <2>1. f = [o \in MonObjects |-> f[o]] /\ f[pizza_lock] = next  BY <1>1, <1>3
  <2>2. \A u \in Threads : f[CvOf(u)] = IF u \in sleepers THEN <<u>> ELSE <<>>  BY <1>1, <1>2, <1>3
  <2>3. \A u \in Threads : f[u] = <<>>  BY <1>1, <1>2, <1>3
  <2> HIDE DEF f
  <2>4. QueuesOf(next, sleepers) = f  BY <2>1, <2>2, <2>3, QueueEqual
  <2>5. QED  BY <2>4 DEF f
<1>5. QueuesOf(locked, sleepers \ {t}) = [q EXCEPT ![CvOf(t)] = <<>>]
  <2> DEFINE f == [q EXCEPT ![CvOf(t)] = <<>>]
  <2>1. f = [o \in MonObjects |-> f[o]] /\ f[pizza_lock] = locked  BY <1>1, <1>2, <1>3
  <2>2. PICK fewer \in SUBSET Threads : fewer = sleepers \ {t}  OBVIOUS
  <2>3. \A u \in Threads : f[CvOf(u)] = IF u \in fewer THEN <<u>> ELSE <<>>
    BY <1>1, <1>2, <1>3, <2>2
  <2>4. \A u \in Threads : f[u] = <<>>  BY <1>1, <1>2, <1>3
  <2> HIDE DEF f
  <2>5. QueuesOf(locked, fewer) = f  BY <2>1, <2>3, <2>4, QueueEqual
  <2>6. QED  BY <2>2, <2>5 DEF f
<1>6. QueuesOf(next, sleepers \cup {t}) = [q EXCEPT ![pizza_lock] = next, ![CvOf(t)] = <<t>>]
  <2> DEFINE f == [q EXCEPT ![pizza_lock] = next, ![CvOf(t)] = <<t>>]
  <2>1. f = [o \in MonObjects |-> f[o]] /\ f[pizza_lock] = next  BY <1>1, <1>2, <1>3
  <2>2. PICK more \in SUBSET Threads : more = sleepers \cup {t}  OBVIOUS
  <2>3. \A u \in Threads : f[CvOf(u)] = IF u \in more THEN <<u>> ELSE <<>>
    BY <1>1, <1>2, <1>3, <2>2
  <2>4. \A u \in Threads : f[u] = <<>>  BY <1>1, <1>2, <1>3
  <2> HIDE DEF f
  <2>5. QueuesOf(next, more) = f  BY <2>1, <2>3, <2>4, QueueEqual
  <2>6. QED  BY <2>2, <2>5 DEF f
<1>7. q = [q EXCEPT ![t] = <<>>]  BY <1>1, <1>2, <1>3
<1>8. QED  BY <1>4, <1>5, <1>6, <1>7 DEF q, QueuesChange


(* What Monitor sees of a step of the running thread to another place *)
LEMMA MovesMaps ==
    ASSUME ShapeInv, QueueInv, NEW t, NEW place, Moves(t, place)
    PROVE  /\ t \in Threads /\ AbsLife' = AbsLife /\ t \in AbsRunnable
           /\ AbsRelock[t] = IF pc[t] \in Relocking THEN pizza_lock ELSE None
           /\ AbsRelock' = [AbsRelock EXCEPT ![t] = IF place \in Relocking THEN pizza_lock ELSE None]
           /\ \A u \in Threads : pc'[u] # "load" <=> pc[u] # "load"
<1>1. /\ t \in Threads /\ MayRun(t) /\ pc'[t] = place
      /\ place \notin Nowhere /\ pc[t] \notin Nowhere
      /\ \A u \in Threads : u # t => pc'[u] = pc[u]
      /\ \A u \in Threads : pc'[u] \in Nowhere <=> pc[u] \in Nowhere
      /\ \A u \in Threads : pc'[u] \in Nowhere => pc'[u] = pc[u]
  BY MovesLemma
<1>2. t \in ToSet(ready)  BY <1>1, Leaving
<1>3. t \in AbsRunnable  BY <1>1, <1>2 DEF AbsRunnable, Nowhere
<1>4. AbsLife' = AbsLife  BY <1>1 DEF AbsLife, Nowhere
<1>5. AbsRelock[t] = IF pc[t] \in Relocking THEN pizza_lock ELSE None
  BY <1>1 DEF AbsRelock, Relocking
<1>6. AbsRelock' = [AbsRelock EXCEPT ![t] = IF place \in Relocking THEN pizza_lock ELSE None]
  BY <1>1 DEF AbsRelock, Relocking
<1>7. \A u \in Threads : pc'[u] # "load" <=> pc[u] # "load"  BY <1>1 DEF Nowhere
<1>8. QED  BY <1>1, <1>3, <1>4, <1>5, <1>6, <1>7

LEMMA OwnerMaps ==
    /\ AbsOwner[pizza_lock] = owner
    /\ AbsOwner' = [AbsOwner EXCEPT ![pizza_lock] = owner']
BY DEF AbsOwner

LEMMA LocksMaps ==
    ASSUME ShapeInv, SchedInv, NEW t, NEW place, LocksStep(t, place)
    PROVE  Mon!Lock(t, pizza_lock)
<1>0. QueueInv /\ asleep \in SUBSET Threads /\ ready \in Seq(Threads)  BY DEF SchedInv, QueueInv
<1>1. Moves(t, place) /\ place \notin Relocking /\ Lock(t)  BY DEF LocksStep
<1>2. /\ t \in Threads /\ AbsLife' = AbsLife /\ t \in AbsRunnable
      /\ AbsRelock[t] \in {None, pizza_lock} /\ AbsRelock' = [AbsRelock EXCEPT ![t] = None]
      /\ \A u \in Threads : pc'[u] # "load" <=> pc[u] # "load"
  BY <1>0, <1>1, MovesMaps
<1>3. \/ /\ AbsOwner[pizza_lock] = None
         /\ AbsOwner' = [AbsOwner EXCEPT ![pizza_lock] = t]
         /\ AbsQueue' = AbsQueue /\ AbsRunnable' = AbsRunnable
      \/ /\ AbsOwner[pizza_lock] # None
         /\ AbsQueue' = [AbsQueue EXCEPT ![pizza_lock] = Append(AbsQueue[pizza_lock], t)]
         /\ AbsRunnable' = AbsRunnable \ {t} /\ AbsOwner' = AbsOwner
  <2>1. CASE owner = None /\ owner' = t /\ UNCHANGED <<ready, lockq, asleep>>
    <3>1. AbsQueue' = AbsQueue  BY <2>1 DEF AbsQueue, QueuesOf
    <3>2. AbsRunnable' = AbsRunnable  BY <1>0, <1>2, <2>1, ToSetType DEF AbsRunnable
    <3>3. QED  BY <2>1, <3>1, <3>2, OwnerMaps
  <2>2. CASE owner # None /\ lockq' = Append(lockq, t) /\ ready' = Others
             /\ UNCHANGED <<owner, asleep>>
    <3>1. AbsQueue' = QueuesOf(Append(lockq, t), asleep)  BY <2>2 DEF AbsQueue, QueuesOf
    <3>2. AbsQueue' = [AbsQueue EXCEPT ![pizza_lock] = Append(AbsQueue[pizza_lock], t)]
      <4>1. AbsQueue[pizza_lock] = lockq  BY <1>0, QueueValues DEF AbsQueue
      <4>2. PICK next : next = Append(lockq, t)  OBVIOUS
      <4>3. QueuesOf(next, asleep) = [QueuesOf(lockq, asleep) EXCEPT ![pizza_lock] = next]
        <5>1. QueuesChange(lockq, asleep, t, next)  BY <1>0, <1>2, QueueChanges
        <5>2. QED  BY <5>1 DEF QueuesChange
      <4>4. AbsQueue = QueuesOf(lockq, asleep)  BY DEF AbsQueue
      <4>5. QED  BY <3>1, <4>1, <4>2, <4>3, <4>4
    <3>3. ToSet(Others) = ToSet(ready) \ {t}  BY <1>0, <1>1, <1>2, Leaving DEF Moves
    <3>4. AbsRunnable' = AbsRunnable \ {t}
      BY <1>0, <1>2, <2>2, <3>3, ToSetType DEF AbsRunnable
    <3>5. AbsOwner' = AbsOwner  BY <2>2 DEF AbsOwner
    <3>6. QED  BY <2>2, <3>2, <3>4, <3>5, OwnerMaps
  <2>3. QED  BY <1>1, <2>1, <2>2 DEF Lock
<1>4. QED
  BY <1>2, <1>3 DEF Mon!Lock, AbsLife, AbsRunnable, AbsOwner, AbsQueue, AbsRelock, QueuesOf,
                    MonObjects, CvNames

(* Unlock and Wait hand the lock over. *)
LEMMA PassesMaps ==
    ASSUME SchedInv, PassLock
    PROVE  /\ Mon!HandOver(pizza_lock)
           /\ lockq' = Mon!Rest(pizza_lock) /\ HandedOver = Mon!First(pizza_lock)
<1>0. asleep \in SUBSET Threads  BY DEF SchedInv, QueueInv
<1>1. AbsQueue[pizza_lock] = lockq  BY <1>0, QueueValues DEF AbsQueue
<1>2. AbsOwner' = [AbsOwner EXCEPT ![pizza_lock] =
                     IF AbsQueue[pizza_lock] = <<>> THEN None ELSE Head(AbsQueue[pizza_lock])]
  BY <1>1, OwnerMaps DEF PassLock
<1>3. /\ lockq' = IF AbsQueue[pizza_lock] = <<>> THEN <<>> ELSE Tail(AbsQueue[pizza_lock])
      /\ HandedOver = IF AbsQueue[pizza_lock] = <<>> THEN <<>> ELSE <<Head(AbsQueue[pizza_lock])>>
  BY <1>1 DEF PassLock, HandedOver
<1>4. QED
  BY <1>2, <1>3 DEF Mon!HandOver, Mon!Rest, Mon!First, AbsOwner, AbsQueue, QueuesOf,
                    MonObjects, CvNames

LEMMA AllIsToSet == \A s : Mon!All(s) = ToSet(s)
BY DEF Mon!All, ToSet


(* The thread that gets the lock becomes runnable. *)
LEMMA WokenMaps ==
    ASSUME SchedInv, PassLock, NEW t \in Threads, MayRun(t),
           \A u \in Threads : pc'[u] # "load" <=> pc[u] # "load"
    PROVE  /\ ready' = ready \o HandedOver =>
                AbsRunnable' = AbsRunnable \cup ToSet(HandedOver)
           /\ ready' = Others \o HandedOver =>
                AbsRunnable' = (AbsRunnable \ {t}) \cup ToSet(HandedOver)
<1>0. QueueInv /\ LockInv /\ PlaceInv /\ ready \in Seq(Threads) /\ lockq \in Seq(Threads)
  BY DEF SchedInv, QueueInv
<1>1. /\ HandedOver \in Seq(Threads) /\ ToSet(HandedOver) \subseteq ToSet(lockq)
  BY <1>0, Passing
<1>2. ToSet(ready) \subseteq Threads /\ ToSet(lockq) \subseteq Threads  BY <1>0, ToSetType
<1>3. \A u \in ToSet(HandedOver) : pc[u] # "load" /\ u \in Threads  BY <1>0, <1>1, <1>2 DEF PlaceInv
<1>4. Others \in Seq(Threads) /\ ToSet(Others) = ToSet(ready) \ {t}  BY <1>0, Leaving
<1>5. /\ ToSet(ready \o HandedOver) = ToSet(ready) \cup ToSet(HandedOver)
      /\ ToSet(Others \o HandedOver) = ToSet(Others) \cup ToSet(HandedOver)
  BY <1>0, <1>1, <1>4, ConcatLemma
<1>6. \A u : u \in AbsRunnable <=> u \in ToSet(ready) /\ pc[u] # "load"  BY DEF AbsRunnable
<1>7. \A u : u \in AbsRunnable' <=> u \in ToSet(ready') /\ pc'[u] # "load"  BY DEF AbsRunnable
<1>8. ASSUME ready' = ready \o HandedOver
      PROVE  AbsRunnable' = AbsRunnable \cup ToSet(HandedOver)
  BY <1>2, <1>3, <1>5, <1>6, <1>7, <1>8
<1>9. ASSUME ready' = Others \o HandedOver
      PROVE  AbsRunnable' = (AbsRunnable \ {t}) \cup ToSet(HandedOver)
  BY <1>2, <1>3, <1>4, <1>5, <1>6, <1>7, <1>9
<1>10. QED  BY <1>8, <1>9


LEMMA UnlocksMaps ==
    ASSUME ShapeInv, SchedInv, NEW t, NEW place, UnlocksStep(t, place)
    PROVE  Mon!Unlock(t, pizza_lock)
<1>0. /\ QueueInv /\ LockInv /\ asleep \in SUBSET Threads /\ ready \in Seq(Threads)
      /\ lockq \in Seq(Threads)
  BY DEF SchedInv, QueueInv
<1>1. /\ Moves(t, place) /\ pc[t] \in Locked /\ place \notin Locked /\ place \notin Relocking
      /\ Unlock(t) /\ PassLock
  BY DEF UnlocksStep, Unlock
<1>2. pc[t] \notin Relocking  BY <1>1 DEF Locked, Relocking
<1>3. /\ t \in Threads /\ AbsLife' = AbsLife /\ t \in AbsRunnable
      /\ AbsRelock[t] = None /\ AbsRelock' = [AbsRelock EXCEPT ![t] = None]
      /\ \A u \in Threads : pc'[u] # "load" <=> pc[u] # "load"
  BY <1>0, <1>1, <1>2, MovesMaps
<1>4. AbsRelock' = AbsRelock  BY <1>3 DEF AbsRelock
<1>5. ready' = ready \o HandedOver /\ asleep' = asleep  BY <1>1 DEF Unlock
<1>6. AbsOwner[pizza_lock] = t  BY <1>1, <1>5, PassesSched, OwnerMaps
<1>7. /\ Mon!HandOver(pizza_lock)
      /\ lockq' = Mon!Rest(pizza_lock) /\ HandedOver = Mon!First(pizza_lock)
  BY <1>1, PassesMaps
<1>8. AbsQueue' = [AbsQueue EXCEPT ![pizza_lock] = Mon!Rest(pizza_lock)]
  <2>1. AbsQueue' = QueuesOf(lockq', asleep)  BY <1>5 DEF AbsQueue, QueuesOf
  <2>2. AbsQueue = QueuesOf(lockq, asleep)  BY DEF AbsQueue
  <2>3. PICK next : next = lockq'  OBVIOUS
  <2>4. QueuesOf(next, asleep) = [QueuesOf(lockq, asleep) EXCEPT ![pizza_lock] = next]
    <3>1. QueuesChange(lockq, asleep, t, next)  BY <1>0, <1>3, QueueChanges
    <3>2. QED  BY <3>1 DEF QueuesChange
  <2>5. QED  BY <1>7, <2>1, <2>2, <2>3, <2>4
<1>9. AbsRunnable' = AbsRunnable \cup Mon!All(Mon!First(pizza_lock))
  BY <1>1, <1>3, <1>5, <1>7, WokenMaps, AllIsToSet DEF Moves
<1>10. QED
  BY <1>3, <1>4, <1>6, <1>7, <1>8, <1>9
  DEF Mon!Unlock, Mon!Calls, AbsLife, AbsRunnable, AbsOwner, AbsQueue, AbsRelock, QueuesOf,
      MonObjects, CvNames

LEMMA WaitsMaps ==
    ASSUME ShapeInv, SchedInv, NEW t, NEW place, WaitsStep(t, place)
    PROVE  Mon!Wait(t, CvOf(t), pizza_lock)
<1>0. /\ QueueInv /\ LockInv /\ asleep \in SUBSET Threads /\ ready \in Seq(Threads)
      /\ lockq \in Seq(Threads)
  BY DEF SchedInv, QueueInv
<1>1. /\ Moves(t, place) /\ pc[t] \in Locked /\ place \notin Locked /\ place \in Relocking
      /\ Wait(t) /\ PassLock
  BY DEF WaitsStep, Wait, Relocking, Locked
<1>2. pc[t] \notin Relocking  BY <1>1 DEF Locked, Relocking
<1>3. /\ t \in Threads /\ AbsLife' = AbsLife /\ t \in AbsRunnable
      /\ AbsRelock[t] = None /\ AbsRelock' = [AbsRelock EXCEPT ![t] = pizza_lock]
      /\ \A u \in Threads : pc'[u] # "load" <=> pc[u] # "load"
  BY <1>0, <1>1, <1>2, MovesMaps
<1>4. ready' = Others \o HandedOver /\ asleep' = asleep \cup {t}  BY <1>1 DEF Wait
<1>5. AbsOwner[pizza_lock] = t  BY <1>1, <1>4, PassesSched, OwnerMaps
<1>6. /\ Mon!HandOver(pizza_lock)
      /\ lockq' = Mon!Rest(pizza_lock) /\ HandedOver = Mon!First(pizza_lock)
  BY <1>1, PassesMaps
<1>7. AbsQueue' = [AbsQueue EXCEPT ![pizza_lock] = Mon!Rest(pizza_lock),
                                   ![CvOf(t)] = Append(AbsQueue[CvOf(t)], t)]
  <2>1. AbsQueue' = QueuesOf(lockq', asleep \cup {t})  BY <1>4 DEF AbsQueue, QueuesOf
  <2>2. AbsQueue = QueuesOf(lockq, asleep)  BY DEF AbsQueue
  <2>3. PICK next : next = lockq'  OBVIOUS
  <2>4. QueuesOf(next, asleep \cup {t}) =
          [QueuesOf(lockq, asleep) EXCEPT ![pizza_lock] = next, ![CvOf(t)] = <<t>>]
    <3>1. QueuesChange(lockq, asleep, t, next)  BY <1>0, <1>3, QueueChanges
    <3>2. QED  BY <3>1 DEF QueuesChange
  <2>5. AbsQueue[CvOf(t)] = <<>>
    <3>1. t \notin asleep  BY <1>0, <1>1, <1>3, Leaving DEF Moves
    <3>2. QueuesOf(lockq, asleep)[CvOf(t)] = IF t \in asleep THEN <<t>> ELSE <<>>
      BY <1>0, <1>3, QueueValues
    <3>3. QED  BY <2>2, <3>1, <3>2
  <2>6. Append(AbsQueue[CvOf(t)], t) = <<t>>  BY <2>5
  <2>7. QED  BY <1>6, <2>1, <2>2, <2>3, <2>4, <2>6
<1>8. AbsRunnable' = (AbsRunnable \ {t}) \cup Mon!All(Mon!First(pizza_lock))
  BY <1>1, <1>3, <1>4, <1>6, WokenMaps, AllIsToSet DEF Moves
<1>9. QED
  BY <1>3, <1>5, <1>6, <1>7, <1>8
  DEF Mon!Wait, Mon!Calls, AbsLife, AbsRunnable, AbsOwner, AbsQueue, AbsRelock, QueuesOf,
      MonObjects, CvNames


LEMMA SignalsMaps ==
    ASSUME ShapeInv, SchedInv, NEW t, NEW place, NEW u \in Threads,
           Moves(t, place), Keeps(t, place), Signal(u)
    PROVE  Mon!Signal(t, CvOf(u))
<1>0. QueueInv /\ PlaceInv /\ asleep \in SUBSET Threads /\ ready \in Seq(Threads)
  BY DEF SchedInv, QueueInv
<1>1. pc[t] \notin Relocking /\ place \notin Relocking  BY DEF Keeps
<1>2. /\ t \in Threads /\ AbsLife' = AbsLife /\ t \in AbsRunnable
      /\ AbsRelock[t] = None /\ AbsRelock' = [AbsRelock EXCEPT ![t] = None]
      /\ \A v \in Threads : pc'[v] # "load" <=> pc[v] # "load"
  BY <1>0, <1>1, MovesMaps
<1>3. AbsRelock' = AbsRelock  BY <1>2 DEF AbsRelock
<1>4. AbsOwner' = AbsOwner  BY DEF AbsOwner, Signal
<1>5. AbsQueue = QueuesOf(lockq, asleep)  BY DEF AbsQueue
<1>6. AbsQueue[CvOf(u)] = IF u \in asleep THEN <<u>> ELSE <<>>
  <2>1. QueuesOf(lockq, asleep)[CvOf(u)] = IF u \in asleep THEN <<u>> ELSE <<>>
    BY <1>0, QueueValues
  <2>2. QED  BY <1>5, <2>1
<1>7. Mon!Rest(CvOf(u)) = <<>> /\ Mon!First(CvOf(u)) = IF u \in asleep THEN <<u>> ELSE <<>>
  <2>1. /\ (IF AbsQueue[CvOf(u)] = <<>> THEN <<>> ELSE Tail(AbsQueue[CvOf(u)])) = <<>>
        /\ (IF AbsQueue[CvOf(u)] = <<>> THEN <<>> ELSE <<Head(AbsQueue[CvOf(u)])>>) =
             IF u \in asleep THEN <<u>> ELSE <<>>
    <3>1. <<u>> # <<>> /\ Tail(<<u>>) = <<>> /\ Head(<<u>>) = u  OBVIOUS
    <3>2. QED  BY <1>6, <3>1
  <2>2. QED
    BY <2>1 DEF Mon!Rest, Mon!First, AbsQueue, QueuesOf, MonObjects, CvNames
<1>8. AbsQueue' = [AbsQueue EXCEPT ![CvOf(u)] = Mon!Rest(CvOf(u))]
  <2>1. AbsQueue' = QueuesOf(lockq, asleep \ {u})  BY DEF AbsQueue, QueuesOf, Signal
  <2>2. QueuesChange(lockq, asleep, u, lockq)  BY <1>0, QueueChanges
  <2>3. QueuesOf(lockq, asleep \ {u}) = [QueuesOf(lockq, asleep) EXCEPT ![CvOf(u)] = <<>>]
    BY <2>2 DEF QueuesChange
  <2>4. QED  BY <1>5, <1>7, <2>1, <2>3
<1>9. AbsRunnable' = AbsRunnable \cup Mon!All(Mon!First(CvOf(u)))
  <2>1. \A v : v \in AbsRunnable <=> v \in ToSet(ready) /\ pc[v] # "load"  BY DEF AbsRunnable
  <2>2. \A v : v \in AbsRunnable' <=> v \in ToSet(ready') /\ pc'[v] # "load"  BY DEF AbsRunnable
  <2>3. ToSet(ready) \subseteq Threads  BY <1>0, ToSetType
  <2>4. CASE u \in asleep
    <3>1. ready' = Append(ready, u)  BY <2>4 DEF Signal
    <3>2. ToSet(ready') = ToSet(ready) \cup {u}  BY <1>0, <3>1, AppendLemma
    <3>3. pc[u] # "load"  BY <1>0, <2>4 DEF PlaceInv
    <3>4. ToSet(<<u>>) = {u}  BY DEF ToSet
    <3>5. Mon!All(Mon!First(CvOf(u))) = {u}  BY <1>7, <2>4, <3>4, AllIsToSet
    <3>6. QED  BY <1>2, <2>1, <2>2, <2>3, <3>2, <3>3, <3>5
  <2>5. CASE u \notin asleep
    <3>1. ready' = ready  BY <2>5 DEF Signal
    <3>2. Mon!All(Mon!First(CvOf(u))) = {}  BY <1>7, <2>5, AllIsToSet, EmptyLemma
    <3>3. QED  BY <1>2, <2>1, <2>2, <2>3, <3>1, <3>2
  <2>6. QED  BY <2>4, <2>5
<1>10. QED
  BY <1>2, <1>3, <1>4, <1>8, <1>9
  DEF Mon!Signal, Mon!Calls, AbsLife, AbsRunnable, AbsOwner, AbsQueue, AbsRelock, QueuesOf,
      MonObjects, CvNames

(* Steps without a call, and the other threads running meanwhile *)
LEMMA RunsMaps ==
    ASSUME ShapeInv, SchedInv, NEW t, NEW place, RunsStep(t, place)
    PROVE  UNCHANGED Mon!vars
<1>0. QueueInv /\ ready \in Seq(Threads)  BY DEF SchedInv, QueueInv
<1>1. /\ Moves(t, place) /\ pc[t] \notin Relocking /\ place \notin Relocking
      /\ UNCHANGED <<owner, lockq, asleep>>
  BY DEF RunsStep, Keeps, LibraryCall, schedVars
<1>2. /\ t \in Threads /\ AbsLife' = AbsLife
      /\ AbsRelock[t] = None /\ AbsRelock' = [AbsRelock EXCEPT ![t] = None]
      /\ \A v \in Threads : pc'[v] # "load" <=> pc[v] # "load"
  BY <1>0, <1>1, MovesMaps
<1>3. AbsRelock' = AbsRelock  BY <1>2 DEF AbsRelock
<1>4. AbsOwner' = AbsOwner /\ AbsQueue' = AbsQueue  BY <1>1 DEF AbsOwner, AbsQueue, QueuesOf
<1>5. ToSet(ready') = ToSet(ready)
  <2>1. CASE ready' = ready  BY <2>1
  <2>2. CASE ready' = Append(Others, t)
    <3>1. t \in ToSet(ready) /\ Others \in Seq(Threads) /\ ToSet(Others) = ToSet(ready) \ {t}
      BY <1>0, <1>1, <1>2, Leaving DEF Moves
    <3>2. ToSet(ready') = ToSet(Others) \cup {t}  BY <1>2, <2>2, <3>1, AppendLemma
    <3>3. QED  BY <3>1, <3>2
  <2>3. QED  BY <2>1, <2>2 DEF RunsStep, LibraryCall, schedVars
<1>6. AbsRunnable' = AbsRunnable  BY <1>0, <1>2, <1>5, ToSetType DEF AbsRunnable
<1>7. QED  BY <1>2, <1>3, <1>4, <1>6, MonStutter

LEMMA CreatesMaps ==
    ASSUME ShapeInv, SchedInv, NEW u \in Threads, CreatesStep(u)
    PROVE  Mon!Create(Manager, u)
<1> USE ThreadNames
<1>0. QueueInv /\ ready \in Seq(Threads)  BY DEF SchedInv, QueueInv
<1>1. /\ MayRun(Manager) /\ pc[Manager] = "spawn" /\ pc[u] = "new" /\ Goes(u, "ready")
      /\ ready' = Append(ready, u) /\ UNCHANGED <<owner, lockq, asleep>>
  BY DEF CreatesStep
<1>2. pc'[u] = "ready" /\ \A v \in Threads : v # u => pc'[v] = pc[v]
  <2>1. "ready" \in PCs  BY DEF PCs
  <2>2. QED  BY <1>1, <2>1, GoesLemma
<1>3. u # Manager  BY <1>1
<1>4. Manager \in AbsRunnable /\ AbsRelock[Manager] = None /\ AbsLife[u] = "new"
  BY <1>0, <1>1, Leaving DEF AbsRunnable, AbsRelock, AbsLife
<1>5. AbsLife' = [AbsLife EXCEPT ![u] = "live"]  BY <1>2 DEF AbsLife
<1>6. AbsRelock' = AbsRelock  BY <1>1, <1>2 DEF AbsRelock
<1>7. AbsOwner' = AbsOwner /\ AbsQueue' = AbsQueue  BY <1>1 DEF AbsOwner, AbsQueue, QueuesOf
<1>8. AbsRunnable' = AbsRunnable \cup {u}
  <2>1. ToSet(ready') = ToSet(ready) \cup {u} /\ ToSet(ready) \subseteq Threads
    BY <1>0, <1>1, AppendLemma, ToSetType
  <2>2. QED  BY <1>1, <1>2, <2>1 DEF AbsRunnable
<1>9. QED
  BY <1>3, <1>4, <1>5, <1>6, <1>7, <1>8
  DEF Mon!Create, Mon!Calls, AbsLife, AbsRunnable, AbsOwner, AbsQueue, AbsRelock, QueuesOf,
      MonObjects, CvNames

LEMMA FinishesMaps ==
    ASSUME ShapeInv, SchedInv, NEW t \in Threads, FinishesStep(t)
    PROVE  Mon!Finish(t)
<1>0. QueueInv /\ ready \in Seq(Threads) /\ asleep \in SUBSET Threads  BY DEF SchedInv, QueueInv
<1>1. /\ MayRun(t) /\ pc[t] = "finish" /\ Goes(t, "end")
      /\ ready' = Others /\ UNCHANGED <<owner, lockq, asleep>>
  BY DEF FinishesStep
<1>2. pc'[t] = "end" /\ \A v \in Threads : v # t => pc'[v] = pc[v]
  <2>1. "end" \in PCs  BY DEF PCs
  <2>2. QED  BY <1>1, <2>1, GoesLemma
<1>3. t \in ToSet(ready) /\ ToSet(Others) = ToSet(ready) \ {t}  BY <1>0, <1>1, Leaving
<1>4. t \in AbsRunnable /\ AbsRelock[t] = None  BY <1>1, <1>3 DEF AbsRunnable, AbsRelock
<1>5. AbsLife' = [AbsLife EXCEPT ![t] = "finished"]  BY <1>2 DEF AbsLife
<1>6. AbsRelock' = AbsRelock  BY <1>1, <1>2 DEF AbsRelock
<1>7. AbsOwner' = AbsOwner /\ AbsQueue' = AbsQueue  BY <1>1 DEF AbsOwner, AbsQueue, QueuesOf
<1>8. AbsQueue[t] = <<>> /\ AbsQueue = [AbsQueue EXCEPT ![t] = <<>>]
  <2>1. QueuesOf(lockq, asleep)[t] = <<>>  BY <1>0, QueueValues
  <2>2. QueuesChange(lockq, asleep, t, lockq)  BY <1>0, QueueChanges
  <2>3. QueuesOf(lockq, asleep) = [QueuesOf(lockq, asleep) EXCEPT ![t] = <<>>]
    BY <2>2 DEF QueuesChange
  <2>4. QED  BY <2>1, <2>3 DEF AbsQueue
<1>9. AbsRunnable' = (AbsRunnable \ {t}) \cup Mon!All(AbsQueue[t])
  <2>1. Mon!All(AbsQueue[t]) = {}  BY <1>8, AllIsToSet, EmptyLemma
  <2>2. ToSet(ready) \subseteq Threads  BY <1>0, ToSetType
  <2>3. AbsRunnable' = AbsRunnable \ {t}  BY <1>1, <1>2, <1>3, <2>2 DEF AbsRunnable
  <2>4. QED  BY <2>1, <2>3
<1>10. AbsQueue' = [AbsQueue EXCEPT ![t] = <<>>]  BY <1>7, <1>8
<1>11. QED
  BY <1>4, <1>5, <1>6, <1>7, <1>9, <1>10
  DEF Mon!Finish, Mon!Calls, AbsLife, AbsRunnable, AbsOwner, AbsQueue, AbsRelock, QueuesOf,
      MonObjects, CvNames

(* The end of load_input stands for the start of the program's threads. *)
LEMMA LoadsMaps ==
    ASSUME ShapeInv, SchedInv, LoadsStep
    PROVE  Mon!Start
<1> USE ThreadNames
<1>0. QueueInv /\ ready \in Seq(Threads)  BY DEF SchedInv, QueueInv
<1>1. /\ MayRun(Manager) /\ pc[Manager] = "load" /\ Goes(Manager, "spawn")
      /\ UNCHANGED <<ready, owner, lockq, asleep>>
  BY DEF LoadsStep, schedVars
<1>2. pc'[Manager] = "spawn" /\ \A v \in Threads : v # Manager => pc'[v] = pc[v]
  <2>1. "spawn" \in PCs  BY DEF PCs
  <2>2. QED  BY <1>1, <2>1, GoesLemma
<1>3. Manager \in ToSet(ready) /\ ToSet(ready) \subseteq Threads  BY <1>0, <1>1, Leaving, ToSetType
<1>4. AbsLife[Manager] = "new" /\ AbsLife' = [AbsLife EXCEPT ![Manager] = "live"]
  BY <1>1, <1>2 DEF AbsLife
<1>5. AbsRelock' = AbsRelock  BY <1>1, <1>2 DEF AbsRelock
<1>6. AbsOwner' = AbsOwner /\ AbsQueue' = AbsQueue  BY <1>1 DEF AbsOwner, AbsQueue, QueuesOf
<1>7. AbsRunnable' = AbsRunnable \cup {Manager}  BY <1>1, <1>2, <1>3 DEF AbsRunnable
<1>8. QED
  BY <1>4, <1>5, <1>6, <1>7
  DEF Mon!Start, AbsLife, AbsRunnable, AbsOwner, AbsQueue, AbsRelock, QueuesOf, MonObjects, CvNames

-----------------------------------------------------------------------------
(* The refinement.                                                         *)

LEMMA MonitorInit == Init => Mon!Init
<1> SUFFICES ASSUME Init PROVE Mon!Init  OBVIOUS
<1> USE ThreadNames
<1>1. /\ ready = <<Manager>> /\ lockq = <<>> /\ asleep = {} /\ owner = None
      /\ \A t \in Threads : pc[t] = IF t = Manager THEN "load" ELSE "new"
  BY DEF Init
<1>2. ToSet(ready) = {Manager}  BY <1>1 DEF ToSet
<1>3. AbsRunnable = {}  BY <1>1, <1>2 DEF AbsRunnable
<1>4. AbsLife = [t \in Threads |-> "new"]  BY <1>1 DEF AbsLife
<1>5. AbsRelock = [t \in Threads |-> None]  BY <1>1 DEF AbsRelock
<1>6. AbsOwner = [m \in {pizza_lock} |-> None]  BY <1>1 DEF AbsOwner
<1>7. AbsQueue = [o \in Mon!Objects |-> <<>>]
  <2>1. Mon!Objects = MonObjects  BY DEF Mon!Objects, MonObjects, CvNames
  <2>2. {CvOf(t) : t \in asleep} = {}  BY <1>1
  <2>3. QED  BY <1>1, <2>1, <2>2 DEF AbsQueue, QueuesOf
<1>8. QED
  BY <1>3, <1>4, <1>5, <1>6, <1>7
  DEF Mon!Init, AbsLife, AbsRunnable, AbsOwner, AbsQueue, AbsRelock, QueuesOf, MonObjects, CvNames

LEMMA MonitorStep == PizzaInv /\ [Next]_vars => [Mon!Next]_(Mon!vars)
<1> SUFFICES ASSUME PizzaInv, [Next]_vars PROVE Mon!Next \/ UNCHANGED Mon!vars  OBVIOUS
<1>1. ShapeInv /\ SchedInv /\ SchedStep  BY KindOfStep DEF PizzaInv, ObjectInv
<1>2. pizza_lock \in {pizza_lock} /\ \A t \in Threads : CvOf(t) \in {CvOf(u) : u \in Threads}
  OBVIOUS
<1>3. ASSUME NEW t \in Threads, NEW place \in PCs,
             LocksStep(t, place) \/ UnlocksStep(t, place) \/ WaitsStep(t, place)
      PROVE  Mon!Next
  <2>1. Mon!Lock(t, pizza_lock) \/ Mon!Unlock(t, pizza_lock) \/ Mon!Wait(t, CvOf(t), pizza_lock)
    BY <1>1, <1>3, LocksMaps, UnlocksMaps, WaitsMaps
  <2>2. QED  BY <1>2, <2>1 DEF Mon!Next
<1>4. ASSUME NEW t \in Threads, NEW place \in PCs, SignalsStep(t, place)
      PROVE  Mon!Next
  <2>1. PICK u \in Threads : Moves(t, place) /\ Keeps(t, place) /\ Signal(u)
    BY <1>4 DEF SignalsStep
  <2>2. Mon!Signal(t, CvOf(u))  BY <1>1, <2>1, SignalsMaps
  <2>3. QED  BY <1>2, <2>2 DEF Mon!Next
<1>5. ASSUME NEW u \in Threads, CreatesStep(u) \/ FinishesStep(u)
      PROVE  Mon!Next
  <2>1. Mon!Create(Manager, u) \/ Mon!Finish(u)  BY <1>1, <1>5, CreatesMaps, FinishesMaps
  <2>2. QED  BY <2>1, ThreadNames DEF Mon!Next
<1>6. CASE LoadsStep  BY <1>1, <1>6, LoadsMaps DEF Mon!Next
<1>7. CASE UNCHANGED <<pc, schedVars>>
  <2>1. UNCHANGED <<AbsLife, AbsRunnable, AbsOwner, AbsQueue, AbsRelock>>
    BY <1>7 DEF schedVars, AbsLife, AbsRunnable, AbsOwner, AbsQueue, QueuesOf, AbsRelock
  <2>2. QED  BY <2>1, MonStutter
<1>8. QED  BY <1>1, <1>3, <1>4, <1>5, <1>6, <1>7, RunsMaps DEF SchedStep

(* UsesMonitor for any command lines: however the threads interleave at    *)
(* the calls of the pizza library, run_pizza_manager, run_driver and       *)
(* run_customer call unlock and wait only when they own pizza_lock, come   *)
(* back from wait with it, and change nothing of the scheduler otherwise.  *)
THEOREM PizzaUsesMonitor == Spec => UsesMonitor
<1>1. Init => PizzaInv  BY ObjectInit, SchedInit DEF PizzaInv
<1>2. PizzaInv /\ [Next]_vars => PizzaInv'  BY PizzaStep
<1>3. Init => Mon!Init  BY MonitorInit
<1>4. PizzaInv /\ [Next]_vars => [Mon!Next]_(Mon!vars)  BY MonitorStep
<1>5. QED  BY <1>1, <1>2, <1>3, <1>4, PTL DEF Spec, UsesMonitor, Mon!Spec
=============================================================================
