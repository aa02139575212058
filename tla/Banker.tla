------------------------------- MODULE Banker -------------------------------
(***************************************************************************)
(* The banker's algorithm of Banker/banker.cpp: main reads requests and    *)
(* kills from the terminal, banker() decides a request by applying it      *)
(* tentatively and running the scan of safeState().                        *)
(*                                                                         *)
(* Vectors are indexed from 1.  The code keeps (name, amount) pairs but    *)
(* indexes every vector by position, so a resource is a position here; the *)
(* names a request mentions are kept in request.names.                     *)
(***************************************************************************)
EXTENDS Integers, Sequences, FiniteSets, FiniteSetsExt, Functions

CONSTANTS
    NumOfProcess, NumOfResources,
    Inputs,     \* the contents of the input file "inp"
    Amounts,    \* the amounts a request may name
    NameOrders, \* the orders in which a request may name the resources
    NoRequest   \* banker() is not running

Process  == 1 .. NumOfProcess
Resource == 1 .. NumOfResources

ASSUME SizeAssumption ==
    /\ NumOfProcess \in Nat \ {0}
    /\ NumOfResources \in Nat

\* The input file: a process holds no more than it may.
ASSUME InputAssumption ==
    \A f \in Inputs :
        /\ f.available \in [Resource -> Nat]
        /\ f.max \in [Process -> [Resource -> Nat]]
        /\ f.alloc \in [Process -> [Resource -> Nat]]
        /\ \A p \in Process, r \in Resource : f.alloc[p][r] <= f.max[p][r]

ASSUME RequestAssumption ==
    /\ Amounts \subseteq Nat
    /\ NameOrders \subseteq Bijection(Resource, Resource)
    /\ NoRequest \notin [proc: Process, amounts: [Resource -> Amounts], names: NameOrders]

VARIABLES
    input,      \* the input file that was read
    available,  \* resource.available
    fakeAvail,  \* resource.fakeAvail
    alloc,      \* process.allocation
    need,       \* process.need
    procVec,    \* allProcesses, in the order of the file
    pc,         \* "prompt", "banker", "scan" (in safeState) or "exit"
    request,    \* the request banker() is called with
    backup,     \* backupAlloc and backupNeed
    i,          \* the index of the scan
    finished,   \* the positions whose process the scan has finished
    work,       \* safeState's work
    verdict     \* the last answer printed

fileVars  == <<input>>
stateVars == <<available, alloc, need, procVec>>
scanVars  == <<i, finished, work>>
vars == <<fileVars, stateVars, fakeAvail, pc, request, backup, scanVars, verdict>>

B == INSTANCE BankerService WITH
        live <- Range(procVec), asked <- request

Zero == [r \in Resource |-> 0]

\* main reads the file and enters its loop.
Init ==
    /\ input \in Inputs
    /\ available = input.available
    /\ fakeAvail = input.available
    /\ alloc = input.alloc
    /\ need = [p \in Process |-> B!Minus(input.max[p], input.alloc[p])]
    /\ procVec = [n \in Process |-> n]
    /\ pc = "prompt"
    /\ request = NoRequest
    /\ backup = [alloc |-> Zero, need |-> Zero]
    /\ i = 1
    /\ finished = {}
    /\ work = Zero
    /\ verdict = "none"

\* A request names a live process and every resource with an amount.
Ask ==
    /\ pc = "prompt"
    /\ \E p \in Range(procVec), v \in [Resource -> Amounts], o \in NameOrders :
          request' = [proc |-> p, amounts |-> v, names |-> o]
    /\ pc' = "banker"
    /\ UNCHANGED <<fileVars, stateVars, fakeAvail, backup, scanVars, verdict>>

\* "x name": the process gives back what it holds and is erased.
Kill(n) ==
    /\ pc = "prompt"
    /\ n \in DOMAIN procVec
    /\ available' = B!Plus(available, alloc[procVec[n]])
    /\ procVec' = SubSeq(procVec, 1, n - 1) \o SubSeq(procVec, n + 1, Len(procVec))
    /\ pc' = IF procVec' = << >> THEN "exit" ELSE "prompt"
    /\ UNCHANGED <<fileVars, fakeAvail, alloc, need, request, backup, scanVars, verdict>>

\* Mutation: the free units are not looked at.
AffordableByNeed == B!Within(request.amounts, need[request.proc])

\* The request is within the need and the free units, position by position.
Affordable ==
    /\ B!Within(request.amounts, need[request.proc])
    /\ B!Within(request.amounts, available)

Return(answer) ==
    /\ pc' = "prompt"
    /\ request' = NoRequest
    /\ verdict' = answer

\* "rejected due to capacity" or "Not enough resource".
TurnDown ==
    /\ pc = "banker"
    /\ ~ Affordable
    /\ Return("rejected")
    /\ UNCHANGED <<fileVars, stateVars, fakeAvail, backup, scanVars>>

\* banker() keeps a backup, applies the request, and calls safeState.
Pretend ==
    /\ pc = "banker"
    /\ Affordable
    /\ LET p == request.proc
           v == request.amounts
       IN  /\ backup' = [alloc |-> alloc[p], need |-> need[p]]
           /\ fakeAvail' = B!Minus(available, v)
           /\ alloc' = [alloc EXCEPT ![p] = B!Plus(@, v)]
           /\ need' = [need EXCEPT ![p] = B!Minus(@, v)]
    /\ pc' = "scan"
    /\ i' = 1
    /\ finished' = {}
    /\ work' = fakeAvail'
    /\ UNCHANGED <<fileVars, available, procVec, request, verdict>>

\* Mutation: a process may be finished twice.
CanFinishTwice == B!Within(need[procVec[i]], work)

\* The process at position i can run to completion with what the scan has.
CanFinish == i \notin finished /\ B!Within(need[procVec[i]], work)

\* Mutation: the scan goes on behind the finished process.
ScanFinishOnce ==
    /\ pc = "scan"
    /\ i <= Len(procVec)
    /\ CanFinish
    /\ finished' = finished \cup {i}
    /\ work' = B!Plus(work, alloc[procVec[i]])
    /\ i' = i + 1
    /\ UNCHANGED <<fileVars, stateVars, fakeAvail, pc, request, backup, verdict>>

\* safeState finishes a process, takes what it holds, and starts over.
ScanFinish ==
    /\ pc = "scan"
    /\ i <= Len(procVec)
    /\ CanFinish
    /\ finished' = finished \cup {i}
    /\ work' = B!Plus(work, alloc[procVec[i]])
    /\ i' = 1
    /\ UNCHANGED <<fileVars, stateVars, fakeAvail, pc, request, backup, verdict>>

\* Mutation: the scan also starts over when a process cannot finish.
ScanSkipToStart ==
    /\ pc = "scan"
    /\ i <= Len(procVec)
    /\ ~ CanFinish
    /\ i' = 1
    /\ UNCHANGED <<fileVars, stateVars, fakeAvail, pc, request, backup, finished, work, verdict>>

\* The process at position i is finished already or has to wait.
ScanSkip ==
    /\ pc = "scan"
    /\ i <= Len(procVec)
    /\ ~ CanFinish
    /\ i' = i + 1
    /\ UNCHANGED <<fileVars, stateVars, fakeAvail, pc, request, backup, finished, work, verdict>>

\* Mutation: one finished process is enough.
SomeFinished == finished # {}

AllFinished == finished = DOMAIN procVec

Grant ==
    /\ pc = "scan"
    /\ i > Len(procVec)
    /\ AllFinished
    /\ available' = fakeAvail
    /\ Return("granted")
    /\ UNCHANGED <<fileVars, alloc, need, procVec, fakeAvail, backup, scanVars>>

\* Mutation: the allocation is not rolled back.
RejectNeedOnly ==
    /\ pc = "scan"
    /\ i > Len(procVec)
    /\ ~ AllFinished
    /\ need' = [need EXCEPT ![request.proc] = backup.need]
    /\ Return("rejected")
    /\ UNCHANGED <<fileVars, available, alloc, procVec, fakeAvail, backup, scanVars>>

\* fakeAvail keeps the rejected request's value; the next request resets it.
Reject ==
    /\ pc = "scan"
    /\ i > Len(procVec)
    /\ ~ AllFinished
    /\ alloc' = [alloc EXCEPT ![request.proc] = backup.alloc]
    /\ need' = [need EXCEPT ![request.proc] = backup.need]
    /\ Return("rejected")
    /\ UNCHANGED <<fileVars, available, procVec, fakeAvail, backup, scanVars>>

BankerStep == TurnDown \/ Pretend \/ ScanFinish \/ ScanSkip \/ Grant \/ Reject

\* main returns once the last process is killed.
Exited == pc = "exit" /\ UNCHANGED vars

Next == Ask \/ (\E n \in Process : Kill(n)) \/ BankerStep \/ Exited

Spec == Init /\ [][Next]_vars

\* banker() runs without waiting for anybody; the user need not type anything.
FairSpec == Spec /\ WF_vars(BankerStep)

-----------------------------------------------------------------------------
(* Properties *)

TypeOK ==
    /\ input \in Inputs
    /\ available \in [Resource -> Nat]
    /\ fakeAvail \in [Resource -> Nat]
    /\ alloc \in [Process -> [Resource -> Nat]]
    /\ need \in [Process -> [Resource -> Nat]]
    /\ procVec \in Seq(Process)
    /\ pc \in {"prompt", "banker", "scan", "exit"}
    /\ pc \in {"prompt", "exit"} => request = NoRequest
    /\ pc \in {"banker", "scan"} =>
         request \in [proc: Range(procVec), amounts: [Resource -> Amounts], names: NameOrders]
    /\ backup \in [alloc: [Resource -> Nat], need: [Resource -> Nat]]
    /\ i \in Nat \ {0}
    /\ finished \in SUBSET Nat
    /\ work \in [Resource -> Nat]
    /\ verdict \in {"none", "granted", "rejected"}

\* What a process holds and what it may still ask for always add up to its
\* declared maximum, also while a request is only tried out.
NeedIsMaxMinusAlloc ==
    \A p \in Process, r \in Resource : alloc[p][r] + need[p][r] = input.max[p][r]

Held(r) == MapThenSumSet(LAMBDA p : alloc[p][r], Range(procVec))

InputTotal(r) == input.available[r] + MapThenSumSet(LAMBDA p : input.alloc[p][r], Process)

\* No unit of a resource is created or lost by requests, by the tentative
\* allocation and its rollback, or by kills.
UnitsAreConserved ==
    \A r \in Resource :
        (IF pc = "scan" THEN fakeAvail[r] ELSE available[r]) + Held(r) = InputTotal(r)

\* The scan's work is what is free plus what the finished processes hold.
WorkIsReleased ==
    pc = "scan" => \A r \in Resource :
        work[r] = fakeAvail[r] + MapThenSumSet(LAMBDA n : alloc[procVec[n]][r], finished)

SafeInput ==
    B!Safe(input.available, input.alloc,
           [p \in Process |-> B!Minus(input.max[p], input.alloc[p])], Process)

\* Started in a safe state the banker is in a safe state whenever it waits for
\* input: neither a granted request nor a kill can make it unsafe.
StaysSafe ==
    SafeInput /\ pc = "prompt" => B!Safe(available, alloc, need, Range(procVec))

\* banker() grants exactly the requests BankerService grants, and a request it
\* tries out and rejects leaves no trace.
Undone(f, old) == IF pc = "scan" THEN [f EXCEPT ![request.proc] = old] ELSE f

Service == INSTANCE BankerService WITH
    live  <- Range(procVec),
    asked <- request,
    alloc <- Undone(alloc, backup.alloc),
    need  <- Undone(need, backup.need)

ImplementsService == Service!ServiceSpec

\* Every call of banker() returns: the scan, which starts over after every
\* process it finishes, comes to its end.
EveryRequestIsAnswered == pc = "banker" ~> pc = "prompt"

\* "read it in the form ProcName Resname1 Amount1 Resname2 amount2": what is
\* granted of a resource is the amount named with it.
GrantsWhatIsNamed ==
    [][verdict' = "granted" /\ pc = "scan" /\ pc' = "prompt" =>
         \A r \in Resource :
            available'[request.names[r]] = available[request.names[r]] - request.amounts[r]]_vars
=============================================================================
