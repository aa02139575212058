------------------------------ MODULE Monitor ------------------------------
(***************************************************************************)
(* The monitor base class of the elevator homework (hw2/monitor.h): one    *)
(* mutex and any number of condition variables.  A thread is new, ready    *)
(* for the mutex, inside it, blocked on one condition, or gone.            *)
(*                                                                         *)
(* pthread_cond_wait releases the mutex and blocks in one atomic step; a   *)
(* woken thread has to win the mutex again, in competition with every      *)
(* other ready thread and with newcomers.  The operators of this module    *)
(* describe what one action of a monitor method does to the threads: a     *)
(* method that notifies some conditions and then waits, continues or       *)
(* returns does all of that while it owns the mutex.                       *)
(***************************************************************************)
CONSTANTS
    Thread,     \* the threads that call the monitor's methods
    Condition,  \* its condition variables
    Nobody      \* stands for the absence of an owner

VARIABLES
    owner,      \* the thread that holds the mutex, or Nobody
    at          \* where each thread is: a phase below or a condition

New    == <<"new">>      \* created, has not locked the mutex yet
Ready  == <<"ready">>    \* woken from a condition, wants the mutex back
Inside == <<"inside">>   \* owns the mutex
Gone   == <<"gone">>     \* returned from the monitor method

Place == {New, Ready, Inside, Gone} \cup Condition

MonitorTypeOK ==
    /\ owner \in Thread \cup {Nobody}
    /\ at \in [Thread -> Place]

MonitorInit ==
    /\ owner = Nobody
    /\ at = [t \in Thread |-> New]

(***************************************************************************)
(* Lock: the constructor of the monitor's lock for a new thread, the       *)
(* second half of pthread_cond_wait for a woken one.                       *)
(***************************************************************************)
Enter(t) ==
    /\ owner = Nobody
    /\ at[t] \in {New, Ready}
    /\ owner' = t
    /\ at' = [at EXCEPT ![t] = Inside]

\* The threads once every condition of C has been broadcast.
Woken(C) == [t \in Thread |-> IF at[t] \in C THEN Ready ELSE at[t]]

\* The owner t broadcasts the conditions of C and stays inside.
Continue(t, C) ==
    /\ owner = t
    /\ at' = Woken(C)
    /\ UNCHANGED owner

\* The owner t broadcasts the conditions of C, then waits on c.
WaitOn(t, C, c) ==
    /\ owner = t
    /\ at' = [Woken(C) EXCEPT ![t] = c]
    /\ owner' = Nobody

\* The owner t broadcasts the conditions of C, then leaves the monitor.
Leave(t, C) ==
    /\ owner = t
    /\ at' = [Woken(C) EXCEPT ![t] = Gone]
    /\ owner' = Nobody

(***************************************************************************)
(* The deadline of a timed wait on c passes and t gets the mutex back.     *)
(* Nothing broadcasts a condition that is only used for timed waits, so    *)
(* being timed out and being blocked cannot be told apart before that.     *)
(***************************************************************************)
TimeOut(t, c) ==
    /\ owner = Nobody
    /\ at[t] = c
    /\ owner' = t
    /\ at' = [at EXCEPT ![t] = Inside]

\* POSIX lets pthread_cond_wait return although nobody broadcast.
SpuriousWakeup(t) ==
    /\ at[t] \in Condition
    /\ at' = [at EXCEPT ![t] = Ready]
    /\ UNCHANGED owner
============================================================================
