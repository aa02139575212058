--------------------------- MODULE BankerService ---------------------------
(***************************************************************************)
(* What the banker of Banker/banker.cpp promises: a request is granted, in *)
(* one step, exactly when it is within the process's declared need and the *)
(* free resources and leaves a safe state, one from which the live         *)
(* processes can all be run to completion in some order.                   *)
(***************************************************************************)
EXTENDS Integers, FiniteSets, FiniteSetsExt, Functions

CONSTANTS
    Process, Resource,
    NoRequest   \* no request is being decided

VARIABLES
    available,  \* free units of each resource
    alloc,      \* units each process holds
    need,       \* units each process may still ask for
    live,       \* the processes that have not been killed
    asked,      \* the request being decided, or NoRequest
    verdict     \* the last answer: "none", "granted" or "rejected"

serviceVars == <<available, alloc, need, live, asked, verdict>>

\* u[r] <= v[r] for every resource.
Within(u, v) == \A r \in Resource : u[r] <= v[r]

Plus(u, v)  == [r \in Resource |-> u[r] + v[r]]
Minus(u, v) == [r \in Resource |-> u[r] - v[r]]

\* The processes of P can finish in the order s: each finds its need among the
\* free units and those of the processes that finished before it.
SafeOrder(s, avail, al, nd) ==
    \A k \in DOMAIN s : \A r \in Resource :
        nd[s[k]][r] <= avail[r] + MapThenSumSet(LAMBDA i : al[s[i]][r], 1 .. k - 1)

Safe(avail, al, nd, P) ==
    \E s \in Bijection(1 .. Cardinality(P), P) : SafeOrder(s, avail, al, nd)

Grantable(p, v) ==
    /\ Within(v, need[p])
    /\ Within(v, available)
    /\ Safe(Minus(available, v), [alloc EXCEPT ![p] = Plus(@, v)],
            [need EXCEPT ![p] = Minus(@, v)], live)

Ask ==
    /\ asked = NoRequest
    /\ asked' # NoRequest
    /\ asked'.proc \in live
    /\ UNCHANGED <<available, alloc, need, live, verdict>>

Decide ==
    /\ asked # NoRequest
    /\ asked' = NoRequest
    /\ LET p == asked.proc
           v == asked.amounts
       IN  IF Grantable(p, v)
             THEN /\ verdict' = "granted"
                  /\ available' = Minus(available, v)
                  /\ alloc' = [alloc EXCEPT ![p] = Plus(@, v)]
                  /\ need' = [need EXCEPT ![p] = Minus(@, v)]
             ELSE /\ verdict' = "rejected"
                  /\ UNCHANGED <<available, alloc, need>>
    /\ UNCHANGED live

\* A killed process gives back what it holds.
Kill(p) ==
    /\ asked = NoRequest
    /\ p \in live
    /\ live' = live \ {p}
    /\ available' = Plus(available, alloc[p])
    /\ UNCHANGED <<alloc, need, asked, verdict>>

ServiceInit == asked = NoRequest /\ verdict = "none" /\ live = Process

ServiceNext == Ask \/ Decide \/ \E p \in live : Kill(p)

ServiceSpec == ServiceInit /\ [][ServiceNext]_serviceVars
=============================================================================
