------------------------------ MODULE Limiter ------------------------------
(***************************************************************************)
(* The rate limiter of internal/platform/httpx/middleware.go: a bucket per *)
(* client.  A request reads the clock before it locks the limiter, so that *)
(* requests reach the bucket with their readings out of order.             *)
(*                                                                         *)
(* Tokens are counted in units: a request costs Cost of them, a tick of    *)
(* the clock brings Rate (the code: 1 and 30 a second, in floating point). *)
(***************************************************************************)
EXTENDS Integers, Sequences, FiniteSets

CONSTANTS
    Clients,    \* hosts
    Requests,   \* requests in progress at a time
    Rate,
    Burst,
    Cost,
    MaxTime     \* bound on the clock

\* The server is built with a rate of 30 and a burst of 60 (cmd/server/main.go:55).
ASSUME LimiterAssumption ==
    /\ Clients # {}
    /\ Rate \in Nat /\ Burst \in Nat /\ Cost \in Nat /\ Cost <= Burst

VARIABLES
    clock,
    bucket,    \* Limiter.clients
    pc,        \* "idle", "asking", "served", "refused"
    client,
    reading,
    served     \* history: the readings of the requests served, by client

vars == <<clock, bucket, pc, client, reading, served>>

NoBucket == [tokens |-> 0, last |-> -1]

Init ==
    /\ clock = 0
    /\ bucket = [c \in Clients |-> NoBucket]
    /\ pc = [r \in Requests |-> "idle"]
    /\ client \in [Requests -> Clients]
    /\ reading = [r \in Requests |-> 0]
    /\ served = [c \in Clients |-> <<>>]

Tick ==
    /\ clock < MaxTime
    /\ clock' = clock + 1
    /\ UNCHANGED <<bucket, pc, client, reading, served>>

\* A new request, of a client who may have been answered before.
ReadClock(r, c) ==
    /\ pc[r] # "asking"
    /\ pc' = [pc EXCEPT ![r] = "asking"]
    /\ client' = [client EXCEPT ![r] = c]
    /\ reading' = [reading EXCEPT ![r] = clock]
    /\ UNCHANGED <<clock, bucket, served>>

\* Broken forms (named Bug...) stand before the definition they would replace.

\* A reading from before the last one brings nothing instead of costing.
BugTokens(c, n) ==
    IF bucket[c] = NoBucket THEN Burst
    ELSE LET gained == IF n < bucket[c].last THEN 0 ELSE Rate * (n - bucket[c].last)
             t == bucket[c].tokens + gained
         IN IF t > Burst THEN Burst ELSE t

\* What the bucket holds at time n: a new one is full, and a reading from
\* before the last one takes tokens back.
Tokens(c, n) ==
    IF bucket[c] = NoBucket THEN Burst
    ELSE LET t == bucket[c].tokens + Rate * (n - bucket[c].last)
         IN IF t > Burst THEN Burst ELSE t

\* The section under the lock.
Serve(r) ==
    LET c == client[r]
        n == reading[r]
    IN  /\ pc[r] = "asking"
        /\ Tokens(c, n) >= Cost
        /\ pc' = [pc EXCEPT ![r] = "served"]
        /\ bucket' = [bucket EXCEPT ![c] = [tokens |-> Tokens(c, n) - Cost, last |-> n]]
        /\ served' = [served EXCEPT ![c] = Append(@, n)]
        /\ UNCHANGED <<clock, client, reading>>

Refuse(r) ==
    LET c == client[r]
        n == reading[r]
    IN  /\ pc[r] = "asking"
        /\ Tokens(c, n) < Cost
        /\ pc' = [pc EXCEPT ![r] = "refused"]
        /\ bucket' = [bucket EXCEPT ![c] = [tokens |-> Tokens(c, n), last |-> n]]
        /\ UNCHANGED <<clock, client, reading, served>>

Next ==
    \/ Tick
    \/ \E r \in Requests : (\E c \in Clients : ReadClock(r, c)) \/ Serve(r) \/ Refuse(r)

Spec == Init /\ [][Next]_vars

-----------------------------------------------------------------------------
(* Properties. *)

Window == INSTANCE RequestWindow

\* Whatever the order in which requests with older and newer readings pass the
\* lock, the bucket answers as the window does: nobody gets more than burst and
\* rate allow, and no late, early or refused request costs a client anything
\* that it is entitled to.
ImplementsWindow == Window!Spec

\* However the requests of a client overtake one another: those that read a
\* time from lo to hi and were served cost no more than the burst and what that
\* much time brings.
RateIsKept ==
    \A c \in Clients : \A lo \in 0..clock : \A hi \in lo..clock :
        Cost * Cardinality({i \in DOMAIN served[c] : served[c][i] \in lo..hi})
            <= Burst + Rate * (hi - lo)
=============================================================================
