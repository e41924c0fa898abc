--------------------------- MODULE RequestWindow ---------------------------
(***************************************************************************)
(* What the limiter of internal/platform/httpx promises, without buckets:  *)
(* a request is served exactly when it fits, with every run of requests    *)
(* served before it, into the burst and what the time between them gives.  *)
(***************************************************************************)
EXTENDS Integers, Sequences

CONSTANTS Clients, Requests, Rate, Burst, Cost

VARIABLES
    pc,        \* "idle", "asking", "served", "refused"
    client,    \* whose request it is
    reading,   \* the time it read
    served     \* the times of the requests served, by client, as they were served

Init ==
    /\ pc = [r \in Requests |-> "idle"]
    /\ client \in [Requests -> Clients]
    /\ reading = [r \in Requests |-> 0]
    /\ served = [c \in Clients |-> <<>>]

\* The time read is any.
Ask(r, c) ==
    /\ pc[r] # "asking"
    /\ pc' = [pc EXCEPT ![r] = "asking"]
    /\ client' = [client EXCEPT ![r] = c]
    /\ reading'[r] \in Int
    /\ reading' = [reading EXCEPT ![r] = reading'[r]]
    /\ UNCHANGED served

\* The request and those of its client served from the i-th on are
\* Len - i + 2 requests; they may cost the burst and what has been gained
\* since the time of the i-th.  Time may run backwards between the two.
Fits(c, n) ==
    \A i \in DOMAIN served[c] :
        Cost * (Len(served[c]) - i + 2) <= Burst + Rate * (n - served[c][i])

Serve(r) ==
    /\ pc[r] = "asking"
    /\ Fits(client[r], reading[r])
    /\ pc' = [pc EXCEPT ![r] = "served"]
    /\ served' = [served EXCEPT ![client[r]] = Append(@, reading[r])]
    /\ UNCHANGED <<client, reading>>

Refuse(r) ==
    /\ pc[r] = "asking"
    /\ ~Fits(client[r], reading[r])
    /\ pc' = [pc EXCEPT ![r] = "refused"]
    /\ UNCHANGED <<client, reading, served>>

Next ==
    \E r \in Requests :
        \/ \E c \in Clients : Ask(r, c)
        \/ Serve(r)
        \/ Refuse(r)

Spec == Init /\ [][Next]_<<pc, client, reading, served>>
=============================================================================
