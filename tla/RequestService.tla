-------------------------- MODULE RequestService --------------------------
(***************************************************************************)
(* What libtgm promises the clients of its command socket (tgm.h: a token   *)
(* is passed to the request function and back with its completion): one     *)
(* client at a time, its requests served one after the other, and each      *)
(* answered at most once, to the client that made it, before the next one   *)
(* is looked at.  A request may go unanswered.                              *)
(***************************************************************************)
EXTENDS Naturals, Sequences

CONSTANTS
    Clients,      \* the connections, from 1 on
    MaxRequests   \* bound: requests

Nobody == 0
NoRequest == 0
Other == 0

VARIABLES
    client,      \* the connected client
    received,    \* the client that made each request received so far
    serving,     \* the request being served
    sent,        \* what each client has been sent: the request that an answer
                 \* answers, or Other for the rest
    down         \* the daemon has ended
vars == <<client, received, serving, sent, down>>

Init ==
    /\ client = Nobody
    /\ received = << >>
    /\ serving = NoRequest
    /\ sent = [c \in Clients |-> << >>]
    /\ down = FALSE

\* no client is served twice
Connect(c) ==
    /\ client = Nobody /\ serving = NoRequest
    /\ \A r \in DOMAIN received : received[r] # c
    /\ client' = c
    /\ UNCHANGED <<received, serving, sent, down>>

Receive ==
    /\ client # Nobody /\ serving = NoRequest
    /\ Len(received) < MaxRequests
    /\ received' = Append(received, client)
    /\ serving' = Len(received')
    /\ UNCHANGED <<client, sent, down>>

\* serving goes on after the answer, which it may make only once
Answer ==
    /\ serving # NoRequest
    /\ \A i \in DOMAIN sent[client] : sent[client][i] # serving
    /\ received[serving] = client
    /\ sent' = [sent EXCEPT ![client] = Append(@, serving)]
    /\ UNCHANGED <<client, received, serving, down>>

\* a notification, or the header of a response
Tell ==
    /\ client # Nobody
    /\ sent' = [sent EXCEPT ![client] = Append(@, Other)]
    /\ UNCHANGED <<client, received, serving, down>>

Done ==
    /\ serving # NoRequest
    /\ serving' = NoRequest
    /\ UNCHANGED <<client, received, sent, down>>

Leave ==
    /\ client # Nobody /\ serving = NoRequest
    /\ client' = Nobody
    /\ UNCHANGED <<received, serving, sent, down>>

\* a response could not be written
GoDown == down' = TRUE /\ UNCHANGED <<client, received, serving, sent>>

Next ==
    /\ ~down
    /\ \/ \E c \in Clients : Connect(c)
       \/ Receive \/ Answer \/ Tell \/ Done \/ Leave \/ GoDown

Spec == Init /\ [][Next]_vars
=============================================================================
