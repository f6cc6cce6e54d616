---------------------------- MODULE TimerService ----------------------------
(***************************************************************************)
(* What libtgm promises those who ask for a timed callback (tgm.h, of       *)
(* RequestTimedCallback: "relativeTime ... specifies a relative time value  *)
(* at which the callback is invoked"): each is called once, after its time, *)
(* and no callback is called before one that is due earlier.                *)
(***************************************************************************)
EXTENDS Naturals

CONSTANTS
    Timers,  \* callbacks that may wait at once
    Delays   \* relative times

VARIABLES
    waiting, \* the timers whose callback has not been called
    due,     \* when each may be
    now
vars == <<waiting, due, now>>

Init ==
    /\ waiting = {}
    /\ due = [t \in Timers |-> 0]
    /\ now = 0

\* t joins those of the set others
Requested(t, others) ==
    /\ t \in Timers \ waiting
    /\ waiting' = others \cup {t}
    /\ \E d \in Delays : due' = [due EXCEPT ![t] = now + d]

Request(t) == Requested(t, waiting) /\ UNCHANGED now

Earliest(t) ==
    /\ t \in waiting
    /\ due[t] < now
    /\ \A u \in waiting : due[t] <= due[u]

\* the callback may ask for another
Call(t) ==
    /\ Earliest(t)
    /\ \/ waiting' = waiting \ {t} /\ UNCHANGED due
       \/ \E u \in Timers : Requested(u, waiting \ {t})
    /\ UNCHANGED now

Tick == now' = now + 1 /\ UNCHANGED <<waiting, due>>

Next == Tick \/ \E t \in Timers : Request(t) \/ Call(t)

Spec == Init /\ [][Next]_vars
=============================================================================
