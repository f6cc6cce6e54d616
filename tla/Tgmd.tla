-------------------------------- MODULE Tgmd --------------------------------
(***************************************************************************)
(* tgmd beside the data connection it started, tgmd.c: the main thread      *)
(* handles the kernel's uevents, runs usb_modeswitch when the modem is      *)
(* plugged in, and waits for a child to end, whichever that is: pppd, which *)
(* mainLoop of Pppd has forked and another thread waits for, is one too.    *)
(***************************************************************************)
EXTENDS Pppd, Sequences

CONSTANTS
    MaxUevents,     \* bound: the uevents that matter to tgmd
    ExecMayFail     \* whether usb_modeswitch may fail to be executed

\* The waiter of a failed fork would also wait for any child.
ASSUME ForksAssumption == ~ForkMayFail
ASSUME UeventsAssumption == MaxUevents \in Nat /\ ExecMayFail \in BOOLEAN

Forks == 1 .. MaxUevents

VARIABLES
    uevents,          \* in uevent_sock
    seqnum,           \* uevents so far
    target_inserted,
    waiting,          \* the main thread is in wait
    modeswitch,       \* usb_modeswitch, by the number of its fork
    switches          \* forks of it so far

ueventVars == <<uevents, seqnum, target_inserted, waiting, modeswitch, switches>>
tgmdVars == <<vars, ueventVars>>

\* a process that runs tgmd's code on is a "daemon"
TgmdTypeOK ==
    /\ TypeOK
    /\ uevents \in Seq({"add", "remove"}) /\ Len(uevents) <= seqnum
    /\ seqnum \in 0 .. MaxUevents
    /\ {target_inserted, waiting} \subseteq BOOLEAN
    /\ modeswitch \in [Forks -> {"none", "alive", "daemon", "zombie", "reaped"}]
    /\ switches \in 0 .. MaxUevents

TgmdInit ==
    /\ Init
    /\ uevents = << >> /\ seqnum = 0
    /\ target_inserted = FALSE
    /\ waiting = FALSE
    /\ modeswitch = [m \in Forks |-> "none"]
    /\ switches = 0

\* the modem in the mode of a disk is plugged in, or some USB device removed
Uevent ==
    /\ seqnum < MaxUevents
    /\ seqnum' = seqnum + 1
    /\ \E action \in {"add", "remove"} : uevents' = Append(uevents, action)
    /\ UNCHANGED <<vars, target_inserted, waiting, modeswitch, switches>>

HandleUevent(action) ==
    /\ ~waiting
    /\ uevents # << >> /\ Head(uevents) = action
    /\ uevents' = Tail(uevents)
    /\ UNCHANGED <<vars, seqnum>>

\* check_uevent: fork and wait.  The child may be one that cannot execute
\* usb_modeswitch and runs on in tgmd's code, or there may be none.
AddTarget ==
    /\ HandleUevent("add") /\ ~target_inserted
    /\ target_inserted' = TRUE
    /\ waiting' = TRUE
    /\ switches' = switches + 1
    /\ \E m \in {"alive", "none"} \cup (IF ExecMayFail THEN {"daemon"} ELSE {}) :
          modeswitch' = [modeswitch EXCEPT ![switches + 1] = m]

RemoveTarget ==
    /\ HandleUevent("remove") /\ target_inserted
    /\ target_inserted' = FALSE
    /\ UNCHANGED <<waiting, modeswitch, switches>>

IgnoreUevent ==
    /\ \/ HandleUevent("add") /\ target_inserted
       \/ HandleUevent("remove") /\ ~target_inserted
    /\ UNCHANGED <<target_inserted, waiting, modeswitch, switches>>

\* the daemon has the same socket, where it takes uevents away
DaemonTakes ==
    /\ \E m \in Forks : modeswitch[m] = "daemon"
    /\ uevents # << >>
    /\ uevents' = Tail(uevents)
    /\ UNCHANGED <<vars, seqnum, target_inserted, waiting, modeswitch, switches>>

\* Mutant: wait goes on when there is no child.
WaitUntilReaped ==
    /\ waiting
    /\ waiting' = FALSE
    /\ \/ \E m \in Forks : /\ modeswitch[m] = "zombie"
                           /\ modeswitch' = [modeswitch EXCEPT ![m] = "reaped"]
                           /\ UNCHANGED child
       \/ \E d \in Dials : /\ child[d] = "zombie"
                           /\ child' = [child EXCEPT ![d] = "reaped"]
                           /\ UNCHANGED modeswitch
    /\ UNCHANGED <<stateVars, main, dispatch, timers, readers, pppdVars, s_pppd_mutex,
                   waiterVars, dials, notes, ended, uevents, seqnum, target_inserted,
                   switches>>

\* wait reaps a child that has ended, or fails when there is none at all
Wait ==
    /\ waiting
    /\ waiting' = FALSE
    /\ \/ \E m \in Forks : /\ modeswitch[m] = "zombie"
                           /\ modeswitch' = [modeswitch EXCEPT ![m] = "reaped"]
                           /\ UNCHANGED child
       \/ \E d \in Dials : /\ child[d] = "zombie"
                           /\ child' = [child EXCEPT ![d] = "reaped"]
                           /\ UNCHANGED modeswitch
       \/ /\ \A m \in Forks : modeswitch[m] \in {"none", "reaped"}
          /\ \A d \in Dials : ~Exists(d)
          /\ UNCHANGED <<child, modeswitch>>
    /\ UNCHANGED <<stateVars, main, dispatch, timers, readers, pppdVars, s_pppd_mutex,
                   waiterVars, dials, notes, ended, uevents, seqnum, target_inserted,
                   switches>>

ModeswitchEnds(m) ==
    /\ modeswitch[m] = "alive"
    /\ modeswitch' = [modeswitch EXCEPT ![m] = "zombie"]
    /\ UNCHANGED <<vars, uevents, seqnum, target_inserted, waiting, switches>>

TgmdStep == AddTarget \/ RemoveTarget \/ IgnoreUevent \/ Wait

TgmdNext ==
    \/ Next /\ UNCHANGED ueventVars
    \/ /\ ~ended
       /\ \/ Uevent \/ TgmdStep \/ DaemonTakes
          \/ \E m \in Forks : ModeswitchEnds(m)

TgmdSpec == TgmdInit /\ [][TgmdNext]_tgmdVars

\* usb_modeswitch ends
TgmdFairSpec ==
    /\ TgmdSpec
    /\ Fairness
    /\ WF_tgmdVars(~ended /\ TgmdStep)
    /\ \A m \in Forks : WF_tgmdVars(~ended /\ ModeswitchEnds(m))

-----------------------------------------------------------------------------
(* Properties.                                                              *)

Daemon == \E m \in Forks : modeswitch[m] = "daemon"

\* nothing but a pppd is left to wait for
OnlyPppd ==
    /\ waiting
    /\ \A m \in Forks : modeswitch[m] \in {"none", "reaped"}
    /\ \E d \in Dials : child[d] = "alive"

\* Uevents are handled in the end, though the main thread waits for a child in
\* between, others reap children too, and pppd may be reaped in place of
\* usb_modeswitch (tgmd.c:129-137).  Two cases are left in which it may wait for
\* ever: usb_modeswitch cannot be executed, or fork has failed and pppd runs.
UeventsHandled ==
    uevents # << >> ~> uevents = << >> \/ Daemon \/ OnlyPppd \/ ended
=============================================================================
