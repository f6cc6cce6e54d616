----------------------------- MODULE TgmdProofs -----------------------------
(***************************************************************************)
(* Theorems about tgmd beside a data connection, Tgmd, for any number of    *)
(* dials, of openings of the device and of uevents, and whether             *)
(* usb_modeswitch can be executed or not.                                   *)
(*                                                                         *)
(* tgmd's main thread disturbs the connection in one way only: its wait may *)
(* reap a pppd before the thread that waits for that pppd does.  The        *)
(* invariant PppdInv of the connection allows for it.                       *)
(***************************************************************************)
EXTENDS Tgmd, PppdProofs

-----------------------------------------------------------------------------
(* The inductive invariant.                                                 *)

\* each fork of usb_modeswitch and each uevent in the socket is for a uevent
\* that there was
SwitchesInv ==
    /\ switches + Len(uevents) <= seqnum
    /\ \A m \in Forks : m > switches => modeswitch[m] = "none"

TgmdInv == PppdInv /\ TgmdTypeOK /\ SwitchesInv

\* tgmd starts, and mainLoop with it
LEMMA TgmdInvInit == TgmdInit => TgmdInv
  <1> SUFFICES ASSUME TgmdInit PROVE TgmdInv
    OBVIOUS
  <1>1. PppdInv /\ TypeOK
    BY PppdInvInit DEF TgmdInit, PppdInv
  <1>2. uevents \in Seq({"add", "remove"}) /\ Len(uevents) = 0
    BY DEF TgmdInit
  <1>3. modeswitch \in [Forks -> {"none", "alive", "daemon", "zombie", "reaped"}]
    BY DEF TgmdInit
  <1>4. {target_inserted, waiting} \subseteq BOOLEAN
    BY DEF TgmdInit
  <1>5. seqnum = 0 /\ switches = 0 /\ 0 \in 0 .. MaxUevents
    BY UeventsAssumption DEF TgmdInit
  <1>6. SwitchesInv
    BY <1>2, <1>5 DEF TgmdInit, SwitchesInv
  <1>7. TgmdTypeOK
    BY <1>1, <1>2, <1>3, <1>4, <1>5 DEF TgmdTypeOK
  <1> QED  BY <1>1, <1>6, <1>7 DEF TgmdInv

\* What is in the socket: a uevent is put in at the end and taken from the front.
LEMMA TailOfUevents ==
    ASSUME TgmdTypeOK, uevents # << >>
    PROVE  Tail(uevents) \in Seq({"add", "remove"}) /\ Len(Tail(uevents)) = Len(uevents) - 1
  BY DEF TgmdTypeOK

-----------------------------------------------------------------------------
(* The connection beside tgmd.                                              *)

\* The wait takes the end of the present pppd away from its waiter, at most,
\* which will find no such child and report the end all the same.
LEMMA ReapingKeepsPppd ==
    ASSUME PppdInv, NEW d \in Dials, child[d] = "zombie",
           child' = [child EXCEPT ![d] = "reaped"],
           UNCHANGED <<stateVars, main, dispatch, timers, readers, pppdVars, s_pppd_mutex,
                       waiterVars, dials, notes, ended>>
    PROVE  PppdInv'
  <1> USE DEF stateVars, readers, pppdVars, waiterVars
  <1>1. TypeOK'
    BY DEF PppdInv, TypeOK
  <1>2. PlacesInv' /\ NotesInv' /\ Outcome' /\ ClosedInv' /\ CloseNotMissed'
    BY DEF PppdInv, PlacesInv, NotesInv, Outcome, ClosedInv, CloseNotMissed, Dialling
  <1>3. \A e \in Dials : /\ child'[e] = "none" <=> child[e] = "none"
                         /\ child[e] = "reaped" => child'[e] = "reaped"
    BY DEF PppdInv, TypeOK
  <1>4. ForkFailed' <=> ForkFailed
    BY <1>3, BoundsAssumption DEF ForkFailed, PppdInv, TypeOK, Dials
  <1>5. WaitersInv => WaitersInv'
    BY <1>3 DEF WaitersInv
  <1> QED  BY <1>1, <1>2, <1>4, <1>5 DEF PppdInv

\* nothing of the connection changes
LEMMA PppdInvStays ==
    ASSUME PppdInv, UNCHANGED vars PROVE PppdInv'
  BY PppdInvNext

-----------------------------------------------------------------------------
(* Each step.                                                               *)

\* a uevent arrives, or is taken away by a child that runs tgmd's code
LEMMA UeventKeeps ==
    ASSUME TgmdInv, Uevent \/ DaemonTakes PROVE TgmdInv'
  <1>1. PppdInv'
    BY PppdInvStays DEF TgmdInv, Uevent, DaemonTakes
  <1>2. CASE Uevent
    <2>1. PICK action \in {"add", "remove"} : uevents' = Append(uevents, action)
      BY <1>2 DEF Uevent
    <2>2. uevents' \in Seq({"add", "remove"}) /\ Len(uevents') = Len(uevents) + 1
      BY <2>1 DEF TgmdInv, TgmdTypeOK
    <2> QED
      BY <1>1, <1>2, <2>2, UeventsAssumption
      DEF TgmdInv, TgmdTypeOK, SwitchesInv, Uevent, PppdInv, Forks
  <1>3. CASE DaemonTakes
    BY <1>1, <1>3, TailOfUevents, UeventsAssumption
    DEF TgmdInv, TgmdTypeOK, SwitchesInv, DaemonTakes, PppdInv, Forks
  <1> QED  BY <1>2, <1>3

\* check_uevent, up to the wait
LEMMA HandleUeventKeeps ==
    ASSUME TgmdInv, AddTarget \/ RemoveTarget \/ IgnoreUevent PROVE TgmdInv'
  <1> PICK action \in {"add", "remove"} : HandleUevent(action)
    BY DEF AddTarget, RemoveTarget, IgnoreUevent
  <1>1. PppdInv'
    BY PppdInvStays DEF TgmdInv, HandleUevent
  <1>2. /\ uevents' \in Seq({"add", "remove"}) /\ Len(uevents') = Len(uevents) - 1
        /\ seqnum' = seqnum
    BY TailOfUevents DEF TgmdInv, HandleUevent
  <1>3. CASE AddTarget
    <2>1. switches + 1 \in 1 .. MaxUevents
      BY <1>2, UeventsAssumption DEF TgmdInv, TgmdTypeOK, SwitchesInv
    <2>2. PICK m \in {"alive", "none", "daemon"} :
              modeswitch' = [modeswitch EXCEPT ![switches + 1] = m]
      BY <1>3 DEF AddTarget
    <2>3. modeswitch' \in [Forks -> {"none", "alive", "daemon", "zombie", "reaped"}]
      BY <2>2 DEF TgmdInv, TgmdTypeOK
    <2>4. \A f \in Forks : f > switches + 1 => modeswitch'[f] = "none"
      BY <2>1, <2>2 DEF TgmdInv, TgmdTypeOK, SwitchesInv, Forks
    <2> QED
      BY <1>1, <1>2, <1>3, <2>1, <2>3, <2>4
      DEF TgmdInv, TgmdTypeOK, SwitchesInv, AddTarget, PppdInv
  <1>4. CASE RemoveTarget \/ IgnoreUevent
    <2>1. UNCHANGED <<waiting, modeswitch, switches>> /\ target_inserted' \in BOOLEAN
      BY <1>4 DEF RemoveTarget, IgnoreUevent, TgmdInv, TgmdTypeOK
    <2>2. Len(uevents') <= seqnum' /\ switches' + Len(uevents') <= seqnum'
      BY <1>2, <2>1, UeventsAssumption DEF TgmdInv, TgmdTypeOK, SwitchesInv
    <2> QED
      BY <1>1, <1>2, <2>1, <2>2 DEF TgmdInv, TgmdTypeOK, SwitchesInv, PppdInv
  <1> QED  BY <1>3, <1>4

\* usb_modeswitch ends, or a child is waited for
LEMMA WaitKeeps ==
    ASSUME TgmdInv, Wait \/ \E m \in Forks : ModeswitchEnds(m) PROVE TgmdInv'
  <1>1. PppdInv'
    <2>1. CASE UNCHANGED vars
      BY <2>1, PppdInvStays DEF TgmdInv
    <2>2. ASSUME Wait, NEW d \in Dials, child[d] = "zombie",
                 child' = [child EXCEPT ![d] = "reaped"]
          PROVE  PppdInv'
      BY <2>2, ReapingKeepsPppd DEF TgmdInv, Wait
    <2>3. CASE Wait /\ UNCHANGED child
      BY <2>1, <2>3 DEF Wait, vars, callVars, childVars
    <2> QED  BY <2>1, <2>2, <2>3 DEF Wait, ModeswitchEnds
  <1>2. UNCHANGED <<uevents, seqnum, target_inserted, switches>> /\ waiting' \in BOOLEAN
    BY DEF Wait, ModeswitchEnds, TgmdInv, TgmdTypeOK
  <1>3. /\ modeswitch' \in [Forks -> {"none", "alive", "daemon", "zombie", "reaped"}]
        /\ \A m \in Forks : modeswitch[m] = "none" => modeswitch'[m] = "none"
    BY DEF Wait, ModeswitchEnds, TgmdInv, TgmdTypeOK
  <1> QED
    BY <1>1, <1>2, <1>3 DEF TgmdInv, TgmdTypeOK, SwitchesInv, PppdInv

LEMMA TgmdInvNext ==
    ASSUME TgmdInv, [TgmdNext]_tgmdVars PROVE TgmdInv'
  <1>1. CASE [Next]_vars /\ UNCHANGED ueventVars
    <2>1. PppdInv'
      BY <1>1, PppdInvNext DEF TgmdInv
    <2> QED
      BY <1>1, <2>1 DEF TgmdInv, TgmdTypeOK, SwitchesInv, PppdInv, ueventVars
  <1> QED
    BY <1>1, UeventKeeps, HandleUeventKeeps, WaitKeeps
    DEF TgmdNext, TgmdStep, tgmdVars

LEMMA TgmdInvInvariant == TgmdSpec => []TgmdInv
  BY TgmdInvInit, TgmdInvNext, PTL DEF TgmdSpec

-----------------------------------------------------------------------------
(* The theorems.                                                            *)

\* Every variable of tgmd keeps its type: no more forks of usb_modeswitch than
\* uevents (tgmd.c, check_uevent).
THEOREM TgmdTypeCorrect == TgmdSpec => []TgmdTypeOK
  BY TgmdInvInvariant, PTL DEF TgmdInv

\* The modem is handed over to pppd in tgmd as a whole: also when the main
\* thread, waiting for usb_modeswitch, reaps the pppd in place of its waiter
\* (tgmd.c, check_uevent; huawei-tgm.c, waitForPPPDTerminated).
THEOREM TgmdHandsOver == TgmdSpec => []HandedOver
  BY TgmdInvInvariant, WaitersHandOver, PTL DEF TgmdInv

\* Nor does it confuse what clients are told of a dial: the end of a pppd that
\* the main thread has reaped is reported like any other.
THEOREM TgmdOutcome == TgmdSpec => []Outcome
  BY TgmdInvInvariant, PTL DEF TgmdInv, PppdInv

\* waitForClose misses no close of the channel in tgmd as a whole.
THEOREM TgmdCloseNotMissed == TgmdSpec => []CloseNotMissed
  BY TgmdInvInvariant, PTL DEF TgmdInv, PppdInv
=============================================================================
