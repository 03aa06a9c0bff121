---------------------------- MODULE BatteryPolling ----------------------------
(***************************************************************************)
(* BatteryLevelController and the singleton it shares callers with,        *)
(* InfoWebSocket. Each bean has a lock a call holds until it returns and   *)
(* waits for at most five seconds (docker/standalone.xml). A message takes *)
(* the lock of InfoWebSocket and then that of the controller; the timer of *)
(* the controller takes them the other way round.                          *)
(*                                                                         *)
(* Only the timer ever holds the controller's lock while it waits, so a    *)
(* message does its work in the step that gets that lock and returns. All  *)
(* waits are equally long: the call that has waited longest times out      *)
(* first. A level is fresh for three minutes after its report.             *)
(***************************************************************************)
EXTENDS Naturals, SequencesExt

CONSTANTS
    Device,
    Thread,         \* the threads that deliver messages
    Routed,         \* the devices getSinkSession finds a session for
    MaxMessages     \* bound: how many messages arrive

Timer == "timer"
Free == "free"

ASSUME BatteryAssumption ==
    /\ {Timer, Free} \cap Thread = {}
    /\ Routed \in SUBSET Device
    /\ MaxMessages \in Nat

VARIABLES
    level,              \* batteryLevelMapping: what is known of each device
    batteryLevelsToCheck,
    message,            \* the message each thread delivers
    asking,             \* the device the timer is busy with, as a set
    telling,            \* has the timer found no session for it?
    iws, blc,           \* who holds the lock of which bean
    waits,              \* who waits for a lock, longest first
    asked, told,        \* devices asked, or reported with BLC_002, by the last step
    arrived             \* how many messages have arrived

vars == <<level, batteryLevelsToCheck, message, asking, telling, iws, blc, waits,
          asked, told, arrived>>

Level == {"none", "fresh", "expired"}
NoMessage == [kind |-> "none", devices |-> {}]
Check(S) == [kind |-> "check", devices |-> S]
Report(d) == [kind |-> "report", devices |-> {d}]

Caller == Thread \cup {Timer}
Waiting(c) == c \in ToSet(waits)

(* Those who wait, without c. *)
Without(c) == RemoveAt(waits, CHOOSE i \in DOMAIN waits : waits[i] = c)

TypeOK ==
    /\ level \in [Device -> Level]
    /\ batteryLevelsToCheck \in SUBSET Device
    /\ message \in [Thread -> [kind : {"none", "check", "report"}, devices : SUBSET Device]]
    /\ asking \in SUBSET batteryLevelsToCheck
    /\ telling \in BOOLEAN
    /\ iws \in Caller \cup {Free} /\ blc \in {Timer, Free}
    /\ waits \in Seq(Caller) /\ IsInjective(waits)
    /\ blc = Timer <=> asking # {}

Init ==
    /\ level = [d \in Device |-> "none"]
    /\ batteryLevelsToCheck = {}
    /\ message = [t \in Thread |-> NoMessage]
    /\ asking = {} /\ telling = FALSE
    /\ iws = Free /\ blc = Free
    /\ waits = <<>>
    /\ asked = {} /\ told = {}
    /\ arrived = 0
------------------------------------------------------------------------------
(* Messages.                                                                 *)

Silently == asked' = {} /\ told' = {}

(* A CHECK_BATTERY_LEVEL of a frontend or a stat of a device. *)
Arrive(t, m) ==
    /\ message[t] = NoMessage
    /\ arrived < MaxMessages
    /\ arrived' = arrived + 1
    /\ message' = [message EXCEPT ![t] = m]
    /\ waits' = Append(waits, t)
    /\ Silently
    /\ UNCHANGED <<level, batteryLevelsToCheck, asking, telling, iws, blc>>

(* handleMessage gets the lock of InfoWebSocket and goes on to the controller. *)
HandleMessage(t) ==
    /\ Waiting(t)
    /\ iws = Free
    /\ iws' = t
    /\ waits' = Append(Without(t), t)
    /\ Silently
    /\ UNCHANGED <<level, batteryLevelsToCheck, message, asking, telling, blc, arrived>>

Return(t) ==
    /\ message' = [message EXCEPT ![t] = NoMessage]
    /\ waits' = Without(t)
    /\ iws' = IF iws = t THEN Free ELSE iws
    /\ Silently

(* checkBatteryLevels: what is not known or expired will be asked for. *)
CheckBatteryLevels(t) ==
    /\ iws = t /\ blc = Free
    /\ message[t].kind = "check"
    /\ batteryLevelsToCheck' =
         batteryLevelsToCheck \cup {d \in message[t].devices : level[d] # "fresh"}
    /\ Return(t)
    /\ UNCHANGED <<level, asking, telling, blc, arrived>>

(* updateBatteryLevel; InfoWebSocket's lock is reentrant. *)
UpdateBatteryLevel(t) ==
    /\ iws = t /\ blc = Free
    /\ message[t].kind = "report"
    /\ level' = [d \in Device |-> IF d \in message[t].devices THEN "fresh" ELSE level[d]]
    /\ Return(t)
    /\ UNCHANGED <<batteryLevelsToCheck, asking, telling, blc, arrived>>

(* Locks that are waited for without end. *)
WaitsOn(c) == FALSE

(* Whoever has waited five seconds gets a ConcurrentAccessTimeoutException. *)
TimesOut(c) ==
    /\ waits # <<>> /\ Head(waits) = c
    /\ IF iws = c THEN blc # Free ELSE iws # Free

(* The message is lost. *)
MessageTimesOut(t) ==
    /\ TimesOut(t)
    /\ Return(t)
    /\ UNCHANGED <<level, batteryLevelsToCheck, asking, telling, blc, arrived>>
------------------------------------------------------------------------------
(* The timer without the controller's lock: it may fire while it is still    *)
(* busy.                                                                     *)
AskServerUnlocked(d) ==
    /\ d \in batteryLevelsToCheck
    /\ blc' = Timer
    /\ asking' = {d} /\ telling' = FALSE
    /\ waits' = Append(waits, Timer)
    /\ Silently
    /\ UNCHANGED <<level, batteryLevelsToCheck, message, iws, arrived>>

(* askServerAboutBatteryLevel, every 100 ms: the next device of the set.     *)
AskServer(d) ==
    /\ blc = Free
    /\ d \in batteryLevelsToCheck
    /\ blc' = Timer
    /\ asking' = {d} /\ telling' = FALSE
    /\ waits' = Append(waits, Timer)
    /\ Silently
    /\ UNCHANGED <<level, batteryLevelsToCheck, message, iws, arrived>>

(* The iterator's remove after the catch instead of in the finally. *)
KeepDevice == UNCHANGED batteryLevelsToCheck

(* The set cleared instead. *)
RemoveAll == batteryLevelsToCheck' = {}

RemoveDevice == batteryLevelsToCheck' = batteryLevelsToCheck \ asking

TimerReturns ==
    /\ RemoveDevice
    /\ blc' = Free
    /\ asking' = {} /\ telling' = FALSE
    /\ waits' = Without(Timer)
    /\ UNCHANGED <<level, message, iws, arrived>>

(* A session is found and the device asked ... *)
AskDevice ==
    /\ blc = Timer /\ iws = Free /\ ~telling
    /\ asking \subseteq Routed
    /\ asked' = asking /\ told' = {}
    /\ TimerReturns

(* ... or not, and the sessions of the frontends are fetched ... *)
NoSinkSession ==
    /\ blc = Timer /\ iws = Free /\ ~telling
    /\ ~(asking \subseteq Routed)
    /\ telling' = TRUE
    /\ waits' = Append(Without(Timer), Timer)
    /\ Silently
    /\ UNCHANGED <<level, batteryLevelsToCheck, message, asking, iws, blc, arrived>>

(* ... to tell them BLC_002. *)
TellFrontends ==
    /\ blc = Timer /\ iws = Free /\ telling
    /\ told' = asking /\ asked' = {}
    /\ TimerReturns

(* The exception leaves the method, but not without the finally. *)
TimerTimesOut ==
    /\ blc = Timer
    /\ TimesOut(Timer)
    /\ Silently
    /\ TimerReturns

Expire(d) ==
    /\ level[d] = "fresh"
    /\ level' = [level EXCEPT ![d] = "expired"]
    /\ Silently
    /\ UNCHANGED <<batteryLevelsToCheck, message, asking, telling, iws, blc, waits, arrived>>
------------------------------------------------------------------------------
Serve(t) ==
    \/ HandleMessage(t)
    \/ CheckBatteryLevels(t)
    \/ UpdateBatteryLevel(t)
    \/ MessageTimesOut(t)

RunTimer ==
    \/ \E d \in Device : AskServer(d)
    \/ AskDevice
    \/ NoSinkSession
    \/ TellFrontends
    \/ TimerTimesOut

Next ==
    \/ \E t \in Thread :
         \/ Serve(t)
         \/ \E S \in SUBSET Device \ {{}} : Arrive(t, Check(S))
         \/ \E d \in Device : Arrive(t, Report(d))
    \/ RunTimer
    \/ \E d \in Device : Expire(d)

Spec == Init /\ [][Next]_vars

(* A call goes on when it has its lock or has waited five seconds, and the   *)
(* interval timer fires.                                                     *)
Fairness == WF_vars(RunTimer) /\ \A t \in Thread : WF_vars(Serve(t))

FairSpec == Spec /\ Fairness
------------------------------------------------------------------------------
(* Every message comes to an end, although a message and the timer may each  *)
(* hold the lock the other waits for: one of the two times out.              *)
MessagesEnd == \A t \in Thread : (message[t] # NoMessage) ~> (message[t] = NoMessage)

(* No device stays among those to be asked, whatever the frontends check     *)
(* meanwhile and whether or not the timer got its locks.                     *)
ChecksLeave ==
    \A d \in Device : (d \in batteryLevelsToCheck) ~> (d \notin batteryLevelsToCheck)

(* A device is given up unasked only when the timer and a message wait for   *)
(* each other's lock, and only the device the timer is at: whatever else     *)
(* comes in between, the timer asks or tells (askServerAboutBatteryLevel).   *)
DroppedOnlyInDeadlock ==
    [][\A d \in batteryLevelsToCheck :
         \/ d \in batteryLevelsToCheck' \/ d \in asked' \/ d \in told'
         \/ /\ d \in asking /\ blc = Timer
            /\ \E t \in Thread : iws = t /\ Waiting(t)]_vars

(* checkBatteryLevels says a device whose level is not in memory is asked:   *)
(* none leaves the set without a question to it or BLC_002 to the frontends. *)
AskedOrTold ==
    [][\A d \in batteryLevelsToCheck :
         d \in batteryLevelsToCheck' \/ d \in asked' \/ d \in told']_vars
==============================================================================
