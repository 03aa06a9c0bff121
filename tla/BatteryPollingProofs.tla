------------------------- MODULE BatteryPollingProofs -------------------------
(***************************************************************************)
(* What BatteryPolling keeps for any devices, threads and messages: types, *)
(* that a caller waits for one lock at a time, and that a device is only   *)
(* given up when the timer and a message hold each other up.               *)
(***************************************************************************)
EXTENDS BatteryPolling, SequenceTheorems, TLAPS

(* A thread waits for as long as it has a message, the timer for as long as  *)
(* it has its own lock; and whoever holds InfoWebSocket still waits: for the *)
(* controller, as it would have returned otherwise.                          *)
Waits ==
    /\ \A t \in Thread : Waiting(t) <=> message[t] # NoMessage
    /\ Waiting(Timer) <=> blc = Timer
    /\ iws # Free => iws \in Thread /\ Waiting(iws)

IInv == TypeOK /\ Waits
------------------------------------------------------------------------------
(* The queue.                                                                *)

(* RemoveAt takes out one element and moves those behind it up. *)
LEMMA RemoveAtElements ==
    ASSUME NEW S, NEW s \in Seq(S), NEW i \in DOMAIN s
    PROVE  /\ RemoveAt(s, i) \in Seq(S)
           /\ Len(RemoveAt(s, i)) = Len(s) - 1
           /\ \A j \in 1..(Len(s) - 1) :
                RemoveAt(s, i)[j] = IF j < i THEN s[j] ELSE s[j + 1]
<1> DEFINE front == SubSeq(s, 1, i - 1)
           back == SubSeq(s, i + 1, Len(s))
<1>1. i \in 1..Len(s) /\ Len(s) \in Nat
  BY LenProperties
<1>2. /\ front \in Seq(S) /\ Len(front) = i - 1
      /\ \A j \in 1..(i - 1) : front[j] = s[j]
  BY <1>1, SubSeqProperties
<1>3. /\ back \in Seq(S) /\ Len(back) = Len(s) - i
      /\ \A j \in 1..(Len(s) - i) : back[j] = s[i + j]
  BY <1>1, SubSeqProperties
<1> HIDE DEF front, back
<1>4. /\ front \o back \in Seq(S)
      /\ Len(front \o back) = Len(front) + Len(back)
      /\ \A j \in 1..(Len(front) + Len(back)) :
           (front \o back)[j] = IF j <= Len(front) THEN front[j] ELSE back[j - Len(front)]
  BY <1>2, <1>3, ConcatProperties
<1>5. RemoveAt(s, i) = front \o back
  BY DEF RemoveAt, front, back
<1>6. ASSUME NEW j \in 1..(Len(s) - 1)
      PROVE  (front \o back)[j] = IF j < i THEN s[j] ELSE s[j + 1]
  <2>1. /\ i \in Nat /\ j \in Nat /\ Len(s) \in Nat
        /\ 1 <= i /\ i <= Len(s) /\ 1 <= j /\ j <= Len(s) - 1
    BY <1>1
  <2>2. Len(front) = i - 1 /\ Len(back) = Len(s) - i
    BY <1>2, <1>3
  <2>3. j \in 1..(Len(front) + Len(back))
    BY <2>1, <2>2
  <2>4. CASE j < i
    <3>1. j \in 1..(i - 1)
      BY <2>1, <2>4
    <3>2. j <= Len(front)
      BY <2>1, <2>2, <2>4
    <3>3. (front \o back)[j] = front[j]
      BY <1>4, <2>3, <3>2
    <3>4. front[j] = s[j]
      BY <1>2, <3>1
    <3>5. QED
      BY <2>4, <3>3, <3>4
  <2>5. CASE ~(j < i)
    <3>1. j - (i - 1) \in 1..(Len(s) - i)
      BY <2>1, <2>5
    <3>2. i + (j - (i - 1)) = j + 1
      BY <2>1
    <3>3. ~(j <= Len(front))
      BY <2>1, <2>2, <2>5
    <3>4. (front \o back)[j] = back[j - (i - 1)]
      BY <1>4, <2>2, <2>3, <3>3
    <3>5. back[j - (i - 1)] = s[j + 1]
      BY <1>3, <3>1, <3>2
    <3>6. QED
      BY <2>5, <3>4, <3>5
  <2>6. QED
    BY <2>4, <2>5
<1>7. Len(front \o back) = Len(s) - 1
  BY <1>1, <1>2, <1>3, <1>4
<1>8. \A j \in 1..(Len(s) - 1) : (front \o back)[j] = IF j < i THEN s[j] ELSE s[j + 1]
  BY <1>6
<1>9. QED
  BY <1>4, <1>5, <1>7, <1>8

(* Whoever comes new stands once in the queue. *)
LEMMA Joined ==
    ASSUME NEW S, NEW s \in Seq(S), IsInjective(s), NEW c \in S, c \notin ToSet(s)
    PROVE  /\ Append(s, c) \in Seq(S) /\ IsInjective(Append(s, c))
           /\ ToSet(Append(s, c)) = ToSet(s) \cup {c}
<1>1. /\ Append(s, c) \in Seq(S) /\ Len(s) \in Nat
      /\ DOMAIN s = 1..Len(s) /\ DOMAIN Append(s, c) = 1..(Len(s) + 1)
      /\ \A i \in 1..Len(s) : Append(s, c)[i] = s[i]
      /\ Append(s, c)[Len(s) + 1] = c
  BY AppendProperties, LenProperties
<1>2. IsInjective(Append(s, c))
  BY <1>1 DEF IsInjective, ToSet
<1>3. ToSet(Append(s, c)) = ToSet(s) \cup {c}
  BY <1>1 DEF ToSet
<1>4. QED
  BY <1>1, <1>2, <1>3

(* Whoever leaves stands in it no more, and the others still once. *)
LEMMA Left ==
    ASSUME NEW S, waits \in Seq(S), IsInjective(waits), NEW c \in ToSet(waits)
    PROVE  /\ Without(c) \in Seq(S) /\ IsInjective(Without(c))
           /\ ToSet(Without(c)) = ToSet(waits) \ {c}
<1> DEFINE i == CHOOSE i \in DOMAIN waits : waits[i] = c
           rest == Without(c)
<1>1. i \in DOMAIN waits /\ waits[i] = c /\ rest = RemoveAt(waits, i)
  BY DEF ToSet, Without
<1>2. /\ DOMAIN waits = 1..Len(waits) /\ Len(waits) \in Nat /\ i \in 1..Len(waits)
  BY <1>1, LenProperties
<1> HIDE DEF i, rest
<1>3. /\ rest \in Seq(S) /\ DOMAIN rest = 1..(Len(waits) - 1)
      /\ \A j \in 1..(Len(waits) - 1) :
           rest[j] = IF j < i THEN waits[j] ELSE waits[j + 1]
  BY <1>1, RemoveAtElements, LenProperties
<1> DEFINE at(j) == IF j < i THEN j ELSE j + 1
<1>4. \A j \in 1..(Len(waits) - 1) :
        at(j) \in DOMAIN waits /\ at(j) # i /\ rest[j] = waits[at(j)]
  BY <1>2, <1>3
<1>5. \A j, k \in 1..(Len(waits) - 1) : at(j) = at(k) => j = k
  BY <1>2
<1>6. \A k \in DOMAIN waits \ {i} : \E j \in 1..(Len(waits) - 1) : k = at(j)
  <2> SUFFICES ASSUME NEW k \in 1..Len(waits), k # i
               PROVE  \E j \in 1..(Len(waits) - 1) : k = at(j)
    BY <1>2
  <2>1. CASE k < i
    <3>1. k \in 1..(Len(waits) - 1) /\ k = at(k)
      BY <1>2, <2>1
    <3>2. QED
      BY <3>1
  <2>2. CASE k > i
    <3>1. k - 1 \in 1..(Len(waits) - 1) /\ k = at(k - 1)
      BY <1>2, <2>2
    <3>2. QED
      BY <3>1
  <2>3. QED
    BY <1>2, <2>1, <2>2
<1> HIDE DEF at
<1>7. IsInjective(rest)
  BY <1>3, <1>4, <1>5 DEF IsInjective
<1>8. ASSUME NEW d PROVE d \in ToSet(rest) <=> d \in ToSet(waits) \ {c}
  <2>1. d \in ToSet(rest) <=> \E j \in 1..(Len(waits) - 1) : waits[at(j)] = d
    BY <1>3, <1>4 DEF ToSet
  <2>2. d \in ToSet(waits) \ {c} <=> \E k \in DOMAIN waits \ {i} : waits[k] = d
    BY <1>1 DEF ToSet, IsInjective
  <2>3. QED
    BY <2>1, <2>2, <1>4, <1>6
<1>9. QED
  BY <1>3, <1>7, <1>8 DEF rest
------------------------------------------------------------------------------
(* The invariant.                                                            *)

LEMMA Names == Timer # Free /\ Timer \notin Thread /\ Free \notin Thread
<1>1. Timer # Free
  BY DEF Timer, Free
<1>2. QED
  BY <1>1, BatteryAssumption

LEMMA IInvInit ==
    ASSUME Init
    PROVE  IInv
<1>1. waits = <<>> /\ ToSet(waits) = {} /\ IsInjective(waits) /\ waits \in Seq(Caller)
  BY DEF Init, ToSet, IsInjective
<1>2. TypeOK
  BY <1>1, Names DEF Init, TypeOK, Level, NoMessage
<1>3. Waits
  BY <1>1, Names DEF Init, Waits, Waiting
<1>4. QED
  BY <1>2, <1>3 DEF IInv

(* A message arrives at a thread that has none. *)
LEMMA ArriveStep ==
    ASSUME IInv, NEW t \in Thread, NEW m, Arrive(t, m),
           m \in [kind : {"check", "report"}, devices : SUBSET Device]
    PROVE  IInv'
<1>1. t \in Caller /\ t \notin ToSet(waits) /\ t # Timer
  BY Names DEF IInv, Waits, Arrive, Waiting, Caller
<1>2. /\ waits' \in Seq(Caller) /\ IsInjective(waits')
      /\ ToSet(waits') = ToSet(waits) \cup {t}
  BY <1>1, Joined DEF IInv, TypeOK, Arrive
<1>3. m # NoMessage
  BY DEF NoMessage
<1>4. /\ message' \in [Thread -> [kind : {"none", "check", "report"}, devices : SUBSET Device]]
      /\ \A u \in Thread : message'[u] = IF u = t THEN m ELSE message[u]
  BY DEF IInv, TypeOK, Arrive
<1>5. TypeOK'
  BY <1>2, <1>4 DEF IInv, TypeOK, Arrive
<1>6. Waits'
  BY <1>1, <1>2, <1>3, <1>4 DEF IInv, Waits, Waiting, Arrive
<1>7. QED
  BY <1>5, <1>6 DEF IInv

(* It gets the lock of InfoWebSocket and waits for the other. *)
LEMMA HandleMessageStep ==
    ASSUME IInv, NEW t \in Thread, HandleMessage(t)
    PROVE  IInv'
<1>1. t \in Caller /\ t \in ToSet(waits)
  BY DEF HandleMessage, Waiting, Caller
<1>2. /\ Without(t) \in Seq(Caller) /\ IsInjective(Without(t))
      /\ ToSet(Without(t)) = ToSet(waits) \ {t}
  BY <1>1, Left DEF IInv, TypeOK
<1>3. /\ waits' \in Seq(Caller) /\ IsInjective(waits')
      /\ ToSet(waits') = ToSet(waits)
  <2> DEFINE rest == Without(t)
  <2>1. waits' = Append(rest, t)
    BY DEF HandleMessage
  <2>2. t \notin ToSet(rest)
    BY <1>2
  <2> HIDE DEF rest
  <2>3. /\ Append(rest, t) \in Seq(Caller) /\ IsInjective(Append(rest, t))
        /\ ToSet(Append(rest, t)) = ToSet(rest) \cup {t}
    BY <1>1, <1>2, <2>2, Joined DEF rest
  <2>4. ToSet(rest) \cup {t} = ToSet(waits)
    BY <1>1, <1>2 DEF rest
  <2>5. QED
    BY <2>1, <2>3, <2>4
<1>4. TypeOK'
  BY <1>1, <1>3 DEF IInv, TypeOK, HandleMessage
<1>5. Waits'
  BY <1>1, <1>3 DEF IInv, Waits, Waiting, HandleMessage
<1>6. QED
  BY <1>4, <1>5 DEF IInv

(* The call returns, however it ends. *)
LEMMA ReturnStep ==
    ASSUME IInv, NEW t \in Thread, Waiting(t), Return(t),
           UNCHANGED <<asking, telling, blc>>,
           level' \in [Device -> Level],
           batteryLevelsToCheck' \in SUBSET Device,
           batteryLevelsToCheck \subseteq batteryLevelsToCheck'
    PROVE  IInv'
<1>1. t \in Caller /\ t \in ToSet(waits) /\ t # Timer /\ t # Free
  BY Names DEF Waiting, Caller
<1>2. /\ waits' \in Seq(Caller) /\ IsInjective(waits')
      /\ ToSet(waits') = ToSet(waits) \ {t}
  BY <1>1, Left DEF IInv, TypeOK, Return
<1>3. /\ message' \in [Thread -> [kind : {"none", "check", "report"}, devices : SUBSET Device]]
      /\ \A u \in Thread : message'[u] = IF u = t THEN NoMessage ELSE message[u]
  BY DEF IInv, TypeOK, Return, NoMessage
<1>4. iws' \in {Free, iws} /\ iws' # t
  BY <1>1 DEF Return
<1>5. TypeOK'
  BY <1>2, <1>3, <1>4 DEF IInv, TypeOK
<1>6. Waits'
  BY <1>1, <1>2, <1>3, <1>4 DEF IInv, Waits, Waiting
<1>7. QED
  BY <1>5, <1>6 DEF IInv

LEMMA ServeStep ==
    ASSUME IInv, NEW t \in Thread, Serve(t)
    PROVE  IInv'
<1>1. CASE HandleMessage(t)
  BY <1>1, HandleMessageStep
<1>2. CASE CheckBatteryLevels(t)
  <2>1. Waiting(t)
    BY <1>2, Names DEF IInv, Waits, CheckBatteryLevels
  <2>2. message[t].devices \in SUBSET Device
    BY DEF IInv, TypeOK
  <2>3. QED
    BY <1>2, <2>1, <2>2, ReturnStep DEF CheckBatteryLevels, IInv, TypeOK
<1>3. CASE UpdateBatteryLevel(t)
  <2>1. Waiting(t)
    BY <1>3, Names DEF IInv, Waits, UpdateBatteryLevel
  <2>2. level' \in [Device -> Level]
    BY <1>3 DEF IInv, TypeOK, UpdateBatteryLevel, Level
  <2>3. QED
    BY <1>3, <2>1, <2>2, ReturnStep DEF UpdateBatteryLevel, IInv, TypeOK
<1>4. CASE MessageTimesOut(t)
  <2>1. Waiting(t)
    BY <1>4 DEF MessageTimesOut, TimesOut, Waiting, ToSet, IInv, TypeOK
  <2>2. QED
    BY <1>4, <2>1, ReturnStep DEF MessageTimesOut, IInv, TypeOK
<1>5. QED
  BY <1>1, <1>2, <1>3, <1>4 DEF Serve

(* The timer takes its own lock and waits for the other. *)
LEMMA AskServerStep ==
    ASSUME IInv, NEW d \in Device, AskServer(d)
    PROVE  IInv'
<1>1. Timer \in Caller /\ Timer \notin ToSet(waits)
  BY Names DEF IInv, Waits, Waiting, AskServer, Caller
<1>2. /\ waits' \in Seq(Caller) /\ IsInjective(waits')
      /\ ToSet(waits') = ToSet(waits) \cup {Timer}
  BY <1>1, Joined DEF IInv, TypeOK, AskServer
<1>3. TypeOK'
  BY <1>2 DEF IInv, TypeOK, AskServer
<1>4. Waits'
  BY <1>2, Names DEF IInv, Waits, Waiting, AskServer
<1>5. QED
  BY <1>3, <1>4 DEF IInv

(* It starts to wait anew. *)
LEMMA NoSinkSessionStep ==
    ASSUME IInv, NoSinkSession
    PROVE  IInv'
<1>1. Timer \in Caller /\ Timer \in ToSet(waits)
  BY DEF IInv, Waits, Waiting, NoSinkSession, Caller
<1>2. /\ Without(Timer) \in Seq(Caller) /\ IsInjective(Without(Timer))
      /\ ToSet(Without(Timer)) = ToSet(waits) \ {Timer}
  BY <1>1, Left DEF IInv, TypeOK
<1>3. /\ waits' \in Seq(Caller) /\ IsInjective(waits')
      /\ ToSet(waits') = ToSet(waits)
  <2> DEFINE rest == Without(Timer)
  <2>1. waits' = Append(rest, Timer)
    BY DEF NoSinkSession
  <2>2. Timer \notin ToSet(rest)
    BY <1>2
  <2> HIDE DEF rest
  <2>3. /\ Append(rest, Timer) \in Seq(Caller) /\ IsInjective(Append(rest, Timer))
        /\ ToSet(Append(rest, Timer)) = ToSet(rest) \cup {Timer}
    BY <1>1, <1>2, <2>2, Joined DEF rest
  <2>4. ToSet(rest) \cup {Timer} = ToSet(waits)
    BY <1>1, <1>2 DEF rest
  <2>5. QED
    BY <2>1, <2>3, <2>4
<1>4. TypeOK'
  BY <1>3 DEF IInv, TypeOK, NoSinkSession
<1>5. Waits'
  BY <1>3 DEF IInv, Waits, Waiting, NoSinkSession
<1>6. QED
  BY <1>4, <1>5 DEF IInv

LEMMA TimerReturnsStep ==
    ASSUME IInv, blc = Timer, TimerReturns
    PROVE  IInv'
<1>1. Timer \in Caller /\ Timer \in ToSet(waits)
  BY DEF IInv, Waits, Waiting, Caller
<1>2. /\ waits' \in Seq(Caller) /\ IsInjective(waits')
      /\ ToSet(waits') = ToSet(waits) \ {Timer}
  BY <1>1, Left DEF IInv, TypeOK, TimerReturns
<1>3. TypeOK'
  BY <1>2, Names DEF IInv, TypeOK, TimerReturns, RemoveDevice
<1>4. Waits'
  BY <1>2, Names DEF IInv, Waits, Waiting, TimerReturns
<1>5. QED
  BY <1>3, <1>4 DEF IInv

LEMMA IInvNext ==
    ASSUME IInv, [Next]_vars
    PROVE  IInv'
<1>1. ASSUME NEW t \in Thread, Serve(t) PROVE IInv'
  BY <1>1, ServeStep
<1>2. ASSUME NEW t \in Thread, NEW S \in SUBSET Device, Arrive(t, Check(S)) PROVE IInv'
  BY <1>2, ArriveStep DEF Check
<1>3. ASSUME NEW t \in Thread, NEW d \in Device, Arrive(t, Report(d)) PROVE IInv'
  BY <1>3, ArriveStep DEF Report
<1>4. CASE RunTimer
  BY <1>4, AskServerStep, NoSinkSessionStep, TimerReturnsStep
     DEF RunTimer, AskDevice, TellFrontends, TimerTimesOut
<1>5. ASSUME NEW d \in Device, Expire(d) PROVE IInv'
  <2>1. TypeOK'
    BY <1>5 DEF IInv, TypeOK, Expire, Level
  <2>2. Waits'
    BY <1>5 DEF IInv, Waits, Waiting, Expire
  <2>3. QED
    BY <2>1, <2>2 DEF IInv
<1>6. CASE UNCHANGED vars
  BY <1>6 DEF IInv, TypeOK, Waits, Waiting, vars
<1>7. QED
  BY <1>1, <1>2, <1>3, <1>4, <1>5, <1>6 DEF Next

------------------------------------------------------------------------------
(* What it brings.                                                           *)

(* Types, and that nobody waits twice: a caller leaves the queue before it   *)
(* joins it again.                                                           *)
THEOREM TypeInvariant == Spec => []TypeOK
<1>1. Init => IInv
  BY IInvInit
<1>2. IInv /\ [Next]_vars => IInv'
  BY IInvNext
<1>3. IInv => TypeOK
  BY DEF IInv
<1>4. QED
  BY <1>1, <1>2, <1>3, PTL DEF Spec

(* Whoever holds the lock the timer waits for waits for that of the timer. *)
LEMMA TimerHeldUp ==
    ASSUME IInv, blc = Timer, TimesOut(Timer)
    PROVE  \E t \in Thread : iws = t /\ Waiting(t)
<1>1. iws \in Thread => iws # Timer
  BY Names
<1>2. iws # Free
  BY <1>1, Names DEF TimesOut, IInv, Waits
<1>3. QED
  BY <1>2 DEF IInv, Waits

(* A device is given up unasked in no other step than one in which the timer *)
(* and a message wait for each other (askServerAboutBatteryLevel).           *)
THEOREM DroppedInvariant == Spec => DroppedOnlyInDeadlock
<1> DEFINE Kept(d) ==
      \/ d \in batteryLevelsToCheck' \/ d \in asked' \/ d \in told'
      \/ /\ d \in asking /\ blc = Timer
         /\ \E t \in Thread : iws = t /\ Waiting(t)
<1>1. ASSUME IInv, [Next]_vars PROVE \A d \in batteryLevelsToCheck : Kept(d)
  <2>1. CASE batteryLevelsToCheck \subseteq batteryLevelsToCheck'
    BY <2>1
  <2>2. CASE AskDevice \/ TellFrontends
    BY <2>2 DEF AskDevice, TellFrontends, TimerReturns, RemoveDevice
  <2>3. CASE TimerTimesOut
    BY <1>1, <2>3, TimerHeldUp DEF TimerTimesOut, TimerReturns, RemoveDevice
  <2>4. QED
    BY <1>1, <2>1, <2>2, <2>3
       DEF Next, RunTimer, Serve, HandleMessage, CheckBatteryLevels,
           UpdateBatteryLevel, MessageTimesOut, Arrive, AskServer, NoSinkSession,
           Expire, vars
<1>2. IInv /\ [Next]_vars => [\A d \in batteryLevelsToCheck : Kept(d)]_vars
  BY <1>1
<1>3. Init => IInv
  BY IInvInit
<1>4. IInv /\ [Next]_vars => IInv'
  BY IInvNext
<1>5. QED
  BY <1>2, <1>3, <1>4, PTL DEF Spec, DroppedOnlyInDeadlock
==============================================================================
