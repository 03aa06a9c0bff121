------------------------ MODULE NetworkRegistryProofs ------------------------
(***************************************************************************)
(* Proofs about NetworkRegistry, for any sinks, anchors and tags and any   *)
(* sessions of them.                                                       *)
(***************************************************************************)
EXTENDS NetworkRegistry, TLAPS

(* Two open sessions of a sink are known to be shared, and the one session   *)
(* of a sink that has answered is what sinkSessions has for it.              *)
SharedKnown ==
    \A x, y \in Open : x # y /\ SinkOf[x] = SinkOf[y] => x \in shared

AnsweredAssigned ==
    \A x \in Open \ (awaited \cup shared) : sinkSessions[SinkOf[x]] = x

SessionsOK == SharedKnown /\ AnsweredAssigned

AloneStarted == \A x \in alone : session[x] # "new"

------------------------------------------------------------------------------
(* What is in a network after a session of a set of them ended, and which    *)
(* sessions are open then (unregister).                                      *)
LEMMA CloseTypes ==
    ASSUME TypeOK, NEW x \in Session, CloseSession(x)
    PROVE  TypeOK'
<1>1. status' = [y \in Session |-> [d \in Device |->
                   IF y = x THEN "NONE" ELSE status[y][d]]]
  BY DEF CloseSession, Unregistered
<1>2. status' \in [Session -> [Device -> Status]]
  BY <1>1 DEF TypeOK, Status
<1>3. session' \in [Session -> {"new", "open", "closed"}] /\ Open' = Open \ {x}
  BY DEF TypeOK, CloseSession, Open
<1>4. \A y \in Session, d \in Device : Has(y, d)' <=> Has(y, d) /\ y # x
  BY <1>1 DEF Has
<1>5. Networks' = Networks \ {x}
  BY <1>4, RegistryAssumption DEF Networks, Device
<1>6. outdated' \subseteq Registered'
  BY <1>4 DEF CloseSession, Unregistered, TypeOK, Registered
<1>7. awaited' \subseteq Open'
  BY <1>3 DEF CloseSession, TypeOK
<1>8. \A y \in Session, d \in Device :
        Has(y, d)' => y \in Open' \cap Networks' /\ d \in {SinkOf[y]} \cup Anchor \cup Tag
  BY <1>3, <1>4, <1>5 DEF TypeOK
<1>9. QED
  BY <1>2, <1>3, <1>6, <1>7, <1>8 DEF TypeOK, CloseSession

LEMMA OpenTypes ==
    ASSUME TypeOK, NEW x \in Session, OpenSession(x)
    PROVE  TypeOK'
<1>1. session' \in [Session -> {"new", "open", "closed"}] /\ Open' = Open \cup {x}
  BY DEF TypeOK, OpenSession, Open
<1>2. /\ \A y \in Session, d \in Device : Has(y, d)' <=> Has(y, d)
      /\ Networks' = Networks /\ Registered' = Registered
  BY DEF OpenSession, Has, Networks, Registered
<1>3. shared' \subseteq Session
  BY DEF OpenSession, OthersOpen, Open, TypeOK
<1>4. awaited' \subseteq Open'
  BY <1>1 DEF OpenSession, TypeOK
<1>5. QED
  BY <1>1, <1>2, <1>3, <1>4 DEF TypeOK, OpenSession

(* Registration of a device in the network of one session: with a new sink,  *)
(* or with a network that is there already.                                  *)
LEMMA TurnOnTypes ==
    ASSUME TypeOK, NEW x \in Session, NEW d \in Device, TurnOn(x, d)
    PROVE  TypeOK'
<1>1. x \in Open /\ (d \in Sink => d = SinkOf[x])
  BY DEF TurnOn, Speaks
<1>2. Open' = Open
  BY DEF TurnOn, Open
<1>3. alone' \subseteq Session
  BY DEF TurnOn, TypeOK
<1>4. SUFFICES
        /\ status' \in [Session -> [Device -> Status]]
        /\ outdated' \subseteq Registered'
        /\ \A y \in Session, e \in Device :
             Has(y, e)' => y \in Open' \cap Networks' /\ e \in {SinkOf[y]} \cup Anchor \cup Tag
  BY <1>2, <1>3 DEF TypeOK, TurnOn
<1>5. CASE ComesBack(d)
  <2>1. status' \in [Session -> [Device -> Status]]
    BY <1>5 DEF ComesBack, TypeOK, Status
  <2>2. \A y \in Session, e \in Device : Has(y, e)' <=> Has(y, e)
    BY <1>5 DEF ComesBack, TypeOK, Status, Has
  <2>3. Networks' = Networks /\ Registered' = Registered
    BY <2>2, RegistryAssumption DEF Networks, Registered, Device
  <2>4. QED
    BY <1>2, <1>5, <2>1, <2>2, <2>3 DEF ComesBack, TypeOK
<1>6. CASE RegisterSink(x, d)
  <2>1. status' \in [Session -> [Device -> Status]]
    BY <1>6 DEF RegisterSink, TypeOK, Status
  <2>2. \A y \in Session, e \in Device : Has(y, e)' <=> Has(y, e) \/ (y = x /\ e = d)
    BY <1>6 DEF RegisterSink, TypeOK, Status, Has
  <2>3. d = SinkOf[x]
    BY <1>1, <1>6 DEF RegisterSink
  <2>4. Networks' = Networks \cup {x} /\ Registered \subseteq Registered'
    BY <2>2, <2>3, RegistryAssumption DEF Networks, Registered, Device
  <2>5. QED
    BY <1>1, <1>2, <1>6, <2>1, <2>2, <2>3, <2>4 DEF RegisterSink, TypeOK
<1>7. CASE RegisterMember(x, d)
  <2>1. status' \in [Session -> [Device -> Status]]
    BY <1>7 DEF RegisterMember, TypeOK, Status
  <2>2. \A y \in Session, e \in Device : Has(y, e)' <=>
          (y = x /\ e = d) \/ (Has(y, e) /\ ~(y = x /\ e \in Redundant(x, d)))
    BY <1>7 DEF RegisterMember, TypeOK, Status, Has
  <2>3. d \in Anchor \cup Tag /\ SinkOf[x] \notin Redundant(x, d)
    BY <1>7, RegistryAssumption DEF RegisterMember, Redundant, SameKind, Device
  <2>4. Networks' = Networks
    <3>1. \A y \in Session : SinkOf[y] \in Device /\ SinkOf[y] # d
      BY <1>7, RegistryAssumption DEF RegisterMember, Device
    <3>2. QED
      BY <2>2, <2>3, <3>1 DEF Networks
  <2>5. outdated' \subseteq Registered'
    BY <1>7, <2>2 DEF RegisterMember, TypeOK, Registered
  <2>6. QED
    BY <1>1, <1>2, <1>7, <2>1, <2>2, <2>3, <2>4, <2>5 DEF RegisterMember, TypeOK
<1>8. CASE NotRegistered(x, d)
  BY <1>2, <1>8 DEF NotRegistered, TypeOK, Has, Networks, Registered
<1>9. QED
  BY <1>5, <1>6, <1>7, <1>8 DEF TurnOn

LEMMA OtherTypes ==
    ASSUME TypeOK,
           \/ \E x \in Session, d \in Device : Version(x, d) \/ Beacon(x, d)
           \/ \E d \in Device : Silence(d)
           \/ UpdateStatuses
           \/ UNCHANGED vars
    PROVE  TypeOK'
<1>1. /\ status' \in [Session -> [Device -> Status]]
      /\ \A y \in Session, e \in Device : Has(y, e)' <=> Has(y, e)
  BY DEF Version, Beacon, Silence, UpdateStatuses, vars, TypeOK, Status, Has
<1>2. Networks' = Networks /\ Registered' = Registered
  BY <1>1, RegistryAssumption DEF Networks, Registered, Device
<1>3. Open' = Open /\ session' = session /\ shared' = shared /\ alone' = alone
  BY DEF Version, Beacon, Silence, UpdateStatuses, vars, Open
<1>4. outdated' \subseteq Registered
  BY DEF Version, Beacon, Silence, UpdateStatuses, vars, TypeOK
<1>5. awaited' \subseteq Open
  BY DEF Version, Beacon, Silence, UpdateStatuses, vars, TypeOK
<1>6. sinkSessions' \in [Device -> Session \cup {NoSession}]
  BY DEF Version, AssignSession, Beacon, Silence, UpdateStatuses, vars, TypeOK
<1>7. QED
  BY <1>1, <1>2, <1>3, <1>4, <1>5, <1>6 DEF TypeOK

LEMMA InitTypes == Init => TypeOK
  BY DEF Init, TypeOK, Has, Registered, Open, Status

LEMMA StepTypes == TypeOK /\ [Next]_vars => TypeOK'
  BY OpenTypes, CloseTypes, TurnOnTypes, OtherTypes DEF Next

(* The networks are those of open sessions, their members can be members,    *)
(* and only registered devices are taken to be outdated.                     *)
THEOREM TypeInvariant == Spec => []TypeOK
  BY InitTypes, StepTypes, PTL DEF Spec

------------------------------------------------------------------------------
(* Registration adds a device no network has, every other step only takes    *)
(* devices out of networks.                                                  *)
LEMMA EntriesStep ==
    ASSUME TypeOK, [Next]_vars
    PROVE  \/ \A x \in Session, d \in Device : Has(x, d)' => Has(x, d)
           \/ \E y \in Session, e \in Device :
                /\ e \notin Registered
                /\ \A x \in Session, d \in Device :
                     Has(x, d)' => Has(x, d) \/ (x = y /\ d = e)
<1>1. CASE \E x \in Session : OpenSession(x) \/ CloseSession(x)
  BY <1>1 DEF OpenSession, CloseSession, Has
<1>2. ASSUME NEW x \in Session, NEW d \in Device, TurnOn(x, d)
      PROVE  \/ \A y \in Session, e \in Device : Has(y, e)' => Has(y, e)
             \/ /\ d \notin Registered
                /\ \A y \in Session, e \in Device :
                     Has(y, e)' => Has(y, e) \/ (y = x /\ e = d)
  <2>1. CASE ComesBack(d) \/ NotRegistered(x, d)
    BY <2>1 DEF ComesBack, NotRegistered, Has, TypeOK, Status
  <2>2. CASE RegisterSink(x, d)
    BY <2>2 DEF RegisterSink, IsNew, Has, TypeOK, Status
  <2>3. CASE RegisterMember(x, d)
    BY <2>3 DEF RegisterMember, IsNew, Has, TypeOK, Status
  <2>4. QED
    BY <1>2, <2>1, <2>2, <2>3 DEF TurnOn
<1>3. CASE \/ \E x \in Session, d \in Device : Version(x, d) \/ Beacon(x, d)
           \/ \E d \in Device : Silence(d)
           \/ UpdateStatuses
           \/ UNCHANGED vars
  BY <1>3 DEF Version, Beacon, Silence, UpdateStatuses, vars, TypeOK, Status, Has
<1>4. QED
  BY <1>1, <1>2, <1>3 DEF Next

LEMMA StepOneNetwork == TypeOK /\ OneNetwork /\ [Next]_vars => OneNetwork'
  BY EntriesStep DEF OneNetwork, Registered

(* getDeviceStatus never has to choose between two entries of a device       *)
(* (NetworkController.getDeviceStatus, registerNewDevice).                   *)
THEOREM OneNetworkInvariant == Spec => []OneNetwork
<1>1. Init => OneNetwork
  BY DEF Init, OneNetwork, Has
<1>2. QED
  BY <1>1, TypeInvariant, StepOneNetwork, PTL DEF Spec

------------------------------------------------------------------------------
(* A network goes only with its own session, and a sink that turns on while  *)
(* its other sessions are closed finds no other network of it.               *)
LEMMA StepAloneStarted == TypeOK /\ AloneStarted /\ [Next]_vars => AloneStarted'
<1> SUFFICES ASSUME TypeOK, AloneStarted, [Next]_vars
             PROVE  AloneStarted'
  OBVIOUS
<1>1. CASE \E x \in Session : OpenSession(x) \/ CloseSession(x)
  BY <1>1 DEF OpenSession, CloseSession, AloneStarted, TypeOK
<1>2. CASE \E x \in Session, d \in Device : TurnOn(x, d)
  BY <1>2 DEF TurnOn, Speaks, Open, AloneStarted
<1>3. CASE \/ \E x \in Session, d \in Device : Version(x, d) \/ Beacon(x, d)
           \/ \E d \in Device : Silence(d)
           \/ UpdateStatuses
           \/ UNCHANGED vars
  BY <1>3 DEF Version, Beacon, Silence, UpdateStatuses, vars, AloneStarted
<1>4. QED
  BY <1>1, <1>2, <1>3 DEF Next

LEMMA StepSinkRegistered ==
    TypeOK /\ AloneStarted /\ SinkRegistered /\ [Next]_vars => SinkRegistered'
<1> SUFFICES ASSUME TypeOK, AloneStarted, SinkRegistered, [Next]_vars,
                    NEW x \in Session, x \in (Open \cap alone)', SinkOf[x] \in InDatabase
             PROVE  Has(x, SinkOf[x])'
  BY DEF SinkRegistered, Networks, Open
<1> DEFINE s == SinkOf[x]
<1>1. \A y \in Session : SinkOf[y] \in Sink /\ SinkOf[y] \in Device
  BY RegistryAssumption DEF Device
<1>2. x \in Open \cap alone => Has(x, s)
  BY DEF SinkRegistered, Networks
<1>3. ASSUME NEW y \in Session, OpenSession(y)
      PROVE  Has(x, s)'
  BY <1>2, <1>3 DEF OpenSession, AloneStarted, Open, Has, TypeOK
<1>4. ASSUME NEW y \in Session, CloseSession(y)
      PROVE  Has(x, s)'
  BY <1>1, <1>2, <1>4 DEF CloseSession, Unregistered, Open, Has, TypeOK
<1>5. ASSUME NEW y \in Session, NEW d \in Device, TurnOn(y, d)
      PROVE  Has(x, s)'
  <2>1. x \in Open /\ y \in Open /\ (d \in Sink => d = SinkOf[y])
    BY <1>5 DEF TurnOn, Speaks, Open
  <2>2. (Has(x, s) \/ (x = y /\ d = s /\ IsNew(d))) => Has(x, s)'
    <3>1. CASE ComesBack(d)
      BY <1>1, <3>1 DEF ComesBack, Has, TypeOK, Status
    <3>2. CASE RegisterSink(y, d)
      BY <1>1, <3>2 DEF RegisterSink, Has, TypeOK, Status
    <3>3. CASE RegisterMember(y, d)
      BY <1>1, <3>3, RegistryAssumption
      DEF RegisterMember, Redundant, SameKind, Has, TypeOK, Status
    <3>4. CASE NotRegistered(y, d)
      BY <1>1, <3>4 DEF NotRegistered, Has
    <3>5. QED
      BY <1>5, <3>1, <3>2, <3>3, <3>4 DEF TurnOn
  <2>3. CASE x \in alone
    BY <1>2, <2>1, <2>2, <2>3
  <2>4. CASE x \notin alone
    <3>1. x = y /\ d = s /\ OthersOpen(x) = {}
      BY <1>1, <1>5, <2>1, <2>4 DEF TurnOn
    <3>2. ~IsNew(d) => Has(x, s)
      BY <1>1, <3>1, RegistryAssumption
      DEF IsNew, Registered, OthersOpen, TypeOK, Networks
    <3>3. QED
      BY <2>2, <3>1, <3>2
  <2>5. QED
    BY <2>3, <2>4
<1>6. CASE \/ \E y \in Session, d \in Device : Version(y, d) \/ Beacon(y, d)
           \/ \E d \in Device : Silence(d)
           \/ UpdateStatuses
           \/ UNCHANGED vars
  <2>1. Open' = Open /\ alone' = alone
    BY <1>6 DEF Version, Beacon, Silence, UpdateStatuses, vars, Open
  <2>2. Has(x, s) => Has(x, s)'
    BY <1>1, <1>6 DEF Version, Beacon, Silence, UpdateStatuses, vars, Has, TypeOK
  <2>3. QED
    BY <1>2, <2>1, <2>2
<1>7. QED
  BY <1>3, <1>4, <1>5, <1>6 DEF Next

(* A sink that turned on with one session open is registered for it until it *)
(* closes (onDeviceTurnOn, NetworkController.unregister).                    *)
THEOREM SinkRegisteredInvariant == Spec => []SinkRegistered
<1>1. Init => AloneStarted /\ SinkRegistered
  BY DEF Init, AloneStarted, SinkRegistered
<1>2. QED
  BY <1>1, TypeInvariant, StepAloneStarted, StepSinkRegistered, PTL DEF Spec

------------------------------------------------------------------------------
(* The answer to the handshake assigns the session; afterwards only another  *)
(* open session of the sink, which makes both shared, could assign again.    *)
LEMMA StepSessions == TypeOK /\ SessionsOK /\ [Next]_vars => SessionsOK'
<1> SUFFICES ASSUME TypeOK, SessionsOK, [Next]_vars
             PROVE  SessionsOK'
  OBVIOUS
<1>1. \A y \in Session : SinkOf[y] \in Sink /\ SinkOf[y] \in Device
  BY RegistryAssumption DEF Device
<1>2. ASSUME NEW x \in Session, OpenSession(x)
      PROVE  SessionsOK'
  <2>1. Open' = Open \cup {x}
    BY <1>2 DEF OpenSession, Open, TypeOK
  <2>2. SharedKnown'
    BY <1>2, <2>1 DEF OpenSession, OthersOpen, SessionsOK, SharedKnown, Open
  <2>3. AnsweredAssigned'
    BY <1>2, <2>1 DEF OpenSession, SessionsOK, AnsweredAssigned
  <2>4. QED
    BY <2>2, <2>3 DEF SessionsOK
<1>3. ASSUME NEW x \in Session, CloseSession(x)
      PROVE  SessionsOK'
  <2>1. Open' = Open \ {x}
    BY <1>3 DEF CloseSession, Open, TypeOK
  <2>2. QED
    BY <1>3, <2>1 DEF CloseSession, SessionsOK, SharedKnown, AnsweredAssigned
<1>4. ASSUME NEW x \in Session, NEW d \in Device, Version(x, d)
      PROVE  SessionsOK'
  <2>1. Open' = Open /\ shared' = shared /\ x \in Open /\ (d \in Sink => d = SinkOf[x])
    BY <1>4 DEF Version, Speaks, Open
  <2>2. ASSUME NEW y \in Open \ (awaited' \cup shared)
        PROVE  sinkSessions'[SinkOf[y]] = y
    <3>1. sinkSessions' = [sinkSessions EXCEPT ![d] = x] /\ y \in Session
      BY <1>4 DEF Version, AssignSession, Open
    <3>2. CASE y = x
      <4>1. CASE d \in Sink
        BY <1>1, <2>1, <3>1, <3>2, <4>1 DEF TypeOK
      <4>2. CASE d \notin Sink
        BY <1>1, <1>4, <2>2, <3>1, <3>2, <4>2 DEF Version, TypeOK, SessionsOK, AnsweredAssigned
      <4>3. QED
        BY <4>1, <4>2
    <3>3. CASE y # x
      <4>1. y \notin awaited /\ SinkOf[y] # d
        BY <1>1, <1>4, <2>1, <2>2, <3>1, <3>3 DEF Version, SessionsOK, SharedKnown
      <4>2. QED
        BY <1>1, <2>2, <3>1, <4>1 DEF TypeOK, SessionsOK, AnsweredAssigned
    <3>4. QED
      BY <3>2, <3>3
  <2>3. QED
    BY <2>1, <2>2 DEF SessionsOK, SharedKnown, AnsweredAssigned
<1>5. CASE \/ \E x \in Session, d \in Device : TurnOn(x, d) \/ Beacon(x, d)
           \/ \E d \in Device : Silence(d)
           \/ UpdateStatuses
           \/ UNCHANGED vars
  <2>1. Open' = Open /\ shared' = shared /\ awaited' = awaited /\ sinkSessions' = sinkSessions
    BY <1>5 DEF TurnOn, Beacon, Silence, UpdateStatuses, vars, Open
  <2>2. QED
    BY <2>1 DEF SessionsOK, SharedKnown, AnsweredAssigned
<1>6. QED
  BY <1>2, <1>3, <1>4, <1>5 DEF Next

(* sinkSessions and the networks lead to a sink over the same session, as    *)
(* long as the sink has one at a time (assignSinkShortIdToSession).          *)
THEOREM LookupsAgreeInvariant == Spec => []LookupsAgree
<1>1. Init => SessionsOK
  BY DEF Init, SessionsOK, SharedKnown, AnsweredAssigned, Open
<1>2. TypeOK /\ SessionsOK => LookupsAgree
  BY RegistryAssumption DEF TypeOK, SessionsOK, AnsweredAssigned, LookupsAgree, Networks, Device
<1>3. QED
  BY <1>1, <1>2, TypeInvariant, StepSessions, PTL DEF Spec
------------------------------------------------------------------------------
(* The refinement. What DeviceMembership sees of a state, named here.        *)
place == [d \in Device |-> Where(d)]
offlineDevices == {d \in Device : \E x \in Session : status[x][d] = "OFFLINE"}

(* With one network per device, Where is the session of that network.        *)
WhereOK ==
    \A d \in Device :
      /\ \A x \in Session : Has(x, d) <=> Where(d) = x
      /\ d \notin Registered <=> Where(d) = NoSession
      /\ Where(d) \in Session \cup {NoSession}

LEMMA WhereIs == OneNetwork => WhereOK
<1> SUFFICES ASSUME OneNetwork, NEW d \in Device
             PROVE  /\ \A x \in Session : Has(x, d) <=> Where(d) = x
                    /\ d \notin Registered <=> Where(d) = NoSession
                    /\ Where(d) \in Session \cup {NoSession}
  BY DEF WhereOK
<1>1. CASE d \in Registered
  BY <1>1, RegistryAssumption DEF Registered, Where, OneNetwork
<1>2. CASE d \notin Registered
  BY <1>2, RegistryAssumption DEF Registered, Where
<1>3. QED
  BY <1>1, <1>2

LEMMA WhereIsNext == OneNetwork' => WhereOK'
  BY WhereIs, PTL

(* Nothing but the registry's own idea of who is offline changes: Notice.    *)
LEMMA NoticeStep ==
    ASSUME TypeOK, OneNetwork, OneNetwork',
           Open' = Open, status' \in [Session -> [Device -> Status]],
           \A x \in Session, d \in Device : Has(x, d)' <=> Has(x, d)
    PROVE  Membership!Next
<1>1. \A d \in Device : Where(d)' = Where(d)
  BY WhereIs, WhereIsNext DEF WhereOK, Where, Registered, Has
<1>2. \A d \in offlineDevices' : Where(d) # NoSession
  BY WhereIs, WhereIsNext DEF WhereOK, offlineDevices, Registered, Has
<1>3. Membership!Notice
  BY <1>1, <1>2 DEF Membership!Notice, offlineDevices
<1>4. QED
  BY <1>3 DEF Membership!Next

LEMMA JoinStep ==
    ASSUME TypeOK, OneNetwork, OneNetwork', NEW x \in Open, NEW d \in Device,
           d \notin Registered, Open' = Open,
           NEW gone \in SUBSET (Device \ Sink),
           \A e \in gone : status[x][e] = "OFFLINE",
           d = SinkOf[x] \/ x \in Networks,
           status' = [status EXCEPT ![x] = [e \in Device |->
                        IF e = d THEN "ONLINE" ELSE IF e \in gone THEN "NONE" ELSE @[e]]]
    PROVE  Membership!Next
<1>1. x \in Session /\ SinkOf[x] \in Device /\ SinkOf[x] \in Sink /\ DOMAIN SinkOf = Session
  BY RegistryAssumption DEF Open, Device
<1>2. d \notin gone /\ gone \subseteq Device
  BY <1>1 DEF Registered, Has
<1>3. \A y \in Session, e \in Device : Has(y, e)' <=>
        (y = x /\ e = d) \/ (Has(y, e) /\ ~(y = x /\ e \in gone))
  BY <1>1, <1>2 DEF TypeOK, Status, Has
<1>4. Where(d) = NoSession /\ Where(d)' = x
  BY <1>1, <1>3, WhereIs, WhereIsNext DEF WhereOK
<1>5. \A e \in gone : Where(e) = x /\ Where(e)' = NoSession /\ e \notin Registered'
  <2>1. SUFFICES ASSUME NEW e \in gone
                 PROVE  Has(x, e) /\ e \notin Registered'
    BY <1>1, <1>2, WhereIs, WhereIsNext DEF WhereOK
  <2>2. Has(x, e)
    BY <1>2 DEF Has
  <2>3. e \notin Registered'
    BY <1>1, <1>2, <1>3, <2>2 DEF OneNetwork, Registered
  <2>4. QED
    BY <2>2, <2>3
<1>6. \A e \in Device \ (gone \cup {d}) : Where(e)' = Where(e)
  BY <1>1, <1>3, WhereIs, WhereIsNext DEF WhereOK, Where, Registered
<1>7. place' = [[e \in Device |-> IF e \in gone THEN NoSession ELSE place[e]] EXCEPT ![d] = x]
  BY <1>2, <1>4, <1>5, <1>6 DEF place
<1>8. offlineDevices' = offlineDevices \ gone
  <2>1. \A y \in Session, e \in Device : e \notin gone \cup {d} =>
          status'[y][e] = status[y][e]
    BY <1>1 DEF TypeOK
  <2>2. d \notin offlineDevices /\ d \notin offlineDevices'
    BY <1>1, <1>3 DEF offlineDevices, Registered, Has, TypeOK
  <2>3. gone \cap offlineDevices' = {}
    BY <1>5 DEF offlineDevices, Registered, Has
  <2>4. QED
    <3>1. ASSUME NEW e \in Device, e \notin gone, e # d
          PROVE  e \in offlineDevices' <=> e \in offlineDevices
      BY <2>1, <3>1 DEF offlineDevices
    <3>2. offlineDevices \subseteq Device /\ offlineDevices' \subseteq Device
      BY DEF offlineDevices, Device
    <3>3. QED
      BY <1>2, <2>2, <2>3, <3>1, <3>2
<1>9. gone \in SUBSET (({e \in Device : place[e] = x} \cap offlineDevices) \ {SinkOf[x]})
  BY <1>1, <1>2, <1>5 DEF place, offlineDevices
<1>10. d = SinkOf[x] \/ place[SinkOf[x]] = x
  BY <1>1, WhereIs, WhereIsNext DEF WhereOK, Networks, place
<1>11. Membership!Join(d, x)
  BY <1>4, <1>7, <1>8, <1>9, <1>10
  DEF Membership!Join, Membership!Drop, Membership!Members, place, offlineDevices
<1>12. QED
  BY <1>1, <1>11 DEF Membership!Next

LEMMA StepMembership ==
    ASSUME TypeOK, TypeOK', OneNetwork, OneNetwork', [Next]_vars
    PROVE  [Membership!Next]_(Membership!vars)
<1>1. DOMAIN SinkOf = Session /\ \A y \in Session : SinkOf[y] \in Sink /\ SinkOf[y] \in Device
  BY RegistryAssumption DEF Device
<1>2. ASSUME NEW x \in Session, OpenSession(x)
      PROVE  Membership!Next
  <2>1. Open' = Open \cup {x} /\ x \notin Open
    BY <1>2 DEF OpenSession, Open, TypeOK
  <2>2. \A d \in Device : Where(d)' = Where(d)
    BY <1>2 DEF OpenSession, Where, Registered, Has
  <2>3. Membership!Connect(x)
    BY <1>2, <2>1, <2>2 DEF Membership!Connect, OpenSession
  <2>4. QED
    BY <1>1, <2>3 DEF Membership!Next
<1>3. ASSUME NEW x \in Session, CloseSession(x)
      PROVE  Membership!Next
  <2>1. Open' = Open \ {x} /\ x \in Open
    BY <1>3 DEF CloseSession, Open, TypeOK
  <2>2. \A y \in Session, d \in Device :
          status'[y][d] = IF y = x THEN "NONE" ELSE status[y][d]
    BY <1>3 DEF CloseSession, Unregistered
  <2>3. ASSUME NEW d \in Device
        PROVE  Where(d)' = IF Where(d) = x THEN NoSession ELSE Where(d)
    <3>1. /\ Where(d) \in Session \cup {NoSession} /\ NoSession \notin Session
          /\ \A y \in Session : Has(y, d) <=> Where(d) = y
      BY WhereIs, RegistryAssumption DEF WhereOK
    <3>2. /\ Where(d)' \in Session \cup {NoSession}
          /\ \A y \in Session : Has(y, d)' <=> Where(d)' = y
      BY WhereIsNext DEF WhereOK
    <3>3. \A y \in Session : Has(y, d)' <=> Has(y, d) /\ y # x
      BY <2>2 DEF Has
    <3> HIDE DEF Where
    <3>4. QED
      BY <3>1, <3>2, <3>3
  <2>4. place' = [d \in Device |-> IF place[d] = x THEN NoSession ELSE place[d]]
    BY <2>3 DEF place
  <2>5. offlineDevices' = offlineDevices \ {d \in Device : place[d] = x}
    BY <2>2, WhereIs, WhereIsNext DEF WhereOK, offlineDevices, place, Has
  <2>6. Membership!Disconnect(x)
    BY <2>1, <2>4, <2>5
    DEF Membership!Disconnect, Membership!Drop, Membership!Members, place, offlineDevices
  <2>7. QED
    BY <1>1, <2>6 DEF Membership!Next
<1>4. ASSUME NEW x \in Session, NEW d \in Device, TurnOn(x, d)
      PROVE  Membership!Next
  <2>1. Open' = Open /\ x \in Open /\ (d \in Sink => d = SinkOf[x])
    BY <1>4 DEF TurnOn, Speaks, Open
  <2>2. status' \in [Session -> [Device -> Status]]
    BY DEF TypeOK
  <2>3. CASE ComesBack(d) \/ NotRegistered(x, d)
    <3>1. \A y \in Session, e \in Device : Has(y, e)' <=> Has(y, e)
      BY <2>3 DEF ComesBack, NotRegistered, Has, TypeOK, Status
    <3>2. QED
      BY <2>1, <2>2, <3>1, NoticeStep
  <2>4. CASE RegisterSink(x, d)
    <3>1. PICK gone \in SUBSET (Device \ Sink) : gone = {}
      OBVIOUS
    <3>2. status' = [status EXCEPT ![x] = [e \in Device |->
                      IF e = d THEN "ONLINE" ELSE IF e \in gone THEN "NONE" ELSE @[e]]]
      BY <2>4, <3>1 DEF RegisterSink, TypeOK
    <3>3. gone \subseteq Device \ Sink /\ \A e \in gone : status[x][e] = "OFFLINE"
      BY <3>1
    <3>4. d \notin Registered /\ d = SinkOf[x]
      BY <2>1, <2>4 DEF RegisterSink, IsNew
    <3>5. QED
      BY <2>1, <3>2, <3>3, <3>4, JoinStep
  <2>5. CASE RegisterMember(x, d)
    <3>1. Redundant(x, d) \in SUBSET (Device \ Sink)
      BY RegistryAssumption DEF Redundant, SameKind, Device
    <3>2. QED
      BY <2>1, <2>5, <3>1, JoinStep DEF RegisterMember, IsNew, Redundant
  <2>6. QED
    BY <1>4, <2>3, <2>4, <2>5 DEF TurnOn
<1>5. CASE \/ \E x \in Session, d \in Device : Version(x, d) \/ Beacon(x, d)
           \/ \E d \in Device : Silence(d)
           \/ UpdateStatuses
  <2>1. Open' = Open
    BY <1>5 DEF Version, Beacon, Silence, UpdateStatuses, Open
  <2>2. status' \in [Session -> [Device -> Status]]
    BY DEF TypeOK
  <2>3. \A y \in Session, e \in Device : Has(y, e)' <=> Has(y, e)
    BY <1>5 DEF Version, Beacon, Silence, UpdateStatuses, Has
  <2>4. QED
    BY <2>1, <2>2, <2>3, NoticeStep
<1>6. CASE UNCHANGED vars
  BY <1>6 DEF vars, Membership!vars, Where, Registered, Has, Open
<1>7. QED
  BY <1>2, <1>3, <1>4, <1>5, <1>6 DEF Next

LEMMA InitMembership == Init => Membership!Init
<1> SUFFICES ASSUME Init
             PROVE  Membership!Init
  OBVIOUS
<1>1. Registered = {} /\ Open = {} /\ offlineDevices = {}
  BY DEF Init, Registered, Has, Open, offlineDevices
<1>2. QED
  BY <1>1 DEF Membership!Init, Where, offlineDevices

(* The registry implements DeviceMembership: no device passes from one       *)
(* network into another without having been outside of all, and none is      *)
(* dropped but as OFFLINE or with its session.                               *)
THEOREM MembershipRefinement == Spec => KeepsMembership
<1>1. Init => Membership!Init
  BY InitMembership
<1>2. TypeOK /\ TypeOK' /\ OneNetwork /\ OneNetwork' /\ [Next]_vars
        => [Membership!Next]_(Membership!vars)
  BY StepMembership
<1>3. QED
  BY <1>1, <1>2, TypeInvariant, OneNetworkInvariant, PTL
  DEF Spec, KeepsMembership, Membership!Spec
==============================================================================
