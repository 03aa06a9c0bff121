--------------------------- MODULE NetworkRegistry ---------------------------
(***************************************************************************)
(* NetworkController and the sessions of InfoWebSocket: which device is    *)
(* reached over which session.                                             *)
(*                                                                         *)
(* Two tables answer that question. The networks hold, per session of a    *)
(* sink that has turned on, the sink and the anchors and tags that turned  *)
(* on over it; a device joins when no network has it. sinkSessions holds   *)
(* the session over which a device last told its version; nothing is ever  *)
(* removed from it.                                                        *)
(*                                                                         *)
(* A sink that lost its connection may open a new session before the       *)
(* server learns that the old one is closed, and what it sent on the old   *)
(* one may be handled after what it sent on the new. Anchors and tags      *)
(* speak over any sink. Every handler holds the lock of InfoWebSocket and  *)
(* is one step. Firmware updates, and so all of DeviceStatus but ONLINE    *)
(* and OFFLINE, are left to DeviceUpgrade.                                 *)
(***************************************************************************)
EXTENDS Naturals, FiniteSets

CONSTANTS
    Sink, Anchor, Tag,
    Session,        \* the sessions sinks open, each one once
    SinkOf,         \* SinkOf[x]: the sink that opens x
    InDatabase,     \* the devices the database knows
    Telling,        \* bound: the devices that tell their version
    NoSession

Device == Sink \cup Anchor \cup Tag

ASSUME RegistryAssumption ==
    /\ SinkOf \in [Session -> Sink]
    /\ Sink \cap Anchor = {} /\ Sink \cap Tag = {} /\ Anchor \cap Tag = {}
    /\ InDatabase \subseteq Device
    /\ NoSession \notin Session

VARIABLES
    session,        \* each session as the container has told of it
    status,         \* status[x][d]: d in the network of session x, or NONE
    outdated,       \* devices in a network with lastTimeUpdated before 30 s ago
    sinkSessions,   \* the session each device last told its version over
    awaited,        \* open sessions whose sink owes the answer to a handshake
    shared,         \* history: sessions open beside another of their sink
    alone           \* history: sessions over which their sink turned on while
                    \* it had no other one open

vars == <<session, status, outdated, sinkSessions, awaited, shared, alone>>

Status == {"NONE", "ONLINE", "OFFLINE"}

Has(x, d) == status[x][d] # "NONE"
Networks == {x \in Session : Has(x, SinkOf[x])}
Registered == {d \in Device : \E x \in Session : Has(x, d)}
Open == {x \in Session : session[x] = "open"}
OthersOpen(x) == {y \in Open \ {x} : SinkOf[y] = SinkOf[x]}

TypeOK ==
    /\ session \in [Session -> {"new", "open", "closed"}]
    /\ status \in [Session -> [Device -> Status]]
    /\ outdated \subseteq Registered
    /\ sinkSessions \in [Device -> Session \cup {NoSession}]
    /\ awaited \subseteq Open
    /\ shared \subseteq Session /\ alone \subseteq Session
    /\ \A x \in Session, d \in Device :
         Has(x, d) => x \in Open \cap Networks /\ d \in {SinkOf[x]} \cup Anchor \cup Tag

Init ==
    /\ session = [x \in Session |-> "new"]
    /\ status = [x \in Session |-> [d \in Device |-> "NONE"]]
    /\ outdated = {}
    /\ sinkSessions = [d \in Device |-> NoSession]
    /\ awaited = {}
    /\ shared = {} /\ alone = {}
------------------------------------------------------------------------------
(* Sessions.                                                                 *)

(* open: a handshake is sent, which the sink answers with its version.       *)
OpenSession(x) ==
    /\ session[x] = "new"
    /\ session' = [session EXCEPT ![x] = "open"]
    /\ awaited' = awaited \cup {x}
    /\ shared' = IF OthersOpen(x) = {} THEN shared
                 ELSE shared \cup {x} \cup OthersOpen(x)
    /\ UNCHANGED <<status, outdated, sinkSessions, alone>>

(* Comparing the sinks of the networks instead of the sessions.              *)
UnregisteredBySink(x) == {y \in Session : SinkOf[y] = SinkOf[x]}
UnregisteredNever(x) == {}

(* unregister: the networks a closing session takes with it.                 *)
Unregistered(x) == {x}

CloseSession(x) ==
    /\ session[x] = "open"
    /\ session' = [session EXCEPT ![x] = "closed"]
    /\ status' = [y \in Session |-> [d \in Device |->
                    IF y \in Unregistered(x) THEN "NONE" ELSE status[y][d]]]
    /\ outdated' = {d \in outdated : \E y \in Session \ Unregistered(x) : Has(y, d)}
    /\ awaited' = awaited \ {x}
    /\ UNCHANGED <<sinkSessions, shared, alone>>

(* A message of d arrives over x; sinks do not speak over each other.        *)
Speaks(x, d) == x \in Open /\ (d \in Sink => d = SinkOf[x])
------------------------------------------------------------------------------
(* Turning on.                                                               *)

(* Looking for a device among the sinks and the anchors only.                *)
IsNewExceptTags(d) == d \in Tag \/ d \notin Registered

(* getDeviceStatus finds nothing.                                            *)
IsNew(d) == d \notin Registered

SameKind(d) == IF d \in Tag THEN Tag ELSE Anchor

(* Dropping those not heard of rather than those found OFFLINE.              *)
RedundantByTime(x, d) == {e \in SameKind(d) : Has(x, e) /\ e \in outdated}

(* The members of the network of x that make room for d.                     *)
Redundant(x, d) == {e \in SameKind(d) : status[x][e] = "OFFLINE"}

(* onDeviceTurnOn of a device some network has, maybe that of another        *)
(* session: lastTimeUpdated stays what it was.                               *)
ComesBack(d) ==
    /\ ~IsNew(d)
    /\ status' = [x \in Session |-> [status[x] EXCEPT
                    ![d] = IF @ = "OFFLINE" THEN "ONLINE" ELSE @]]
    /\ UNCHANGED outdated

(* registerNewDevice for a sink: registerSink.                               *)
RegisterSink(x, d) ==
    /\ IsNew(d) /\ d \in InDatabase
    /\ d \in Sink
    /\ status' = [status EXCEPT ![x][d] = "ONLINE"]
    /\ UNCHANGED outdated

(* ... for an anchor or a tag, when getBySession finds the network.          *)
RegisterMember(x, d) ==
    /\ IsNew(d) /\ d \in InDatabase
    /\ d \notin Sink /\ x \in Networks
    /\ status' = [status EXCEPT ![x] = [e \in Device |->
                    IF e = d THEN "ONLINE"
                    ELSE IF e \in Redundant(x, d) THEN "NONE" ELSE @[e]]]
    /\ outdated' = outdated \ (Redundant(x, d) \cup {d})

(* ... or for one that finds none, or is not in the database.                *)
NotRegistered(x, d) ==
    /\ IsNew(d)
    /\ d \notin InDatabase \/ (d \notin Sink /\ x \notin Networks)
    /\ UNCHANGED <<status, outdated>>

TurnOn(x, d) ==
    /\ Speaks(x, d)
    /\ \/ ComesBack(d)
       \/ RegisterSink(x, d)
       \/ RegisterMember(x, d)
       \/ NotRegistered(x, d)
    /\ alone' = IF d \in Sink /\ OthersOpen(x) = {} THEN alone \cup {x} ELSE alone
    /\ UNCHANGED <<session, sinkSessions, awaited, shared>>
------------------------------------------------------------------------------
(* Versions, beacons and the timer.                                          *)

(* Keeping the session a device was first heard over.                        *)
AssignOnce(x, d) ==
    sinkSessions' = [sinkSessions EXCEPT ![d] = IF @ = NoSession THEN x ELSE @]

AssignSession(x, d) == sinkSessions' = [sinkSessions EXCEPT ![d] = x]

(* VERSION, which falls through into BEACON.                                 *)
Version(x, d) ==
    /\ Speaks(x, d) /\ d \in Telling
    /\ AssignSession(x, d)
    /\ outdated' = outdated \ {d}
    /\ awaited' = IF d \in Sink THEN awaited \ {x} ELSE awaited
    /\ UNCHANGED <<session, status, shared, alone>>

Beacon(x, d) ==
    /\ Speaks(x, d)
    /\ d \in outdated
    /\ outdated' = outdated \ {d}
    /\ UNCHANGED <<session, status, sinkSessions, awaited, shared, alone>>

Silence(d) ==
    /\ d \in Registered \ outdated
    /\ outdated' = outdated \cup {d}
    /\ UNCHANGED <<session, status, sinkSessions, awaited, shared, alone>>

(* Leaving out the sink, which is in no set of its network.                  *)
CheckedMembers == Anchor \cup Tag

Checked == Device

(* updateStatuses, over all networks.                                        *)
UpdateStatuses ==
    /\ status' = [x \in Session |-> [d \in Device |->
                    IF d \in outdated \cap Checked /\ Has(x, d)
                    THEN "OFFLINE" ELSE status[x][d]]]
    /\ UNCHANGED <<session, outdated, sinkSessions, awaited, shared, alone>>
------------------------------------------------------------------------------
Next ==
    \/ \E x \in Session :
         \/ OpenSession(x)
         \/ CloseSession(x)
         \/ \E d \in Device : TurnOn(x, d) \/ Version(x, d) \/ Beacon(x, d)
    \/ \E d \in Device : Silence(d)
    \/ UpdateStatuses

Spec == Init /\ [][Next]_vars

(* The interval timer of InfoWebSocket fires.                                *)
FairSpec == Spec /\ WF_vars(UpdateStatuses)
------------------------------------------------------------------------------
(* No device is in two networks, whichever way sinks reconnect and devices   *)
(* move: getDeviceStatus finds the only entry a device has.                  *)
OneNetwork ==
    \A d \in Device, x, y \in Session : Has(x, d) /\ Has(y, d) => x = y

(* A sink that turned on when it had one session open stays registered for   *)
(* that session until it closes, whatever other sessions of it come and go.  *)
SinkRegistered ==
    \A x \in Open \cap alone : SinkOf[x] \in InDatabase => x \in Networks

(* Both tables lead to a sink over the same session once it has answered     *)
(* the handshake, unless it had two sessions at a time: a raw command and a  *)
(* file go the same way.                                                     *)
LookupsAgree ==
    \A x \in Networks \ (awaited \cup shared) : sinkSessions[SinkOf[x]] = x

(* No device that is not heard of stays ONLINE, even one that keeps turning  *)
(* on: turning on does not refresh its time.                                 *)
SilenceNoticed ==
    \A d \in Device : []<>(d \notin outdated \/ \A x \in Session : status[x][d] # "ONLINE")

(* The registry keeps what DeviceMembership promises.                        *)
Where(d) ==
    IF d \in Registered THEN CHOOSE x \in Session : Has(x, d) ELSE NoSession

Membership == INSTANCE DeviceMembership WITH
    Nowhere <- NoSession,
    where <- [d \in Device |-> Where(d)],
    live <- Open,
    offline <- {d \in Device : \E x \in Session : status[x][d] = "OFFLINE"}

KeepsMembership == Membership!Spec
==============================================================================
