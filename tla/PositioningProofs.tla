-------------------------- MODULE PositioningProofs --------------------------
(***************************************************************************)
(* For any floors, anchors, calls, threads, tags and budgets: the drafts   *)
(* and the placement of anchors, the calculator's caches, and its queue    *)
(* and map of coordinates. First what the calls of ConfigurationBean keep, *)
(* then what the loop over the frontends keeps, then the theorems.         *)
(***************************************************************************)
EXTENDS Positioning, FiniteSetTheorems, TLAPS

------------------------------------------------------------------------------
(* ConfigurationBean.                                                       *)

(* What Evict and EvictRefused do to a call.                                 *)
MarkEvicted(k) ==
    /\ k \in Publishing
    /\ call' = [call EXCEPT ![k].evicted = TRUE]
    /\ UNCHANGED <<floors, configurations, inserted, row,
                   overlapped, mingled, undone, touched>>

ConfNext ==
    \/ \E k \in Call :
         \/ \E op \in Operation, f \in Floor, N \in SUBSET Anchor : Begin(k, op, f, N)
         \/ CommitSaveDraft(k) \/ CommitPublish(k) \/ CommitUndo(k) \/ Rollback(k)
         \/ MarkEvicted(k)
    \/ \E a \in Anchor, p \in Place : UpdateAnchor(a, p)
    \/ \E f \in Floor : DeleteFloor(f)

(* A row is known by its floor and its id.                                   *)
Rows ==
    /\ IsFiniteSet(configurations)
    /\ \A c \in configurations : c.id <= inserted[c.floor]
    /\ \A c, d \in configurations : c.floor = d.floor /\ c.id = d.id => c = d

(* A call has seen rows of its floor, and one at least unless it saves.      *)
Snapshots ==
    \A k \in Call : call[k] # Idle =>
        /\ IsFiniteSet(call[k].seen)
        /\ \A c \in call[k].seen : c.floor = call[k].floor
        /\ call[k].op # "saveDraft" => call[k].seen # {}

ConfInv == ConfTypeOK /\ Rows /\ Snapshots

(* Calls that do not overlap see the rows there are.                         *)
Serial ==
    \A f \in floors \ overlapped : \A k \in Busy : call[k].floor = f =>
        /\ call[k].seen = Of(f)
        /\ \A j \in Busy : call[j].floor = f => j = k

(* What a publication has seen of the anchors is still so, but on floors     *)
(* where another one, or an edit, has been at work.                          *)
Places ==
    \A k \in Publishing :
        /\ \A j \in Publishing : j # k => call[k].floor \in mingled
        /\ \A a \in Anchor : row[a] # call[k].row[a] =>
             /\ row[a] # NoFloor => row[a] \in mingled
             /\ call[k].row[a] = call[k].floor /\ call[k].floor \in floors
                  => call[k].floor \in mingled
------------------------------------------------------------------------------
(* A finite set of configurations has a latest one.                          *)
LEMMA LatestExists ==
  ASSUME NEW C, C \subseteq Configuration, C # {}, IsFiniteSet(C)
  PROVE  Latest(C) \in C /\ \A d \in C : d.version <= Latest(C).version
<1> DEFINE Above(c) == {d \in C : d.version > c.version}
           F == {Above(c) : c \in C}
<1>0. \A c \in C : c.version \in Nat
  BY DEF Configuration
<1>1. F \subseteq FiniteSubsetsOf(C) /\ F # {}
  <2>1. \A c \in C : Above(c) \in SUBSET C
    OBVIOUS
  <2>2. \A c \in C : IsFiniteSet(Above(c))
    BY <2>1, FS_Subset
  <2> QED BY <2>1, <2>2 DEF FiniteSubsetsOf
<1>2. PICK x \in F : \A y \in F : <<y, x>> \notin StrictSubsetOrdering(C)
  <2> HIDE DEF F
  <2> QED BY <1>1, WFMin, FS_StrictSubsetOrderingWellFounded, Zenon
<1>3. PICK c \in C : x = Above(c)
  OBVIOUS
<1>4. \A d \in C : d.version <= c.version
  <2>1. SUFFICES ASSUME NEW d \in C, d.version > c.version PROVE FALSE
    BY <1>0
  <2>2. Above(d) \subseteq Above(c) /\ Above(d) # Above(c)
    BY <1>0, <2>1
  <2>3. Above(d) \in SUBSET C /\ Above(c) \in SUBSET C
    OBVIOUS
  <2>4. <<Above(d), Above(c)>> \in StrictSubsetOrdering(C)
    <3> HIDE DEF Above
    <3> QED BY <2>2, <2>3 DEF StrictSubsetOrdering
  <2> QED BY <1>2, <1>3, <2>4
<1> QED BY <1>4 DEF Latest

(* The configuration a call writes is one it has seen, of its floor.         *)
LEMMA WrittenSeen ==
  ASSUME ConfInv, NEW k \in Call, call[k] # Idle, call[k].seen # {}
  PROVE  /\ call[k] \in Transaction
         /\ Written(k) \in call[k].seen
         /\ Written(k) \in Configuration
         /\ Written(k).floor = call[k].floor
         /\ \A d \in call[k].seen : d.version <= Written(k).version
<1>1. call[k] \in Transaction
  BY DEF ConfInv, ConfTypeOK
<1>2. call[k].seen \subseteq Configuration /\ IsFiniteSet(call[k].seen)
  BY <1>1 DEF Transaction, ConfInv, Snapshots
<1> QED
  BY <1>1, <1>2, LatestExists DEF Written, ConfInv, Snapshots

(* An insertion takes a new id.                                              *)
LEMMA AppendRows ==
  ASSUME ConfInv, NEW k \in Call, CommitSaveDraft(k), Appends(call[k].seen)
  PROVE  ConfInv'
<1> DEFINE f == call[k].floor
           C == call[k].seen
           c0 == [id |-> inserted[f] + 1, floor |-> f, version |-> NextVersion(C),
                  names |-> call[k].names, published |-> FALSE]
<1>1. call[k] \in Transaction /\ f \in Floor /\ f \in floors
  BY DEF ConfInv, ConfTypeOK, CommitSaveDraft, Transaction
<1>2. NextVersion(C) \in Nat
  <2>1. CASE C = {}
    BY <2>1 DEF NextVersion
  <2>2. CASE C # {}
    BY <2>2, WrittenSeen DEF NextVersion, Written, Configuration, CommitSaveDraft
  <2> QED BY <2>1, <2>2
<1>3. c0 \in Configuration
  BY <1>1, <1>2 DEF Configuration, Transaction, ConfInv, ConfTypeOK
<1>4. /\ configurations' = configurations \cup {c0}
      /\ inserted' = [inserted EXCEPT ![f] = @ + 1]
      /\ call' = [call EXCEPT ![k] = Idle]
      /\ UNCHANGED <<floors, row, overlapped, mingled, undone, touched>>
  BY DEF CommitSaveDraft
<1> HIDE DEF c0
<1>5. ConfTypeOK'
  <2>1. configurations' \subseteq Configuration /\ \A c \in configurations' : c.floor \in floors'
    <3>1. c0.floor = f
      BY DEF c0
    <3> QED BY <1>1, <1>3, <1>4, <3>1 DEF ConfInv, ConfTypeOK
  <2>2. inserted' \in [Floor -> Nat]
    <3>1. inserted \in [Floor -> Nat] /\ inserted[f] + 1 \in Nat
      BY <1>1 DEF ConfInv, ConfTypeOK
    <3> HIDE DEF f
    <3> QED BY <1>4, <3>1
  <2>3. call' \in [Call -> {Idle} \cup Transaction]
    BY <1>4 DEF ConfInv, ConfTypeOK
  <2> QED BY <1>4, <2>1, <2>2, <2>3 DEF ConfInv, ConfTypeOK
<1>6. Rows'
  <2>1. IsFiniteSet(configurations')
    BY <1>4, FS_AddElement DEF ConfInv, Rows
  <2>2. \A c \in configurations : c.id \in Nat /\ c.floor \in Floor /\ c.id <= inserted[c.floor]
    BY DEF ConfInv, ConfTypeOK, Rows, Configuration
  <2>3. c0.id = inserted[f] + 1 /\ c0.floor = f /\ inserted \in [Floor -> Nat]
    BY DEF c0, ConfInv, ConfTypeOK
  <2>4. \A c \in configurations' : c.id <= inserted'[c.floor]
    BY <1>1, <1>4, <2>2, <2>3
  <2>5. \A c \in configurations : c.floor = f => c.id # c0.id
    BY <2>2, <2>3
  <2>6. \A c, d \in configurations' : c.floor = d.floor /\ c.id = d.id => c = d
    BY <1>4, <2>3, <2>5 DEF ConfInv, Rows
  <2> QED BY <2>1, <2>4, <2>6 DEF Rows
<1>7. Snapshots'
  BY <1>4 DEF ConfInv, ConfTypeOK, Snapshots, Idle
<1> QED BY <1>5, <1>6, <1>7 DEF ConfInv

(* An update replaces a row by one with its id, a deletion takes one away.   *)
LEMMA WriteRows ==
  ASSUME ConfInv, NEW k \in Call, call[k] # Idle, call[k].seen # {}, Present(k),
         NEW c0 \in Configuration, c0.floor = call[k].floor, c0.id = Written(k).id,
         configurations' = Others(k) \/ configurations' = Others(k) \cup {c0},
         UNCHANGED <<floors, inserted>>
  PROVE  /\ configurations' \subseteq Configuration
         /\ \A c \in configurations' : c.floor \in floors
         /\ Rows'
<1>1. PICK w \in configurations : w.floor = call[k].floor /\ w.id = Written(k).id
  BY DEF Present, Of
<1>2. Others(k) \subseteq configurations
  BY DEF Others
<1>3. \A c \in Others(k) : c.floor # call[k].floor \/ c.id # Written(k).id
  BY DEF Others
<1>4. configurations' \subseteq Configuration /\ \A c \in configurations' : c.floor \in floors
  BY <1>1, <1>2 DEF ConfInv, ConfTypeOK
<1>5. IsFiniteSet(configurations')
  <2>1. IsFiniteSet(Others(k))
    BY <1>2, FS_Subset DEF ConfInv, Rows
  <2> QED BY <2>1, FS_AddElement
<1>6. \A c \in configurations' : c.id <= inserted'[c.floor]
  BY <1>1, <1>2 DEF ConfInv, Rows
<1>7. \A c, d \in configurations' : c.floor = d.floor /\ c.id = d.id => c = d
  BY <1>2, <1>3 DEF ConfInv, Rows
<1> QED BY <1>4, <1>5, <1>6, <1>7 DEF Rows

(* Publishing leaves anchors on floors there are.                            *)
LEMMA PlacedType ==
  ASSUME ConfTypeOK, NEW f \in floors, NEW seen, NEW N
  PROVE  Placed(f, seen, N) \in [Anchor -> floors \cup {NoFloor}]
BY DEF Placed, ConfTypeOK

LEMMA ConfInvInit == ConfInit => ConfInv
<1> SUFFICES ASSUME ConfInit PROVE ConfInv
  OBVIOUS
<1> DEFINE G == {g \in Floor : First[g] # {}}
           new(f) == [id |-> 1, floor |-> f, version |-> 0, names |-> First[f], published |-> TRUE]
<1>1. configurations = {new(f) : f \in G}
  BY DEF ConfInit
<1>2. ConfTypeOK
  <2>1. \A f \in Floor : First[f] \in SUBSET Anchor
    BY ConfigurationsAssumption
  <2>2. \A f \in G : new(f) \in Configuration
    BY <2>1 DEF Configuration
  <2>3. configurations \subseteq Configuration /\ \A c \in configurations : c.floor \in floors
    BY <1>1, <2>2 DEF ConfInit
  <2> QED BY <2>3 DEF ConfInit, ConfTypeOK, Place
<1>3. Rows
  <2>1. IsFiniteSet(configurations)
    <3> DEFINE h == [f \in G |-> new(f)]
    <3>1. IsFiniteSet(G)
      BY ConfigurationsAssumption, FS_Subset
    <3>2. h \in Surjection(G, configurations)
      BY <1>1 DEF Surjection
    <3> QED BY <3>1, <3>2, FS_Surjection
  <2>2. \A c \in configurations : c.id = 1 /\ First[c.floor] # {} /\ c.floor \in Floor
    BY <1>1
  <2>3. \A c \in configurations : c = new(c.floor)
    BY <1>1
  <2>4. \A c, d \in configurations : c.floor = d.floor /\ c.id = d.id => c = d
    <3> HIDE DEF new
    <3> QED BY <2>3
  <2> QED BY <2>1, <2>2, <2>4 DEF Rows, ConfInit
<1>4. Snapshots
  BY DEF ConfInit, Snapshots
<1> QED BY <1>2, <1>3, <1>4 DEF ConfInv

(* Calls in progress are transactions.                                       *)
LEMMA BusyCalls ==
  ASSUME ConfTypeOK
  PROVE  /\ \A k \in Busy : call[k] \in Transaction
         /\ \A K \in SUBSET Busy : FloorsOf(K) \subseteq Floor
<1>1. \A k \in Busy : call[k] \in Transaction
  BY DEF ConfTypeOK, Busy
<1> QED BY <1>1 DEF FloorsOf, Transaction

(* A call that writes over a row keeps the rows in order, whatever it writes *)
(* elsewhere.                                                                *)
LEMMA WriteInv ==
  ASSUME ConfInv, NEW k \in Call, call[k] # Idle, call[k].seen # {}, Present(k),
         NEW c0 \in Configuration, c0.floor = call[k].floor, c0.id = Written(k).id,
         configurations' = Others(k) \/ configurations' = Others(k) \cup {c0},
         row' \in [Anchor -> floors \cup {NoFloor}],
         undone' \subseteq Floor, touched' \in [Floor -> SUBSET Anchor],
         call' = [call EXCEPT ![k] = Idle],
         UNCHANGED <<floors, inserted, overlapped, mingled>>
  PROVE  ConfInv'
<1>1. /\ configurations' \subseteq Configuration
      /\ \A c \in configurations' : c.floor \in floors
      /\ Rows'
  BY WriteRows
<1>2. ConfTypeOK'
  BY <1>1 DEF ConfInv, ConfTypeOK
<1>3. Snapshots'
  BY DEF ConfInv, ConfTypeOK, Snapshots
<1> QED BY <1>1, <1>2, <1>3 DEF ConfInv

(* Types, ids and snapshots, kept by every call and every edit.              *)
LEMMA ConfInvNext ==
  ASSUME ConfInv, ConfNext
  PROVE  ConfInv'
<1>1. ASSUME NEW k \in Call, NEW op \in Operation, NEW f \in Floor, NEW N \in SUBSET Anchor,
             Begin(k, op, f, N)
      PROVE  ConfInv'
  <2>1. row \in [Anchor -> Place] /\ Of(f) \subseteq Configuration
    BY DEF ConfInv, ConfTypeOK, Place, Of
  <2> DEFINE new == [op |-> op, floor |-> f, names |-> N,
                     seen |-> Of(f), row |-> row, evicted |-> FALSE]
  <2>2. new \in Transaction
    BY <2>1 DEF Transaction
  <2>3. call' = [call EXCEPT ![k] = new]
    BY <1>1 DEF Begin
  <2>4. overlapped' \cup mingled' \subseteq Floor
    <3>1. FloorsOf(Publishing) \subseteq Floor
      BY BusyCalls DEF ConfInv, Publishing
    <3> QED BY <1>1, <3>1 DEF Begin, ConfInv, ConfTypeOK
  <2>5. UNCHANGED <<floors, configurations, inserted, row, undone, touched>>
    BY <1>1 DEF Begin
  <2>6. call' \in [Call -> {Idle} \cup Transaction]
    <3> HIDE DEF new
    <3> QED BY <2>2, <2>3 DEF ConfInv, ConfTypeOK
  <2>7. ConfTypeOK'
    BY <2>4, <2>5, <2>6 DEF ConfInv, ConfTypeOK
  <2>8. Rows'
    BY <2>5 DEF ConfInv, Rows
  <2>9. Snapshots'
    <3>1. IsFiniteSet(Of(f))
      BY FS_Subset DEF ConfInv, Rows, Of
    <3>2. op # "saveDraft" => Of(f) # {}
      BY <1>1 DEF Begin
    <3>3. \A c \in Of(f) : c.floor = f
      BY DEF Of
    <3>4. ASSUME NEW j \in Call, call'[j] # Idle
          PROVE  /\ IsFiniteSet(call'[j].seen)
                 /\ \A c \in call'[j].seen : c.floor = call'[j].floor
                 /\ call'[j].op # "saveDraft" => call'[j].seen # {}
      <4>1. CASE j = k
        BY <2>3, <3>1, <3>2, <3>3, <4>1 DEF ConfInv, ConfTypeOK
      <4>2. CASE j # k
        BY <2>3, <3>4, <4>2 DEF ConfInv, ConfTypeOK, Snapshots
      <4> QED BY <4>1, <4>2
    <3> QED BY <3>4 DEF Snapshots
  <2> QED BY <2>7, <2>8, <2>9 DEF ConfInv
<1>2. ASSUME NEW k \in Call, CommitSaveDraft(k)
      PROVE  ConfInv'
  <2>1. CASE Appends(call[k].seen)
    BY <1>2, <2>1, AppendRows
  <2>2. CASE ~Appends(call[k].seen)
    <3> DEFINE c0 == [Written(k) EXCEPT !.names = call[k].names]
    <3>1. call[k] # Idle /\ call[k].seen # {} /\ Present(k)
      BY <1>2, <2>2 DEF CommitSaveDraft, Appends
    <3>2. call[k] \in Transaction /\ Written(k) \in Configuration
             /\ Written(k).floor = call[k].floor
      BY <3>1, WrittenSeen
    <3>3. c0 \in Configuration /\ c0.floor = call[k].floor /\ c0.id = Written(k).id
      BY <3>2 DEF Configuration, Transaction
    <3>4. /\ configurations' = Others(k) \cup {c0}
          /\ call' = [call EXCEPT ![k] = Idle]
          /\ UNCHANGED <<floors, row, inserted, overlapped, mingled, undone, touched>>
      BY <1>2, <2>2 DEF CommitSaveDraft
    <3>5. /\ row' \in [Anchor -> floors \cup {NoFloor}]
          /\ undone' \subseteq Floor /\ touched' \in [Floor -> SUBSET Anchor]
      BY <3>4 DEF ConfInv, ConfTypeOK
    <3> HIDE DEF c0
    <3> QED BY <3>1, <3>3, <3>4, <3>5, WriteInv
  <2> QED BY <2>1, <2>2
<1>3. ASSUME NEW k \in Call, CommitPublish(k)
      PROVE  ConfInv'
  <2> DEFINE f == call[k].floor
             N == Written(k).names
             c0 == [Written(k) EXCEPT !.published = TRUE]
  <2>1. call[k] # Idle /\ call[k].seen # {} /\ Present(k)
    BY <1>3 DEF CommitPublish, ConfInv, Snapshots
  <2>2. Written(k) \in Configuration /\ Written(k).floor = f
    BY <2>1, WrittenSeen
  <2>3. c0 \in Configuration /\ c0.floor = f /\ c0.id = Written(k).id
    BY <2>2 DEF Configuration
  <2>4. f \in floors /\ N \subseteq Anchor
    BY <2>1, <2>2 DEF Present, Of, ConfInv, ConfTypeOK, Configuration
  <2>5. /\ configurations' = Others(k) \cup {c0}
        /\ call' = [call EXCEPT ![k] = Idle]
        /\ UNCHANGED <<floors, inserted, overlapped, mingled>>
    BY <1>3 DEF CommitPublish
  <2>6. /\ row' = Placed(f, call[k].row, N)
        /\ touched' = [g \in Floor |-> IF g = f THEN {} ELSE touched[g] \cup N]
        /\ undone' = undone \ {f}
    BY <1>3 DEF CommitPublish
  <2> HIDE DEF c0, f, N
  <2>7. row' \in [Anchor -> floors \cup {NoFloor}]
    BY <2>4, <2>6, PlacedType DEF ConfInv
  <2>8. undone' \subseteq Floor /\ touched' \in [Floor -> SUBSET Anchor]
    BY <2>4, <2>6 DEF ConfInv, ConfTypeOK
  <2> QED BY <2>1, <2>3, <2>5, <2>7, <2>8, WriteInv DEF f
<1>4. ASSUME NEW k \in Call, CommitUndo(k)
      PROVE  ConfInv'
  <2> DEFINE c0 == [Written(k) EXCEPT !.names = {}, !.published = FALSE]
  <2>1. call[k] # Idle /\ call[k].seen # {} /\ Present(k)
    BY <1>4 DEF CommitUndo, ConfInv, Snapshots
  <2>2. call[k] \in Transaction /\ Written(k) \in Configuration
           /\ Written(k).floor = call[k].floor
    BY <2>1, WrittenSeen
  <2>3. c0 \in Configuration /\ c0.floor = call[k].floor /\ c0.id = Written(k).id
    BY <2>2 DEF Configuration
  <2>4. /\ configurations' = Others(k) \/ configurations' = Others(k) \cup {c0}
        /\ call' = [call EXCEPT ![k] = Idle]
        /\ UNCHANGED <<floors, inserted, row, overlapped, mingled, touched>>
    BY <1>4 DEF CommitUndo
  <2>5. undone' \subseteq Floor
    BY <1>4, <2>2 DEF CommitUndo, Transaction, ConfInv, ConfTypeOK
  <2>6. row' \in [Anchor -> floors \cup {NoFloor}] /\ touched' \in [Floor -> SUBSET Anchor]
    BY <2>4 DEF ConfInv, ConfTypeOK
  <2> HIDE DEF c0
  <2> QED BY <2>1, <2>3, <2>4, <2>5, <2>6, WriteInv
<1>5. ASSUME NEW k \in Call, Rollback(k)
      PROVE  ConfInv'
  BY <1>5 DEF Rollback, ConfInv, ConfTypeOK, Rows, Snapshots
<1>6. ASSUME NEW k \in Call, MarkEvicted(k)
      PROVE  ConfInv'
  <2>1. call[k] \in Transaction /\ k \in Busy
    BY <1>6, BusyCalls DEF MarkEvicted, Publishing, ConfInv
  <2>2. [call[k] EXCEPT !.evicted = TRUE] \in Transaction
    BY <2>1 DEF Transaction
  <2>3. call' = [call EXCEPT ![k] = [call[k] EXCEPT !.evicted = TRUE]]
    BY <1>6 DEF MarkEvicted
  <2>4. ConfTypeOK'
    <3>1. call' \in [Call -> {Idle} \cup Transaction]
      BY <2>2, <2>3 DEF ConfInv, ConfTypeOK
    <3> QED BY <1>6, <3>1 DEF MarkEvicted, ConfInv, ConfTypeOK
  <2>5. Rows'
    BY <1>6 DEF MarkEvicted, ConfInv, Rows
  <2>6. \A j \in Call : /\ call'[j].seen = call[j].seen /\ call'[j].op = call[j].op
                        /\ call'[j].floor = call[j].floor
                        /\ call'[j] # Idle => call[j] # Idle
    <3> SUFFICES ASSUME NEW j \in Call
                 PROVE  /\ call'[j].seen = call[j].seen /\ call'[j].op = call[j].op
                        /\ call'[j].floor = call[j].floor
                        /\ call'[j] # Idle => call[j] # Idle
      OBVIOUS
    <3>1. CASE j = k
      BY <2>1, <2>3, <3>1 DEF ConfInv, ConfTypeOK, Transaction, Busy
    <3>2. CASE j # k
      BY <2>3, <3>2 DEF ConfInv, ConfTypeOK
    <3> QED BY <3>1, <3>2
  <2>7. Snapshots'
    BY <2>6 DEF ConfInv, Snapshots
  <2> QED BY <2>4, <2>5, <2>7 DEF ConfInv
<1>7. ASSUME NEW a \in Anchor, NEW p \in Place, UpdateAnchor(a, p)
      PROVE  ConfInv'
  <2>1. FloorsOf(Publishing) \subseteq Floor
    BY BusyCalls DEF ConfInv, Publishing
  <2>2. ConfTypeOK'
    BY <1>7, <2>1 DEF UpdateAnchor, ConfInv, ConfTypeOK
  <2> QED BY <1>7, <2>2 DEF UpdateAnchor, ConfInv, Rows, Snapshots
<1>8. ASSUME NEW f \in Floor, DeleteFloor(f)
      PROVE  ConfInv'
  <2>1. ConfTypeOK'
    BY <1>8 DEF DeleteFloor, Released, ConfInv, ConfTypeOK
  <2>2. Rows'
    <3>1. configurations' \subseteq configurations /\ UNCHANGED inserted
      BY <1>8 DEF DeleteFloor
    <3>2. IsFiniteSet(configurations')
      BY <3>1, FS_Subset DEF ConfInv, Rows
    <3> QED BY <3>1, <3>2 DEF ConfInv, Rows
  <2> QED BY <1>8, <2>1, <2>2 DEF DeleteFloor, ConfInv, Snapshots
<1> QED BY <1>1, <1>2, <1>3, <1>4, <1>5, <1>6, <1>7, <1>8 DEF ConfNext

(* When no two calls overlap on a floor, the row a call writes is the latest *)
(* row of its floor, and the only draft if there is one.                     *)
LEMMA WrittenLatest ==
  ASSUME ConfInv, Serial, OneDraft, NEW k \in Call, call[k] # Idle, call[k].seen # {},
         call[k].floor \in floors \ overlapped
  PROVE  /\ Written(k) \in configurations
         /\ call[k].seen = Of(call[k].floor)
         /\ Written(k).floor = call[k].floor
         /\ \A d \in Of(call[k].floor) \ {Written(k)} :
              d.published /\ d.version < Written(k).version
         /\ Others(k) = configurations \ {Written(k)}
<1> DEFINE f == call[k].floor
           w == Written(k)
<1>1. call[k].seen = Of(f)
  BY DEF Serial, Busy
<1>2. w \in Of(f) /\ w \in Configuration /\ w.floor = f /\ \A d \in Of(f) : d.version <= w.version
  BY <1>1, WrittenSeen
<1>3. w \in configurations
  BY <1>2 DEF Of
<1>4. \A d \in Of(f) \ {w} : d.published /\ d.version < w.version
  <2>1. f \in Floor \ overlapped
    BY DEF ConfInv, ConfTypeOK
  <2>2. \A d \in Of(f) : d.version \in Nat
    BY DEF Of, ConfInv, ConfTypeOK, Configuration
  <2>3. w.version \in Nat
    BY <1>2 DEF Configuration
  <2> HIDE DEF w, f
  <2> QED BY <1>2, <2>1, <2>2, <2>3 DEF OneDraft
<1>5. Others(k) = configurations \ {w}
  <2> HIDE DEF w
  <2>1. Others(k) = {c \in configurations : c.floor # f \/ c.id # w.id}
    BY DEF Others, w
  <2>2. \A c \in configurations : c.floor = f /\ c.id = w.id <=> c = w
    BY <1>2, <1>3 DEF ConfInv, Rows
  <2> QED BY <2>1, <2>2
<1> QED BY <1>1, <1>2, <1>3, <1>4, <1>5

(* Calls that end leave the others alone on their floors, and the rows of    *)
(* all floors but theirs as they were.                                       *)
LEMMA SerialEnded ==
  ASSUME ConfInv, Serial, NEW k \in Call, call[k] # Idle,
         call' = [call EXCEPT ![k] = Idle],
         \A g \in Floor \ {call[k].floor} : Of(g)' = Of(g),
         UNCHANGED <<floors, overlapped>>
  PROVE  Serial'
<1> SUFFICES ASSUME NEW f \in floors' \ overlapped', NEW j \in Busy', call'[j].floor = f
             PROVE  /\ call'[j].seen = Of(f)'
                    /\ \A i \in Busy' : call'[i].floor = f => i = j
  BY DEF Serial
<1>1. \A i \in Busy' : i # k /\ call'[i] = call[i] /\ i \in Busy
  BY DEF Busy, ConfInv, ConfTypeOK
<1>2. f \in floors \ overlapped /\ f \in Floor
  BY DEF ConfInv, ConfTypeOK
<1>3. call[j].seen = Of(f) /\ \A i \in Busy : call[i].floor = f => i = j
  BY <1>1, <1>2 DEF Serial
<1>4. f # call[k].floor
  BY <1>1, <1>3 DEF Busy
<1> QED BY <1>1, <1>2, <1>3, <1>4

(* Other floors do not see what a call writes.                               *)
LEMMA OtherFloors ==
  ASSUME NEW k \in Call, NEW c0, c0.floor = call[k].floor,
         \/ configurations' = Others(k) \/ configurations' = Others(k) \cup {c0}
         \/ configurations' = configurations \cup {c0}
  PROVE  \A g \in Floor \ {call[k].floor} : Of(g)' = Of(g)
BY DEF Of, Others

(* OneDraft, for every floor but one.                                        *)
LEMMA DraftElsewhere ==
  ASSUME OneDraft, NEW f, overlapped \subseteq overlapped',
         \A g \in Floor \ {f} : Of(g)' = Of(g),
         f \in Floor \ overlapped' =>
           \A c, d \in Of(f)' : c # d => c.version # d.version /\ (c.version < d.version => c.published)
  PROVE  OneDraft'
BY DEF OneDraft

(* A call that writes over the latest row keeps its version and ends.        *)
LEMMA WrittenOver ==
  ASSUME ConfInv, Serial, OneDraft, NEW k \in Call, call[k] # Idle, call[k].seen # {},
         Present(k), NEW c0, c0.floor = call[k].floor, c0.version = Written(k).version,
         configurations' = Others(k) \/ configurations' = Others(k) \cup {c0},
         call' = [call EXCEPT ![k] = Idle], UNCHANGED <<floors, overlapped>>
  PROVE  Serial' /\ OneDraft'
<1>1. \A g \in Floor \ {call[k].floor} : Of(g)' = Of(g)
  BY OtherFloors
<1>2. Serial'
  BY <1>1, SerialEnded
<1>3. PICK f \in floors : f = call[k].floor
  BY DEF Present, Of, ConfInv, ConfTypeOK
<1>4. f \in Floor
  BY DEF ConfInv, ConfTypeOK
<1>5. ASSUME f \notin overlapped
      PROVE  \A c, d \in Of(f)' :
               c # d => c.version # d.version /\ (c.version < d.version => c.published)
  <2>1. PICK w : w = Written(k)
    OBVIOUS
  <2>2. /\ w \in Of(f) /\ w.floor = f
        /\ \A d \in Of(f) \ {w} : d.published /\ d.version < w.version
        /\ Others(k) = configurations \ {w}
    BY <1>3, <1>5, <2>1, WrittenLatest DEF Of
  <2>3. Of(f)' = Of(f) \ {w} \/ Of(f)' = (Of(f) \ {w}) \cup {c0}
    BY <1>3, <2>1, <2>2 DEF Of
  <2>4. c0.version = w.version /\ f \in Floor \ overlapped
    BY <1>4, <1>5, <2>1
  <2>5. \A d \in Of(f) : d.version \in Nat
    BY DEF Of, ConfInv, ConfTypeOK, Configuration
  <2> SUFFICES ASSUME NEW c \in Of(f)', NEW d \in Of(f)', c # d
               PROVE  c.version # d.version /\ (c.version < d.version => c.published)
    OBVIOUS
  <2>6. CASE c \in Of(f) \ {w} /\ d \in Of(f) \ {w}
    BY <2>4, <2>5, <2>6 DEF OneDraft
  <2>7. CASE c \in Of(f) \ {w} /\ d = c0
    BY <2>2, <2>4, <2>5, <2>7
  <2>8. CASE c = c0 /\ d \in Of(f) \ {w}
    BY <2>2, <2>4, <2>5, <2>8
  <2> QED BY <2>3, <2>6, <2>7, <2>8
<1>6. OneDraft'
  BY <1>1, <1>3, <1>5, DraftElsewhere
<1> QED BY <1>2, <1>6

(* Marking a call leaves all else of it.                                     *)
LEMMA MarkedCalls ==
  ASSUME ConfInv, NEW k \in Call, MarkEvicted(k)
  PROVE  /\ Busy' = Busy
         /\ \A j \in Call : /\ call'[j].op = call[j].op /\ call'[j].seen = call[j].seen
                            /\ call'[j].floor = call[j].floor /\ call'[j].row = call[j].row
<1>1. call[k] \in Transaction /\ k \in Busy
  BY BusyCalls DEF MarkEvicted, Publishing, ConfInv
<1>2. call' = [call EXCEPT ![k] = [call[k] EXCEPT !.evicted = TRUE]]
  BY DEF MarkEvicted
<1>3. call' \in [Call -> {Idle} \cup Transaction]
  BY ConfInvNext DEF ConfNext, ConfInv, ConfTypeOK
<1>4. ASSUME NEW j \in Call
      PROVE  /\ call'[j].op = call[j].op /\ call'[j].seen = call[j].seen
             /\ call'[j].floor = call[j].floor /\ call'[j].row = call[j].row
             /\ call'[j] # Idle <=> call[j] # Idle
  <2>1. CASE j = k
    BY <1>1, <1>2, <2>1 DEF ConfInv, ConfTypeOK, Transaction, Busy, Idle, Operation
  <2>2. CASE j # k
    BY <1>2, <2>2 DEF ConfInv, ConfTypeOK
  <2> QED BY <2>1, <2>2
<1> QED BY <1>4 DEF Busy

(* Calls that do not overlap see the rows there are and leave at most one    *)
(* draft.                                                                    *)
LEMMA SerialNext ==
  ASSUME ConfInv, Serial, OneDraft, ConfNext
  PROVE  Serial' /\ OneDraft'
<1>1. ASSUME NEW k \in Call, NEW op \in Operation, NEW f \in Floor, NEW N \in SUBSET Anchor,
             Begin(k, op, f, N)
      PROVE  Serial' /\ OneDraft'
  <2>1. UNCHANGED <<floors, configurations>> /\ overlapped \subseteq overlapped'
    BY <1>1 DEF Begin
  <2>2. \A g : Of(g)' = Of(g)
    BY <2>1 DEF Of
  <2>3. OneDraft'
    BY <2>1, <2>2 DEF OneDraft
  <2>4. /\ call' \in [Call -> {Idle} \cup Transaction]
        /\ call'[k].floor = f /\ call'[k].seen = Of(f)
        /\ \A j \in Call \ {k} : call'[j] = call[j]
    <3>1. \A j \in Call \ {k} : call'[j] = call[j]
      BY <1>1 DEF Begin, ConfInv, ConfTypeOK
    <3>2. call'[k].floor = f /\ call'[k].seen = Of(f)
      BY <1>1 DEF Begin, ConfInv, ConfTypeOK
    <3>3. ConfTypeOK'
      BY <1>1, ConfInvNext DEF ConfNext, ConfInv
    <3> QED BY <3>1, <3>2, <3>3 DEF ConfTypeOK
  <2>5. Serial'
    <3> SUFFICES ASSUME NEW g \in floors' \ overlapped', NEW j \in Busy', call'[j].floor = g
                 PROVE  /\ call'[j].seen = Of(g)'
                        /\ \A i \in Busy' : call'[i].floor = g => i = j
      BY DEF Serial
    <3>1. g \in floors \ overlapped
      BY <2>1
    <3>2. CASE g = f
      <4>1. f \notin FloorsOf(Busy)
        BY <1>1, <3>2 DEF Begin
      <4>2. \A i \in Busy : call[i].floor # f
        BY <4>1 DEF FloorsOf
      <4>3. \A i \in Busy' : call'[i].floor = f => i = k
        BY <2>4, <4>2 DEF Busy
      <4> QED BY <2>2, <2>4, <3>2, <4>3
    <3>3. CASE g # f
      <4>1. \A i \in Busy' : call'[i].floor = g => i \in Busy /\ call[i].floor = g /\ call'[i] = call[i]
        BY <2>4, <3>3 DEF Busy
      <4> QED BY <2>2, <3>1, <4>1 DEF Serial
    <3> QED BY <3>2, <3>3
  <2> QED BY <2>3, <2>5
<1>2. ASSUME NEW k \in Call, CommitSaveDraft(k)
      PROVE  Serial' /\ OneDraft'
  <2> DEFINE f == call[k].floor
  <2>1. /\ call[k] # Idle /\ call[k] \in Transaction /\ f \in Floor
        /\ call' = [call EXCEPT ![k] = Idle]
        /\ UNCHANGED <<floors, overlapped>>
    BY <1>2 DEF CommitSaveDraft, ConfInv, ConfTypeOK, Transaction
  <2>2. CASE Appends(call[k].seen)
    <3> DEFINE C == call[k].seen
               c0 == [id |-> inserted[f] + 1, floor |-> f, version |-> NextVersion(C),
                      names |-> call[k].names, published |-> FALSE]
    <3>1. configurations' = configurations \cup {c0} /\ f \in floors
      BY <1>2, <2>2 DEF CommitSaveDraft
    <3>2. c0.floor = f /\ c0.version = NextVersion(C)
      OBVIOUS
    <3> HIDE DEF c0
    <3>3. \A g \in Floor \ {f} : Of(g)' = Of(g)
      BY <3>1, <3>2, OtherFloors
    <3>4. Serial'
      BY <2>1, <3>3, SerialEnded
    <3>5. ASSUME f \notin overlapped
          PROVE  \A c, d \in Of(f) \cup {c0} :
                   c # d => c.version # d.version /\ (c.version < d.version => c.published)
      <4>1. C = Of(f)
        BY <2>1, <3>1, <3>5 DEF Serial, Busy
      <4>2. \A d \in Of(f) : d.version \in Nat
        BY DEF Of, ConfInv, ConfTypeOK, Configuration
      <4>3. \A d \in Of(f) : d.published /\ d.version < c0.version
        <5>1. CASE C = {}
          BY <4>1, <5>1
        <5>2. CASE C # {}
          <6>1. Latest(C).published /\ c0.version = Latest(C).version + 1
            BY <2>2, <3>2, <5>2 DEF Appends, NextVersion
          <6>2. /\ Latest(C) \in Of(f) /\ \A d \in Of(f) \ {Latest(C)} :
                     d.published /\ d.version < Latest(C).version
            BY <2>1, <3>1, <3>5, <5>2, <4>1, WrittenLatest, WrittenSeen DEF Written
          <6> HIDE DEF C, f
          <6> QED BY <4>2, <6>1, <6>2
        <5> QED BY <5>1, <5>2
      <4> SUFFICES ASSUME NEW c \in Of(f) \cup {c0}, NEW d \in Of(f) \cup {c0}, c # d
                   PROVE  c.version # d.version /\ (c.version < d.version => c.published)
        OBVIOUS
      <4>4. c0.version \in Nat
        <5>1. CASE C = {}
          BY <3>2, <5>1 DEF NextVersion
        <5>2. CASE C # {}
          BY <2>1, <3>2, <5>2, WrittenSeen DEF NextVersion, Written, Configuration
        <5> QED BY <5>1, <5>2
      <4>5. CASE c \in Of(f) /\ d \in Of(f)
        BY <2>1, <3>5, <4>5 DEF OneDraft
      <4>6. CASE c = c0 \/ d = c0
        <5> HIDE DEF f
        <5> QED BY <4>2, <4>3, <4>4, <4>6
      <4> QED BY <4>5, <4>6
    <3>6. \E g \in Floor : g = f /\ Of(g)' = Of(g) \cup {c0}
      BY <2>1, <3>1, <3>2 DEF Of
    <3>7. OneDraft'
      <4>1. PICK g \in Floor : g = f /\ Of(g)' = Of(g) \cup {c0}
        BY <3>6
      <4> HIDE DEF f
      <4> QED BY <2>1, <3>3, <3>5, <4>1, DraftElsewhere
    <3> QED BY <3>4, <3>7
  <2>3. CASE ~Appends(call[k].seen)
    <3> DEFINE c0 == [Written(k) EXCEPT !.names = call[k].names]
    <3>1. /\ call[k].seen # {} /\ Present(k)
          /\ configurations' = Others(k) \cup {c0}
      BY <1>2, <2>3 DEF CommitSaveDraft, Appends
    <3>2. c0.floor = f /\ c0.version = Written(k).version
      BY <2>1, <3>1, WrittenSeen DEF Configuration
    <3> HIDE DEF c0
    <3> QED BY <2>1, <3>1, <3>2, WrittenOver
  <2> QED BY <2>2, <2>3
<1>3. ASSUME NEW k \in Call, CommitPublish(k)
      PROVE  Serial' /\ OneDraft'
  <2> DEFINE c0 == [Written(k) EXCEPT !.published = TRUE]
  <2>1. /\ call[k] # Idle /\ call[k].seen # {} /\ Present(k)
        /\ call' = [call EXCEPT ![k] = Idle]
        /\ configurations' = Others(k) \cup {c0}
        /\ UNCHANGED <<floors, overlapped>>
    BY <1>3 DEF CommitPublish, ConfInv, Snapshots
  <2>2. c0.floor = call[k].floor /\ c0.version = Written(k).version
    BY <2>1, WrittenSeen DEF Configuration
  <2> HIDE DEF c0
  <2> QED BY <2>1, <2>2, WrittenOver
<1>4. ASSUME NEW k \in Call, CommitUndo(k)
      PROVE  Serial' /\ OneDraft'
  <2> DEFINE c0 == [Written(k) EXCEPT !.names = {}, !.published = FALSE]
  <2>1. /\ call[k] # Idle /\ call[k].seen # {} /\ Present(k)
        /\ call' = [call EXCEPT ![k] = Idle]
        /\ configurations' = Others(k) \/ configurations' = Others(k) \cup {c0}
        /\ UNCHANGED <<floors, overlapped>>
    BY <1>4 DEF CommitUndo, ConfInv, Snapshots
  <2>2. c0.floor = call[k].floor /\ c0.version = Written(k).version
    BY <2>1, WrittenSeen DEF Configuration
  <2> HIDE DEF c0
  <2> QED BY <2>1, <2>2, WrittenOver
<1>5. ASSUME NEW k \in Call, Rollback(k)
      PROVE  Serial' /\ OneDraft'
  <2>1. call[k] # Idle /\ call' = [call EXCEPT ![k] = Idle]
          /\ UNCHANGED <<floors, configurations, overlapped>>
    BY <1>5 DEF Rollback
  <2>2. \A g : Of(g)' = Of(g)
    BY <2>1 DEF Of
  <2>3. Serial'
    BY <2>1, <2>2, SerialEnded
  <2> QED BY <2>1, <2>2, <2>3 DEF OneDraft
<1>6. ASSUME NEW k \in Call, MarkEvicted(k)
      PROVE  Serial' /\ OneDraft'
  <2>1. UNCHANGED <<floors, configurations, overlapped>>
    BY <1>6 DEF MarkEvicted
  <2>2. \A g : Of(g)' = Of(g)
    BY <2>1 DEF Of
  <2>3. \A j \in Busy' : j \in Busy /\ call'[j].seen = call[j].seen /\ call'[j].floor = call[j].floor
    BY <1>6, MarkedCalls DEF Busy
  <2> QED BY <2>1, <2>2, <2>3 DEF OneDraft, Serial
<1>7. ASSUME NEW a \in Anchor, NEW p \in Place, UpdateAnchor(a, p)
      PROVE  Serial' /\ OneDraft'
  BY <1>7 DEF UpdateAnchor, Serial, OneDraft, Of, Busy
<1>8. ASSUME NEW f \in Floor, DeleteFloor(f)
      PROVE  Serial' /\ OneDraft'
  <2>1. /\ floors' = floors \ {f} /\ UNCHANGED <<overlapped, call>>
        /\ configurations' = {c \in configurations : c.floor # f}
    BY <1>8 DEF DeleteFloor
  <2>2. Of(f)' = {} /\ \A g \in Floor \ {f} : Of(g)' = Of(g)
    BY <2>1 DEF Of
  <2>3. floors \subseteq Floor
    BY DEF ConfInv, ConfTypeOK
  <2>4. Serial'
    BY <2>1, <2>2, <2>3 DEF Serial, Busy
  <2> QED BY <2>1, <2>2, <2>4 DEF OneDraft
<1> QED BY <1>1, <1>2, <1>3, <1>4, <1>5, <1>6, <1>7, <1>8 DEF ConfNext

(* Publications that are still in progress when a call ends.                 *)
LEMMA StillPublishing ==
  ASSUME ConfInv, NEW k \in Call, call' = [call EXCEPT ![k] = Idle]
  PROVE  \A j \in Publishing' : j # k /\ j \in Publishing /\ call'[j] = call[j]
BY DEF Publishing, Busy, ConfInv, ConfTypeOK

(* Whatever moves an anchor while a publication is in progress is known to   *)
(* mingle with it.                                                           *)
LEMMA PlacesNext ==
  ASSUME ConfInv, Places, ConfNext
  PROVE  Places'
<1>0. /\ \A k \in Publishing : call[k] \in Transaction /\ k \in Call /\ k \in Busy
      /\ row \in [Anchor -> Place] /\ floors \subseteq Floor
  BY BusyCalls DEF Publishing, Busy, ConfInv, ConfTypeOK, Place
<1>1. ASSUME NEW k \in Call, NEW op \in Operation, NEW f \in Floor, NEW N \in SUBSET Anchor,
             Begin(k, op, f, N)
      PROVE  Places'
  <2>1. /\ call[k] = Idle /\ UNCHANGED <<floors, row>> /\ mingled \subseteq mingled'
        /\ \A j \in Call \ {k} : call'[j] = call[j]
        /\ call'[k].floor = f /\ call'[k].row = row /\ call'[k].op = op
    BY <1>1 DEF Begin, ConfInv, ConfTypeOK
  <2>2. \A j \in Publishing' : j # k => j \in Publishing
    BY <2>1 DEF Publishing, Busy
  <2>3. ASSUME NEW j \in Publishing', NEW i \in Publishing', i # j
        PROVE  call'[j].floor \in mingled'
    <3>1. CASE j # k /\ i # k
      BY <2>1, <2>2, <2>3, <3>1, <1>0 DEF Places
    <3>2. CASE j = k
      <4>1. op = "publish" /\ i \in Publishing
        BY <2>1, <2>2, <2>3, <3>2 DEF Publishing
      <4> QED BY <1>1, <2>1, <3>2, <4>1 DEF Begin
    <3>3. CASE i = k
      <4>1. op = "publish" /\ j \in Publishing /\ call'[j] = call[j]
        BY <2>1, <2>2, <2>3, <3>3, <1>0 DEF Publishing
      <4>2. call[j].floor \in FloorsOf(Publishing)
        BY <4>1 DEF FloorsOf
      <4> QED BY <1>1, <4>1, <4>2 DEF Begin
    <3> QED BY <3>1, <3>2, <3>3
  <2>4. ASSUME NEW j \in Publishing', NEW a \in Anchor, row'[a] # call'[j].row[a]
        PROVE  /\ row'[a] # NoFloor => row'[a] \in mingled'
               /\ call'[j].row[a] = call'[j].floor /\ call'[j].floor \in floors'
                    => call'[j].floor \in mingled'
    <3>1. j # k
      BY <2>1, <2>4
    <3> QED BY <2>1, <2>2, <2>4, <3>1, <1>0 DEF Places
  <2> QED BY <2>3, <2>4 DEF Places
<1>2. ASSUME NEW k \in Call,
             CommitSaveDraft(k) \/ CommitUndo(k) \/ Rollback(k)
      PROVE  Places'
  <2>1. call' = [call EXCEPT ![k] = Idle] /\ UNCHANGED <<floors, row, mingled>>
    BY <1>2 DEF CommitSaveDraft, CommitUndo, Rollback
  <2>2. \A j \in Publishing' : j \in Publishing /\ call'[j] = call[j]
    BY <2>1, StillPublishing
  <2> QED BY <2>1, <2>2 DEF Places
<1>3. ASSUME NEW k \in Call, CommitPublish(k)
      PROVE  Places'
  <2>1. /\ call' = [call EXCEPT ![k] = Idle] /\ UNCHANGED <<floors, mingled>>
        /\ row' = Placed(call[k].floor, call[k].row, Written(k).names)
        /\ k \in Publishing
    BY <1>3 DEF CommitPublish, Publishing, Busy
  <2>2. \A j \in Publishing' : j # k /\ j \in Publishing /\ call'[j] = call[j]
    BY <2>1, StillPublishing
  <2>3. ASSUME NEW j \in Publishing', NEW a \in Anchor, row'[a] # call'[j].row[a]
        PROVE  /\ row'[a] # NoFloor => row'[a] \in mingled'
               /\ call'[j].floor \in mingled'
    <3>1. call[j].floor \in mingled /\ call[k].floor \in mingled
      BY <2>1, <2>2 DEF Places
    <3>2. row'[a] \in {call[k].floor, NoFloor, row[a]}
      BY <2>1 DEF Placed
    <3>3. row'[a] = row[a] /\ row'[a] # NoFloor => row'[a] \in mingled
      BY <2>2, <2>3 DEF Places
    <3> QED BY <2>1, <2>2, <3>1, <3>2, <3>3
  <2> QED BY <2>1, <2>2, <2>3 DEF Places
<1>4. ASSUME NEW k \in Call, MarkEvicted(k)
      PROVE  Places'
  <2>1. UNCHANGED <<floors, row, mingled>>
    BY <1>4 DEF MarkEvicted
  <2>2. \A j \in Call : call'[j].floor = call[j].floor /\ call'[j].row = call[j].row
    BY <1>4, MarkedCalls
  <2>3. Publishing' = Publishing
    BY <1>4, MarkedCalls DEF Publishing, Busy
  <2> QED BY <1>0, <2>1, <2>2, <2>3 DEF Places
<1>5. ASSUME NEW a \in Anchor, NEW p \in Place, UpdateAnchor(a, p)
      PROVE  Places'
  <2>1. UNCHANGED <<floors, call>> /\ Publishing' = Publishing
    BY <1>5 DEF UpdateAnchor, Publishing, Busy
  <2>2. \A j \in Publishing : call[j].floor \in FloorsOf(Publishing)
    BY DEF FloorsOf
  <2>3. \A j \in Publishing : call[j].floor \in mingled' /\ (p # NoFloor => p \in mingled')
    BY <1>5, <2>2 DEF UpdateAnchor, Place
  <2>4. mingled \subseteq mingled' /\ row' = [row EXCEPT ![a] = p]
    BY <1>5 DEF UpdateAnchor
  <2> QED BY <1>0, <2>1, <2>3, <2>4 DEF Places
<1>6. ASSUME NEW f \in Floor, DeleteFloor(f)
      PROVE  Places'
  <2>1. /\ UNCHANGED <<call, mingled>> /\ Publishing' = Publishing
        /\ floors' = floors \ {f} /\ row' = Released(f)
    BY <1>6 DEF DeleteFloor, Publishing, Busy
  <2>2. ASSUME NEW j \in Publishing, NEW a \in Anchor, row'[a] # call[j].row[a]
        PROVE  /\ row'[a] # NoFloor => row'[a] \in mingled
               /\ call[j].row[a] = call[j].floor /\ call[j].floor \in floors'
                    => call[j].floor \in mingled
    <3>1. CASE row[a] = f
      BY <2>1, <2>2, <3>1 DEF Released, Places
    <3>2. CASE row[a] # f
      BY <2>1, <2>2, <3>2 DEF Released, Places
    <3> QED BY <3>1, <3>2
  <2> QED BY <2>1, <2>2 DEF Places
<1> QED BY <1>1, <1>2, <1>3, <1>4, <1>5, <1>6 DEF ConfNext

(* A floor with the published rows it had names what it named.               *)
LEMMA LiveSame ==
  ASSUME NEW f, {c \in Of(f)' : c.published} = {c \in Of(f) : c.published}
  PROVE  LivePublished(f)' = LivePublished(f)
<1> DEFINE Live(S) == IF S = {} THEN {} ELSE Latest(S).names
<1>1. LivePublished(f) = Live({c \in Of(f) : c.published})
  BY DEF LivePublished
<1>2. LivePublished(f)' = Live({c \in Of(f)' : c.published})
  BY DEF LivePublished, Latest
<1> HIDE DEF Live
<1> QED BY <1>1, <1>2

(* A draft that comes, changes or goes leaves the published rows alone.      *)
LEMMA DraftUnseen ==
  ASSUME ConfInv, Serial, OneDraft, NEW k \in Call, call[k] # Idle, call[k].seen # {},
         NEW f \in floors \ overlapped, ~Written(k).published,
         NEW c0, c0.floor = call[k].floor, ~c0.published,
         configurations' = Others(k) \/ configurations' = Others(k) \cup {c0}
  PROVE  LivePublished(f)' = LivePublished(f)
<1>1. CASE f = call[k].floor
  <2>1. Others(k) = configurations \ {Written(k)}
    BY <1>1, WrittenLatest
  <2>2. {c \in Of(f)' : c.published} = {c \in Of(f) : c.published}
    BY <2>1 DEF Of
  <2> QED BY <2>2, LiveSame
<1>2. CASE f # call[k].floor
  <2>1. {c \in Of(f)' : c.published} = {c \in Of(f) : c.published}
    BY <1>2 DEF Of, Others
  <2> QED BY <2>1, LiveSame
<1> QED BY <1>1, <1>2

(* What a floor publishes is what it names next.                             *)
LEMMA PublishedLive ==
  ASSUME ConfInv, Serial, OneDraft, NEW k \in Call, CommitPublish(k),
         NEW f \in floors \ overlapped, f = call[k].floor
  PROVE  LivePublished(f)' = Written(k).names
<1> DEFINE w == Written(k)
           c0 == [w EXCEPT !.published = TRUE]
           P == {c \in Of(f)' : c.published}
<1>1. ConfInv'
  BY ConfInvNext DEF ConfNext
<1>2. call[k] # Idle /\ call[k].seen # {}
  BY DEF CommitPublish, ConfInv, Snapshots
<1>3. /\ w \in Configuration /\ w.floor = f
      /\ \A d \in Of(f) \ {w} : d.published /\ d.version < w.version
      /\ Others(k) = configurations \ {w}
  BY <1>2, WrittenLatest, WrittenSeen
<1>4. c0 \in Configuration /\ c0.floor = f /\ c0.version = w.version /\ c0.published /\ c0.names = w.names
  BY <1>3 DEF Configuration
<1>5. configurations' = Others(k) \cup {c0}
  BY DEF CommitPublish
<1> HIDE DEF c0, w
<1>6. Of(f)' = (Of(f) \ {w}) \cup {c0}
  BY <1>3, <1>4, <1>5 DEF Of
<1>7. P \subseteq Configuration /\ P # {} /\ IsFiniteSet(P)
  <2>1. P \subseteq configurations'
    BY DEF Of
  <2> QED BY <1>1, <1>4, <1>6, <2>1, FS_Subset DEF ConfInv, ConfTypeOK, Rows
<1>8. Latest(P) \in P /\ \A d \in P : d.version <= Latest(P).version
  <2> HIDE DEF P
  <2> QED BY <1>7, LatestExists
<1>9. Latest(P) = c0
  <2>1. c0 \in P /\ \A d \in P : d # c0 => d.version < c0.version
    BY <1>3, <1>4, <1>6
  <2>2. \A d \in P : d.version \in Nat
    BY <1>7 DEF Configuration
  <2> HIDE DEF P
  <2> QED BY <1>8, <2>1, <2>2
<1>10. LivePublished(f)' = Latest(P).names
  BY <1>7 DEF LivePublished, Latest
<1> QED BY <1>4, <1>9, <1>10 DEF w

(* The floor that is published gets exactly its anchors, and the others keep *)
(* theirs but for those they lose to it.                                     *)
LEMMA PlacedNext ==
  ASSUME ConfInv, Serial, OneDraft, Places, PlacedAsPublished, ConfNext
  PROVE  PlacedAsPublished'
<1>0. /\ row \in [Anchor -> Place] /\ floors \subseteq Floor /\ NoFloor \notin floors
      /\ touched \in [Floor -> SUBSET Anchor]
  BY ConfigurationsAssumption DEF ConfInv, ConfTypeOK, Place
<1>a. ASSUME UNCHANGED <<row, touched>>, floors' \subseteq floors,
             overlapped \subseteq overlapped', mingled \subseteq mingled', undone \subseteq undone',
             \A f \in floors' \ (overlapped' \cup undone') : LivePublished(f)' = LivePublished(f)
      PROVE  PlacedAsPublished'
  BY <1>a DEF PlacedAsPublished
<1>1. ASSUME NEW k \in Call, NEW op \in Operation, NEW f \in Floor, NEW N \in SUBSET Anchor,
             Begin(k, op, f, N)
      PROVE  PlacedAsPublished'
  <2>1. /\ UNCHANGED <<row, touched, floors, configurations, undone>>
        /\ overlapped \subseteq overlapped' /\ mingled \subseteq mingled'
    BY <1>1 DEF Begin
  <2>2. \A g : LivePublished(g)' = LivePublished(g)
    BY <2>1 DEF LivePublished, Of, Latest
  <2> QED BY <1>a, <2>1, <2>2
<1>2. ASSUME NEW k \in Call, CommitSaveDraft(k)
      PROVE  PlacedAsPublished'
  <2>1. UNCHANGED <<row, touched, floors, overlapped, mingled, undone>> /\ call[k] # Idle
    BY <1>2 DEF CommitSaveDraft
  <2>2. CASE Appends(call[k].seen)
    <3> DEFINE c0 == [id |-> inserted[call[k].floor] + 1, floor |-> call[k].floor,
                      version |-> NextVersion(call[k].seen),
                      names |-> call[k].names, published |-> FALSE]
    <3>1. configurations' = configurations \cup {c0} /\ ~c0.published
      BY <1>2, <2>2 DEF CommitSaveDraft
    <3> HIDE DEF c0
    <3>2. \A g : {c \in Of(g)' : c.published} = {c \in Of(g) : c.published}
      BY <3>1 DEF Of
    <3>3. \A g : LivePublished(g)' = LivePublished(g)
      BY <3>2, LiveSame
    <3> QED BY <1>a, <2>1, <3>3
  <2>3. CASE ~Appends(call[k].seen)
    <3> DEFINE c0 == [Written(k) EXCEPT !.names = call[k].names]
    <3>1. /\ call[k].seen # {} /\ ~Written(k).published
          /\ configurations' = Others(k) \cup {c0}
      BY <1>2, <2>3 DEF CommitSaveDraft, Appends, Written
    <3>2. c0.floor = call[k].floor /\ ~c0.published
      BY <2>1, <3>1, WrittenSeen DEF Configuration
    <3> HIDE DEF c0
    <3>3. \A g \in floors \ overlapped : LivePublished(g)' = LivePublished(g)
      BY <2>1, <3>1, <3>2, DraftUnseen
    <3> QED BY <1>a, <2>1, <3>3
  <2> QED BY <2>2, <2>3
<1>3. ASSUME NEW k \in Call, CommitPublish(k)
      PROVE  PlacedAsPublished'
  <2>1. PICK f \in floors : f = call[k].floor
    BY <1>3 DEF CommitPublish, Present, Of, ConfInv, ConfTypeOK
  <2>2. PICK N : N = Written(k).names
    OBVIOUS
  <2>3. PICK seen : seen = call[k].row
    OBVIOUS
  <2>4. /\ row' = Placed(f, seen, N)
        /\ touched' = [g \in Floor |-> IF g = f THEN {} ELSE touched[g] \cup N]
        /\ undone' = undone \ {f}
        /\ UNCHANGED <<floors, overlapped, mingled>>
    BY <1>3, <2>1, <2>2, <2>3 DEF CommitPublish
  <2>5. k \in Publishing /\ \A a \in Anchor : row[a] # seen[a] /\ row[a] # NoFloor => row[a] \in mingled
    BY <1>3, <2>3 DEF CommitPublish, Publishing, Busy, Places
  <2> SUFFICES ASSUME NEW g \in floors' \ (overlapped' \cup mingled' \cup undone'),
                      NEW a \in Anchor \ touched'[g]
               PROVE  row'[a] = g <=> a \in LivePublished(g)'
    BY DEF PlacedAsPublished
  <2>6. CASE g = f
    <3>1. LivePublished(g)' = N
      BY <1>3, <2>1, <2>2, <2>4, <2>6, PublishedLive
    <3>2. a \notin N /\ seen[a] # f => row[a] # f
      BY <1>0, <2>4, <2>5, <2>6
    <3> QED BY <1>0, <2>4, <2>6, <3>1, <3>2 DEF Placed
  <2>7. CASE g # f
    <3>1. LivePublished(g)' = LivePublished(g)
      <4>1. configurations' = Others(k) \cup {[Written(k) EXCEPT !.published = TRUE]}
        BY <1>3 DEF CommitPublish
      <4>2. [Written(k) EXCEPT !.published = TRUE].floor = f
        BY <1>3, <2>1, WrittenSeen DEF CommitPublish, ConfInv, Snapshots, Configuration
      <4>3. Of(g)' = Of(g)
        BY <2>1, <2>7, <4>1, <4>2 DEF Of, Others
      <4> QED BY <4>3, LiveSame
    <3>2. g \in floors \ (overlapped \cup mingled \cup undone) /\ g \in Floor
      BY <1>0, <2>4, <2>7
    <3>3. a \notin N /\ a \notin touched[g]
      BY <1>0, <2>4, <2>7, <3>2
    <3>4. row[a] = g <=> a \in LivePublished(g)
      BY <3>2, <3>3 DEF PlacedAsPublished
    <3>5. seen[a] = f => row[a] # g
      BY <1>0, <2>5, <2>7, <3>2
    <3> QED BY <1>0, <2>4, <3>1, <3>2, <3>3, <3>4, <3>5 DEF Placed
  <2> QED BY <2>6, <2>7
<1>4. ASSUME NEW k \in Call, CommitUndo(k)
      PROVE  PlacedAsPublished'
  <2> DEFINE c0 == [Written(k) EXCEPT !.names = {}, !.published = FALSE]
  <2>1. /\ call[k] # Idle /\ call[k].seen # {}
        /\ configurations' = Others(k) \/ configurations' = Others(k) \cup {c0}
        /\ undone' = IF Written(k).published THEN undone \cup {call[k].floor} ELSE undone
        /\ UNCHANGED <<floors, row, overlapped, mingled, touched>>
    BY <1>4 DEF CommitUndo, ConfInv, Snapshots
  <2>2. c0.floor = call[k].floor /\ ~c0.published
    BY <2>1, WrittenSeen DEF Configuration
  <2> HIDE DEF c0
  <2>3. ASSUME NEW g \in floors \ (overlapped \cup undone')
        PROVE  LivePublished(g)' = LivePublished(g)
    <3>1. CASE ~Written(k).published
      BY <2>1, <2>2, <3>1, DraftUnseen
    <3>2. CASE Written(k).published
      <4>1. g # call[k].floor
        BY <2>1, <3>2
      <4>2. Of(g)' = Of(g)
        BY <2>1, <2>2, <4>1 DEF Of, Others
      <4> QED BY <4>2, LiveSame
    <3> QED BY <3>1, <3>2
  <2> QED BY <1>a, <2>1, <2>3
<1>5. ASSUME NEW k \in Call, Rollback(k) \/ MarkEvicted(k)
      PROVE  PlacedAsPublished'
  <2>1. UNCHANGED <<row, touched, floors, configurations, overlapped, mingled, undone>>
    BY <1>5 DEF Rollback, MarkEvicted
  <2>2. \A g : LivePublished(g)' = LivePublished(g)
    BY <2>1 DEF LivePublished, Of, Latest
  <2> QED BY <1>a, <2>1, <2>2
<1>6. ASSUME NEW b \in Anchor, NEW p \in Place, UpdateAnchor(b, p)
      PROVE  PlacedAsPublished'
  <2>1. /\ UNCHANGED <<floors, configurations, overlapped, undone>> /\ mingled \subseteq mingled'
        /\ row' = [row EXCEPT ![b] = p] /\ touched' = [f \in Floor |-> touched[f] \cup {b}]
    BY <1>6 DEF UpdateAnchor
  <2>2. \A g : LivePublished(g)' = LivePublished(g)
    BY <2>1 DEF LivePublished, Of, Latest
  <2> QED BY <1>0, <2>1, <2>2 DEF PlacedAsPublished
<1>7. ASSUME NEW f \in Floor, DeleteFloor(f)
      PROVE  PlacedAsPublished'
  <2>1. /\ UNCHANGED <<overlapped, mingled, undone, touched>>
        /\ floors' = floors \ {f} /\ row' = Released(f)
        /\ configurations' = {c \in configurations : c.floor # f}
    BY <1>7 DEF DeleteFloor
  <2>2. \A g : g # f => Of(g)' = Of(g)
    BY <2>1 DEF Of
  <2>3. \A g \in floors' : LivePublished(g)' = LivePublished(g)
    BY <2>1, <2>2, LiveSame
  <2>4. \A g \in floors', a \in Anchor : row'[a] = g <=> row[a] = g
    BY <1>0, <2>1 DEF Released
  <2> QED BY <2>1, <2>3, <2>4 DEF PlacedAsPublished
<1> QED BY <1>1, <1>2, <1>3, <1>4, <1>5, <1>6, <1>7 DEF ConfNext

(* At the start each floor carries the anchors of its only version.          *)
LEMMA PlacedInit ==
  ASSUME ConfInit
  PROVE  Serial /\ OneDraft /\ Places /\ PlacedAsPublished
<1>1. Busy = {}
  BY DEF ConfInit, Busy
<1>2. Serial /\ Places
  BY <1>1 DEF Serial, Places, Publishing
<1> DEFINE new(f) == [id |-> 1, floor |-> f, version |-> 0, names |-> First[f], published |-> TRUE]
<1>3. ASSUME NEW f \in Floor
      PROVE  /\ First[f] # {} => Of(f) = {new(f)}
             /\ First[f] = {} => Of(f) = {}
  <2>1. configurations = {new(g) : g \in {h \in Floor : First[h] # {}}}
    BY DEF ConfInit
  <2>2. \A g : new(g).floor = g
    OBVIOUS
  <2> HIDE DEF new
  <2> QED BY <2>1, <2>2 DEF Of
<1>4. OneDraft
  <2> HIDE DEF new
  <2> QED BY <1>3 DEF OneDraft
<1>5. ASSUME NEW f \in Floor
      PROVE  LivePublished(f) = First[f]
  <2>1. CASE First[f] = {}
    <3>1. {c \in Of(f) : c.published} = {}
      BY <1>3, <2>1
    <3> QED BY <2>1, <3>1 DEF LivePublished
  <2>2. CASE First[f] # {}
    <3>1. {c \in Of(f) : c.published} = {new(f)}
      BY <1>3, <2>2
    <3>2. Latest({new(f)}) = new(f)
      BY DEF Latest
    <3> DEFINE Live(S) == IF S = {} THEN {} ELSE Latest(S).names
    <3>3. LivePublished(f) = Live({c \in Of(f) : c.published})
      BY DEF LivePublished
    <3>4. Live({new(f)}) = First[f]
      BY <3>2
    <3> HIDE DEF Live
    <3> QED BY <3>1, <3>3, <3>4
  <2> QED BY <2>1, <2>2
<1>6. PlacedAsPublished
  BY <1>5 DEF PlacedAsPublished, ConfInit
<1> QED BY <1>2, <1>4, <1>6

------------------------------------------------------------------------------
(* The loop of sendCoordinates over the frontends.                          *)

(* Short of a tag set twice, the list holds what is asked for, once.         *)
AsAsked ==
    \A x \in Frontend \ doubled, g \in Tag : Times(x, g) = IF g \in asked[x] THEN 1 ELSE 0

(* Nothing is owed to a frontend that its filter would not let through.      *)
OwedAllowed == \A p \in owed : link[p[1]] = "up" /\ Allowed(p[1], p[2])

(* In a quiet loop nothing is thrown at any frontend still to come.          *)
QuietReady ==
    round.quiet => \A x \in Frontend :
        x = round.at \/ x \in round.left => link[x] = "up" /\ filter[x].floor # NoFloor

FrontPart == FrontTypeOK /\ AsAsked /\ OwedAllowed /\ QuietReady /\ EachDelivered

(* The tags of coordinates are tags, so that they are in the filters.        *)
Tagged == \A c \in sent : c.tag \in Tag

LEMMA FrontPartInit == FrontInit => FrontPart
<1> SUFFICES ASSUME FrontInit PROVE FrontPart
  OBVIOUS
<1> USE FrontendsAssumption DEF FrontInit
<1>1. NoFilter \in Filter /\ \A g \in Tag : NoFilter.tags[g] = 0
  BY DEF NoFilter, Filter, Place
<1>2. NoRound \in [batch : SUBSET sent, left : SUBSET Known,
                   at : Frontend \cup {Nobody}, quiet : BOOLEAN]
  BY DEF NoRound
<1>3. FrontTypeOK
  BY <1>1, <1>2 DEF FrontTypeOK
<1>4. AsAsked
  BY <1>1 DEF AsAsked, Times
<1>5. QuietReady
  BY DEF QuietReady, NoRound
<1> QED BY <1>3, <1>4, <1>5 DEF FrontPart, OwedAllowed, EachDelivered

LEMMA FrontQuiet ==
  ASSUME FrontPart, UNCHANGED frontVars, sent \subseteq sent'
  PROVE  FrontPart'
<1> USE DEF frontVars
<1>1. Known' = Known /\ Filter' = Filter
  BY DEF Known, Filter, Place
<1>2. FrontTypeOK'
  BY <1>1 DEF FrontPart, FrontTypeOK, NoFilter
<1>3. AsAsked' /\ OwedAllowed'
  BY DEF FrontPart, AsAsked, OwedAllowed, Times, Allowed
<1>4. QuietReady' /\ EachDelivered'
  BY DEF FrontPart, QuietReady, EachDelivered
<1> QED BY <1>2, <1>3, <1>4 DEF FrontPart
------------------------------------------------------------------------------
(* What is left of a loop stays within its types.                            *)
LEMMA DisturbedRound ==
  ASSUME FrontTypeOK
  PROVE  /\ Disturbed.batch = round.batch /\ Disturbed.left = round.left
         /\ Disturbed.at = round.at
         /\ Disturbed.quiet => round = NoRound /\ Disturbed = NoRound
         /\ Disturbed \in [batch : SUBSET sent, left : SUBSET Known,
                           at : Frontend \cup {Nobody}, quiet : BOOLEAN]
BY DEF FrontTypeOK, Disturbed, NoRound

(* A frontend that connects has an empty filter and nothing owed to it.      *)
LEMMA ConnectStep ==
  ASSUME FrontPart, NEW x \in Frontend, Connect(x), UNCHANGED sent
  PROVE  FrontPart'
<1> USE FrontendsAssumption
<1>0. FrontTypeOK
  BY DEF FrontPart
<1>1. /\ link' = [link EXCEPT ![x] = "up"] /\ link[x] = "new"
      /\ UNCHANGED <<filter, asked, doubled>>
  BY DEF Connect
<1>2. Known' = Known \cup {x} /\ x \notin Known
  BY <1>0, <1>1 DEF Known, FrontTypeOK
<1>3. /\ round'.batch = round.batch /\ round'.at = round.at
      /\ round' \in [batch : SUBSET sent', left : SUBSET Known',
                     at : Frontend \cup {Nobody}, quiet : BOOLEAN]
      /\ round'.quiet => round' = NoRound
      /\ owed' \subseteq owed
      /\ \A p \in owed' : p[1] \in round.left \cup {round.at} =>
                          p[1] \in round'.left \cup {round'.at}
  <2>1. CASE round' = Disturbed /\ UNCHANGED owed
    BY <1>0, <1>2, <2>1, DisturbedRound
  <2>2. CASE /\ round # NoRound /\ round' = [Disturbed EXCEPT !.left = @ \cup {x}]
             /\ UNCHANGED owed
    BY <1>0, <1>2, <2>2, DisturbedRound
  <2>3. CASE /\ round # NoRound /\ round' = [Disturbed EXCEPT !.left = {}]
             /\ owed' = {p \in owed : p[1] = round.at}
    BY <1>0, <1>2, <2>3, DisturbedRound
  <2> QED BY <2>1, <2>2, <2>3 DEF Connect
<1>4. FrontTypeOK'
  <2>1. \A y \in Frontend \ Known' : filter'[y] = NoFilter'
    BY <1>0, <1>1, <1>2 DEF FrontTypeOK, NoFilter
  <2> QED BY <1>0, <1>1, <1>2, <1>3, <2>1 DEF FrontTypeOK, Filter, Place
<1>5. AsAsked'
  BY <1>1 DEF FrontPart, AsAsked, Times
<1>6. OwedAllowed'
  BY <1>0, <1>1, <1>2, <1>3 DEF FrontPart, FrontTypeOK, OwedAllowed, Allowed, Times
<1>7. QuietReady'
  BY <1>3 DEF QuietReady, NoRound
<1>8. EachDelivered'
  BY <1>3 DEF FrontPart, EachDelivered
<1> QED BY <1>4, <1>5, <1>6, <1>7, <1>8 DEF FrontPart

(* A lost connection, and its end, leave nothing owed to that frontend.      *)
LEMMA LeaveStep ==
  ASSUME FrontPart, NEW x \in Frontend, Lose(x) \/ Disconnect(x), UNCHANGED sent
  PROVE  FrontPart'
<1> USE FrontendsAssumption
<1>0. FrontTypeOK
  BY DEF FrontPart
<1>1. NoFilter \in Filter /\ \A g \in Tag : NoFilter.tags[g] = 0
  BY DEF NoFilter, Filter, Place
<1>2. /\ UNCHANGED doubled
      /\ \A y \in Frontend : y # x => link'[y] = link[y]
      /\ link' \in [Frontend -> {"new", "up", "lost", "closed"}]
      /\ \A y \in Frontend : \/ filter'[y] = filter[y] /\ asked'[y] = asked[y]
                             \/ y = x /\ filter'[y] = NoFilter /\ asked'[y] = {}
      /\ filter' \in [Frontend -> Filter] /\ asked' \in [Frontend -> SUBSET Tag]
  BY <1>0, <1>1 DEF Lose, Disconnect, FrontTypeOK
<1>3. \A p \in owed' : p \in owed /\ p[1] # x
  BY <1>0 DEF FrontPart, OwedAllowed, FrontTypeOK, Lose, Disconnect, Withdraw
<1>4. Known \ {x} \subseteq Known' /\ \A y \in Frontend \ Known' : filter'[y] = NoFilter
  BY <1>0, <1>2 DEF Known, Lose, Disconnect, FrontTypeOK
<1>5. /\ round'.batch = round.batch /\ round'.at = round.at
      /\ round' \in [batch : SUBSET sent', left : SUBSET Known',
                     at : Frontend \cup {Nobody}, quiet : BOOLEAN]
      /\ round'.quiet => round.left = {} /\ round.at = Nobody
      /\ round'.left \subseteq round.left /\ round.left \ {x} \subseteq round'.left
  <2>1. CASE Lose(x)
    <3>1. round' = Disturbed /\ Known' = Known
      BY <1>0, <2>1 DEF Lose, Known, FrontTypeOK
    <3> QED BY <1>0, <3>1, DisturbedRound DEF NoRound
  <2>2. CASE Disconnect(x)
    <3>1. round' = [Disturbed EXCEPT !.left = @ \ {x}]
      BY <2>2 DEF Disconnect
    <3> QED BY <1>0, <1>4, <3>1, DisturbedRound DEF NoRound
  <2> QED BY <2>1, <2>2
<1>6. FrontTypeOK'
  <2>1. owed' \subseteq Known' \X sent'
    BY <1>0, <1>3, <1>4 DEF FrontTypeOK
  <2>2. NoFilter' = NoFilter /\ Filter' = Filter
    BY DEF NoFilter, Filter, Place
  <2> QED BY <1>0, <1>2, <1>4, <1>5, <2>1, <2>2 DEF FrontTypeOK
<1>7. AsAsked'
  BY <1>1, <1>2 DEF FrontPart, AsAsked, Times
<1>8. OwedAllowed'
  <2> SUFFICES ASSUME NEW p \in owed' PROVE link'[p[1]] = "up" /\ Allowed(p[1], p[2])'
    BY DEF OwedAllowed
  <2>1. p \in owed /\ p[1] # x /\ p[1] \in Frontend
    BY <1>0, <1>3 DEF FrontTypeOK, Known
  <2>2. link'[p[1]] = link[p[1]] /\ filter'[p[1]] = filter[p[1]]
    BY <1>2, <2>1
  <2> QED BY <2>1, <2>2 DEF FrontPart, OwedAllowed, Allowed, Times
<1>9. QuietReady'
  BY <1>5 DEF QuietReady
<1>10. EachDelivered'
  BY <1>3, <1>5 DEF FrontPart, EachDelivered
<1> QED BY <1>6, <1>7, <1>8, <1>9, <1>10 DEF FrontPart

------------------------------------------------------------------------------
(* What a command leaves of the filter of its frontend.                      *)
LEMMA CommandStep ==
  ASSUME FrontPart, NEW x \in Frontend, NEW v \in Filter, link[x] = "up",
         filter' = [filter EXCEPT ![x] = v], Withdraw(x), UNCHANGED <<link, round, sent>>,
         asked' \in [Frontend -> SUBSET Tag], doubled \subseteq doubled', doubled' \subseteq Frontend,
         \A y \in Frontend : y # x => asked'[y] = asked[y],
         x \notin doubled' => \A g \in Tag : v.tags[g] = IF g \in asked'[x] THEN 1 ELSE 0,
         filter[x].floor # NoFloor => v.floor # NoFloor
  PROVE  FrontPart'
<1>0. FrontTypeOK
  BY DEF FrontPart
<1>1. Known' = Known /\ x \in Known
  BY DEF Known
<1>2. \A p \in owed' : p \in owed /\ p[1] # x
  BY DEF Withdraw
<1>3. \A y \in Frontend : filter'[y] = IF y = x THEN v ELSE filter[y]
  BY <1>0 DEF FrontTypeOK
<1>4. FrontTypeOK'
  <2>1. NoFilter' = NoFilter /\ Filter' = Filter
    BY DEF NoFilter, Filter, Place
  <2> QED BY <1>0, <1>1, <1>2, <1>3, <2>1 DEF FrontTypeOK
<1>5. AsAsked'
  BY <1>3 DEF FrontPart, AsAsked, Times
<1>6. OwedAllowed'
  <2> SUFFICES ASSUME NEW p \in owed' PROVE link'[p[1]] = "up" /\ Allowed(p[1], p[2])'
    BY DEF OwedAllowed
  <2>1. p \in owed /\ p[1] # x /\ p[1] \in Frontend
    BY <1>0, <1>2 DEF FrontTypeOK, Known
  <2> QED BY <1>3, <2>1 DEF FrontPart, OwedAllowed, Allowed, Times
<1>7. QuietReady'
  BY <1>3 DEF FrontPart, QuietReady
<1>8. EachDelivered'
  BY <1>2 DEF FrontPart, EachDelivered
<1> QED BY <1>4, <1>5, <1>6, <1>7, <1>8 DEF FrontPart

(* The three commands.                                                       *)
LEMMA FilterStep ==
  ASSUME FrontPart, NEW x \in Frontend, UNCHANGED sent,
         \/ \E f \in Floor : SetFloor(x, f)
         \/ \E g \in Tag : ToggleTag(x, g)
         \/ \E T \in (SUBSET Tag) \ {{}} : SetTags(x, T)
  PROVE  FrontPart'
<1>0. FrontTypeOK /\ AsAsked
  BY DEF FrontPart
<1>1. filter[x] \in Filter /\ asked[x] \in SUBSET Tag
  BY <1>0 DEF FrontTypeOK
<1>2. ASSUME NEW f \in Floor, SetFloor(x, f) PROVE FrontPart'
  <2> DEFINE v == [filter[x] EXCEPT !.floor = f]
  <2>1. v \in Filter /\ v.tags = filter[x].tags /\ v.floor = f
    BY <1>1 DEF Filter, Place
  <2>2. /\ filter' = [filter EXCEPT ![x] = v] /\ link[x] = "up" /\ Withdraw(x)
        /\ UNCHANGED <<link, round, asked, doubled>>
    BY <1>2 DEF SetFloor
  <2>3. x \notin doubled' => \A g \in Tag : v.tags[g] = IF g \in asked'[x] THEN 1 ELSE 0
    BY <1>0, <2>1, <2>2 DEF AsAsked, Times
  <2>4. v.floor # NoFloor
    BY <2>1, ConfigurationsAssumption
  <2> HIDE DEF v
  <2> QED BY <1>0, <2>1, <2>2, <2>3, <2>4, CommandStep DEF FrontTypeOK
<1>3. ASSUME NEW g \in Tag, ToggleTag(x, g) PROVE FrontPart'
  <2> DEFINE v == [filter[x] EXCEPT !.tags[g] = Toggled(x, g)]
  <2>1. Toggled(x, g) \in Nat
    BY <1>1 DEF Toggled, Times, Filter
  <2>2. /\ v \in Filter /\ v.floor = filter[x].floor
        /\ \A h \in Tag : v.tags[h] = IF h = g THEN Toggled(x, g) ELSE Times(x, h)
    BY <1>1, <2>1 DEF Filter, Place, Times
  <2>3. /\ filter' = [filter EXCEPT ![x] = v] /\ link[x] = "up" /\ Withdraw(x)
        /\ asked' = [asked EXCEPT ![x] = IF g \in @ THEN @ \ {g} ELSE @ \cup {g}]
        /\ UNCHANGED <<link, round, doubled>>
    BY <1>3 DEF ToggleTag
  <2>4. asked' \in [Frontend -> SUBSET Tag] /\ \A y \in Frontend : y # x => asked'[y] = asked[y]
    BY <1>0, <2>3 DEF FrontTypeOK
  <2>5. x \notin doubled' => \A h \in Tag : v.tags[h] = IF h \in asked'[x] THEN 1 ELSE 0
    <3> SUFFICES ASSUME x \notin doubled, NEW h \in Tag
                 PROVE  v.tags[h] = IF h \in asked'[x] THEN 1 ELSE 0
      BY <2>3
    <3>1. Times(x, h) = IF h \in asked[x] THEN 1 ELSE 0
      BY <1>0 DEF AsAsked
    <3>2. asked'[x] = IF g \in asked[x] THEN asked[x] \ {g} ELSE asked[x] \cup {g}
      BY <1>0, <2>3 DEF FrontTypeOK
    <3> QED BY <2>2, <3>1, <3>2 DEF Toggled
  <2> HIDE DEF v
  <2> QED BY <1>0, <2>2, <2>3, <2>4, <2>5, CommandStep DEF FrontTypeOK
<1>4. ASSUME NEW T \in SUBSET Tag, SetTags(x, T) PROVE FrontPart'
  <2> DEFINE v == [filter[x] EXCEPT !.tags = Appended(x, T)]
  <2>1. /\ Appended(x, T) \in [Tag -> Nat]
        /\ \A h \in Tag : Appended(x, T)[h] = IF h \in T THEN Times(x, h) + 1 ELSE Times(x, h)
    BY <1>1 DEF Appended, Times, Filter
  <2>2. v \in Filter /\ v.floor = filter[x].floor /\ v.tags = Appended(x, T)
    BY <1>1, <2>1 DEF Filter, Place
  <2>3. /\ filter' = [filter EXCEPT ![x] = v] /\ link[x] = "up" /\ Withdraw(x)
        /\ asked' = [asked EXCEPT ![x] = @ \cup T]
        /\ doubled' = IF T \cap asked[x] = {} THEN doubled ELSE doubled \cup {x}
        /\ UNCHANGED <<link, round>>
    BY <1>4 DEF SetTags
  <2>4. asked' \in [Frontend -> SUBSET Tag] /\ \A y \in Frontend : y # x => asked'[y] = asked[y]
    BY <1>0, <2>3 DEF FrontTypeOK
  <2>5. doubled \subseteq doubled' /\ doubled' \subseteq Frontend
    BY <1>0, <2>3 DEF FrontTypeOK
  <2>6. x \notin doubled' => \A h \in Tag : v.tags[h] = IF h \in asked'[x] THEN 1 ELSE 0
    <3> SUFFICES ASSUME x \notin doubled', NEW h \in Tag
                 PROVE  v.tags[h] = IF h \in asked'[x] THEN 1 ELSE 0
      OBVIOUS
    <3>1. x \notin doubled /\ T \cap asked[x] = {}
      BY <2>3
    <3>2. Times(x, h) = IF h \in asked[x] THEN 1 ELSE 0
      BY <1>0, <3>1 DEF AsAsked
    <3>3. asked'[x] = asked[x] \cup T
      BY <1>0, <2>3 DEF FrontTypeOK
    <3> QED BY <2>1, <2>2, <3>1, <3>2, <3>3
  <2> HIDE DEF v
  <2> QED BY <1>0, <2>2, <2>3, <2>4, <2>5, <2>6, CommandStep
<1> QED BY <1>2, <1>3, <1>4
------------------------------------------------------------------------------
(* A loop begins with what its frontends want, and they all pass the filter. *)
LEMMA BeginRoundStep ==
  ASSUME FrontPart, NEW batch, BeginRound(batch), batch \subseteq sent', sent \subseteq sent',
         \A c \in batch : c.tag \in Tag
  PROVE  FrontPart'
<1> USE FrontendsAssumption
<1>0. FrontTypeOK /\ AsAsked
  BY DEF FrontPart
<1>1. /\ round' = IF Known = {} THEN NoRound
                  ELSE [batch |-> batch, left |-> Known, at |-> Nobody, quiet |-> Unready = {}]
      /\ owed' = {p \in Known \X batch : Wants(p[1], p[2])}
      /\ UNCHANGED <<link, filter, asked, doubled>>
  BY DEF BeginRound
<1>2. Known' = Known /\ NoFilter' = NoFilter /\ Filter' = Filter
  BY <1>1 DEF Known, NoFilter, Filter, Place
<1>3. round' \in [batch : SUBSET sent', left : SUBSET Known',
                  at : Frontend \cup {Nobody}, quiet : BOOLEAN]
  <2>1. (Unready = {}) \in BOOLEAN
    OBVIOUS
  <2> QED BY <1>1, <1>2, <2>1 DEF NoRound
<1>4. FrontTypeOK'
  BY <1>0, <1>1, <1>2, <1>3 DEF FrontTypeOK
<1>5. AsAsked'
  BY <1>0, <1>1 DEF AsAsked, Times
<1>6. OwedAllowed'
  <2> SUFFICES ASSUME NEW p \in owed' PROVE link[p[1]] = "up" /\ Allowed(p[1], p[2])
    BY <1>1 DEF OwedAllowed, Allowed, Times
  <2>1. p[1] \in Frontend /\ p[2] \in batch /\ Wants(p[1], p[2])
    BY <1>1 DEF Known
  <2>2. Times(p[1], p[2].tag) = 1
    BY <1>0, <2>1 DEF Wants, AsAsked
  <2> QED BY <2>1, <2>2 DEF Wants, Allowed
<1>7. QuietReady'
  <2>1. CASE Known = {}
    BY <1>1, <2>1 DEF QuietReady, NoRound
  <2>2. CASE Known # {}
    <3>1. round'.at = Nobody /\ round'.left = Known /\ (round'.quiet <=> Unready = {})
      BY <1>1, <2>2
    <3>2. ASSUME Unready = {}, NEW x \in Known PROVE link[x] = "up" /\ filter[x].floor # NoFloor
      BY <3>2 DEF Unready, Known
    <3> QED BY <1>1, <3>1, <3>2 DEF QuietReady
  <2> QED BY <2>1, <2>2
<1>8. EachDelivered'
  <2>1. ASSUME NEW p \in owed' PROVE p[2] \in round'.batch /\ p[1] \in round'.left
    BY <1>1
  <2> QED BY <2>1 DEF EachDelivered
<1> QED BY <1>4, <1>5, <1>6, <1>7, <1>8 DEF FrontPart

(* The loop goes from one frontend to the next.                              *)
LEMMA RoundStep ==
  ASSUME FrontPart, NEW x \in Frontend, Reach(x) \/ Deliver(x) \/ NotSent(x) \/ CutShort(x),
         UNCHANGED sent
  PROVE  FrontPart'
<1> USE FrontendsAssumption
<1>0. FrontTypeOK
  BY DEF FrontPart
<1>1. UNCHANGED <<link, filter, asked, doubled>>
  BY DEF Reach, Deliver, NotSent, CutShort
<1>2. Known' = Known /\ NoFilter' = NoFilter /\ Filter' = Filter
  BY <1>1 DEF Known, NoFilter, Filter, Place
<1>3. AsAsked'
  BY <1>1 DEF FrontPart, AsAsked, Times
<1>4. SUFFICES /\ round' \in [batch : SUBSET sent, left : SUBSET Known,
                              at : Frontend \cup {Nobody}, quiet : BOOLEAN]
               /\ owed' \subseteq owed
               /\ QuietReady' /\ EachDelivered'
  <2>1. FrontTypeOK'
    BY <1>0, <1>1, <1>2, <1>4 DEF FrontTypeOK
  <2>2. OwedAllowed'
    BY <1>1, <1>4 DEF FrontPart, OwedAllowed, Allowed, Times
  <2> QED BY <1>3, <1>4, <2>1, <2>2 DEF FrontPart
<1>5. CASE Reach(x)
  <2>1. /\ round.at = Nobody /\ x \in round.left /\ UNCHANGED owed
        /\ round' = [round EXCEPT !.left = @ \ {x}, !.at = x]
    BY <1>5 DEF Reach
  <2>2. \A p \in owed : p[1] # Nobody
    BY <1>0 DEF FrontTypeOK, Known
  <2> QED BY <1>0, <1>1, <2>1, <2>2 DEF FrontPart, FrontTypeOK, QuietReady, EachDelivered
<1>6. ASSUME round' = Past, owed' \subseteq owed, round.at = x,
             \A p \in owed' : p[1] # x
      PROVE  /\ round' \in [batch : SUBSET sent, left : SUBSET Known,
                              at : Frontend \cup {Nobody}, quiet : BOOLEAN]
             /\ QuietReady' /\ EachDelivered'
  <2>1. CASE round.left = {}
    <3>1. round' = NoRound
      BY <1>6, <2>1 DEF Past
    <3>2. owed' = {}
      BY <1>6, <2>1 DEF FrontPart, EachDelivered
    <3> QED BY <3>1, <3>2 DEF NoRound, QuietReady, EachDelivered
  <2>2. CASE round.left # {}
    <3>1. round' = [round EXCEPT !.at = Nobody]
      BY <1>6, <2>2 DEF Past
    <3> QED BY <1>0, <1>1, <1>6, <3>1 DEF FrontPart, FrontTypeOK, QuietReady, EachDelivered
  <2> QED BY <2>1, <2>2
<1>7. CASE Deliver(x)
  <2>1. /\ round' = Past /\ round.at = x
        /\ owed' = owed \ ({x} \X {c \in round.batch : Allowed(x, c)})
    BY <1>7 DEF Deliver
  <2>2. ASSUME NEW p \in owed, p[1] = x PROVE p \notin owed'
    <3>1. p[2] \in round.batch /\ Allowed(x, p[2])
      BY <2>2 DEF FrontPart, EachDelivered, OwedAllowed
    <3>2. p = <<p[1], p[2]>>
      BY <1>0 DEF FrontTypeOK
    <3> QED BY <2>1, <2>2, <3>1, <3>2
  <2> QED BY <1>6, <2>1, <2>2
<1>8. CASE NotSent(x)
  <2>1. round' = Past /\ round.at = x /\ link[x] # "up" /\ UNCHANGED owed
    BY <1>8 DEF NotSent, AfterIOException
  <2>2. \A p \in owed : p[1] # x
    BY <2>1 DEF FrontPart, OwedAllowed
  <2> QED BY <1>6, <2>1, <2>2
<1>9. CASE CutShort(x)
  <2>1. /\ round.at = x /\ (link[x] # "up" \/ filter[x].floor = NoFloor)
        /\ round' = NoRound /\ owed' = IF round.quiet THEN owed ELSE {}
    BY <1>9 DEF CutShort
  <2>2. ~round.quiet
    BY <2>1 DEF FrontPart, QuietReady
  <2> QED BY <2>1, <2>2 DEF NoRound, QuietReady, EachDelivered
<1> QED BY <1>5, <1>7, <1>8, <1>9
------------------------------------------------------------------------------
(* The filter lets through only what was asked for.                          *)
LEMMA OnlyAskedHolds == FrontPart /\ Tagged => OnlyAsked
<1> SUFFICES ASSUME FrontPart, Tagged, NEW x \in Known \ doubled, NEW c \in round.batch,
                    Allowed(x, c)
             PROVE  c.tag \in asked[x]
  BY DEF OnlyAsked
<1>1. c \in sent /\ x \in Frontend \ doubled
  BY DEF FrontPart, FrontTypeOK, Known
<1>2. Times(x, c.tag) = IF c.tag \in asked[x] THEN 1 ELSE 0
  BY <1>1 DEF Tagged, FrontPart, AsAsked
<1> QED BY <1>2 DEF Allowed

------------------------------------------------------------------------------
(* The whole of Positioning.                                                *)

ConfPart == ConfInv /\ Serial /\ OneDraft /\ Places /\ PlacedAsPublished

(* Positions are of the anchors they are asked for.                          *)
Shaped ==
    /\ \A key \in Key : cache[key] \in [key.of -> Place] \cup {Absent}
    /\ \A t \in LookingUp : handling[t].read \in [KeyOf(handling[t]).of -> Place] \cup {Absent}

(* What a thread has read and will put is what the database holds ...        *)
ReadsNow ==
    \A t \in Reading : ~handling[t].crossed =>
        handling[t].read = Row(KeyOf(handling[t]))

(* ... and all that is cached or read is doubted until publications commit.  *)
DoubtedMeanwhile ==
    Evicted # {} => Cached \subseteq suspect /\ \A t \in Reading : handling[t].crossed

CachePart == CacheTypeOK /\ Shaped /\ ReadsNow /\ DoubtedMeanwhile /\ Fresh

Pending == {t \in AtWork : handling[t].step \in {"save", "send"}}

(* Coordinates to be added are new, and each is added by one thread.         *)
Added ==
    \A t \in Pending :
        /\ handling[t].coordinate \notin put
        /\ handling[t].step = "save" => handling[t].coordinate \notin queued
        /\ \A u \in Pending : handling[u].coordinate = handling[t].coordinate => u = t

(* Where the queue stands while a batch is saved ...                         *)
Saving ==
    /\ saving.step = "idle" => saving.batch = {}
    /\ saving.step # "idle" => /\ saving.batch \subseteq coordinatesToSave
                               /\ coordinatesToSave \subseteq saving.batch \cup behind
    /\ saving.step = "clear" => saving.batch \subseteq saved
    /\ coordinatesToSave \subseteq queued
    /\ coordinatesToSave \cap saved
         \subseteq unanswered \cup (IF saving.step = "clear" THEN saving.batch ELSE {})

(* ... and the map while a copy is sent.                                     *)
Sending ==
    /\ sending.step = "idle" => sending.batch = {}
    /\ sending.step # "idle" => coordinatesToSend \subseteq sending.batch \cup overlooked
    /\ coordinatesToSend \cap sent = {}

BatchPart == BatchTypeOK(Coordinate) /\ Saving /\ Sending /\ EachSaved /\ EachSent

IInv == ConfPart /\ CachePart /\ Added /\ BatchPart /\ FrontPart
        /\ budget \in [Request -> Nat]
------------------------------------------------------------------------------
(* What each step does to the configurations is one of their steps, or none. *)
LEMMA ConfStep == Next => ConfNext \/ UNCHANGED confVars
<1> SUFFICES ASSUME Next PROVE ConfNext \/ UNCHANGED confVars
  OBVIOUS
<1>1. ASSUME NEW k \in Call, BeginCall(k) PROVE ConfNext
  BY <1>1 DEF BeginCall, ConfNext
<1>2. ASSUME NEW k \in Call, CommitCall(k) PROVE ConfNext
  BY <1>2 DEF CommitCall, ConfNext
<1>3. ASSUME NEW k \in Call, EvictCalculator(k) PROVE ConfNext
  <2>1. MarkEvicted(k)
    BY <1>3 DEF EvictCalculator, Evict, EvictRefused, MarkEvicted
  <2> QED BY <2>1 DEF ConfNext
<1>4. ASSUME EditAnchor PROVE ConfNext
  BY <1>4 DEF EditAnchor, UpdateAnchorUnseen, ConfNext
<1>5. ASSUME RemoveFloor PROVE ConfNext
  BY <1>5 DEF RemoveFloor, DeleteFloorUnseen, ConfNext
<1>6. ASSUME NEW t \in Thread, ReceiveMeasure(t) \/ FindPosition(t) \/ AddCoordinate(t)
      PROVE  UNCHANGED confVars
  BY <1>6 DEF ReceiveMeasure, FindPosition, AddCoordinate
<1>7. ASSUME SaveCoordinates \/ SendCoordinates \/ \E x \in Frontend : Talk(x)
      PROVE  UNCHANGED confVars
  BY <1>7 DEF SaveCoordinates, SendCoordinates, Talk
<1> QED BY <1>1, <1>2, <1>3, <1>4, <1>5, <1>6, <1>7 DEF Next

(* Nothing of the configurations changes when none of their variables does.  *)
LEMMA ConfStutter == ConfPart /\ UNCHANGED confVars => ConfPart'
<1> SUFFICES ASSUME ConfPart, UNCHANGED confVars PROVE ConfPart'
  OBVIOUS
<1> USE DEF confVars
<1>1. ConfInv'
  BY DEF ConfPart, ConfInv, ConfTypeOK, Rows, Snapshots
<1>2. (\A f : Of(f)' = Of(f)) /\ Busy' = Busy /\ Publishing' = Publishing
  BY DEF Of, Busy, Publishing
<1>3. Serial' /\ OneDraft' /\ Places'
  BY <1>2 DEF ConfPart, Serial, OneDraft, Places
<1>4. \A f : LivePublished(f)' = LivePublished(f)
  BY DEF LivePublished, Of, Latest
<1>5. PlacedAsPublished'
  BY <1>4 DEF ConfPart, PlacedAsPublished
<1> QED BY <1>1, <1>3, <1>5 DEF ConfPart

LEMMA ConfPartNext == ConfPart /\ [Next]_vars => ConfPart'
<1>1. CASE Next
  BY <1>1, ConfStep, ConfStutter, ConfInvNext, SerialNext, PlacesNext, PlacedNext DEF ConfPart
<1>2. CASE UNCHANGED vars
  BY <1>2, ConfStutter DEF vars
<1> QED BY <1>1, <1>2

------------------------------------------------------------------------------
(* Keys, and the positions found for them.                                   *)
LEMMA Keys ==
  ASSUME NEW key \in Key
  PROVE  key.of \subseteq Anchor /\ [key.of -> Place] \subseteq Found
BY CacheAssumption DEF Key, AnchorsKey, FloorIdKey, Found

(* A thread that looks up has a key for it, which covers the anchor whose    *)
(* floor it asks for.                                                        *)
LEMMA ThreadKeys ==
  ASSUME CacheTypeOK, NEW t \in LookingUp
  PROVE  /\ t \in Thread /\ handling[t] \in LookUpState /\ KeyOf(handling[t]) \in Key
         /\ handling[t].step = "floor" => KeyOf(handling[t]).of = {handling[t].anchor}
<1>1. t \in Thread /\ handling[t] # Free /\ handling[t].step \in {"position", "floor"}
  BY DEF LookingUp, AtWork
<1>2. handling[t] \in LookUpState
  BY <1>1 DEF CacheTypeOK, AddState, Free
<1>3. KeyOf(handling[t]) \in Key
  BY <1>2 DEF KeyOf, Key, LookUpState
<1>4. handling[t].step = "floor" => KeyOf(handling[t]).of = {handling[t].anchor}
  BY DEF KeyOf, FloorIdKey
<1> QED BY <1>1, <1>2, <1>3, <1>4

(* What the database answers has the shape of what is cached.                *)
LEMMA RowShape ==
  ASSUME ConfTypeOK, NEW key \in Key
  PROVE  Row(key) \in [key.of -> Place]
BY Keys DEF Row, ConfTypeOK, Place

(* Coordinates stay coordinates as more are calculated.                      *)
LEMMA CoordinatesGrow ==
  ASSUME CacheTypeOK, calculated' \in {calculated, calculated + 1}
  PROVE  /\ calculated' \in Nat
         /\ Coordinate \subseteq Coordinate'
         /\ AddState \subseteq AddState'
<1>1. calculated \in Nat /\ calculated' \in Nat /\ calculated <= calculated'
  BY DEF CacheTypeOK
<1>2. 1..calculated \subseteq 1..calculated'
  BY <1>1
<1>3. Coordinate \subseteq Coordinate'
  BY <1>2 DEF Coordinate
<1> QED BY <1>1, <1>3 DEF AddState

(* With what was found a measure ends, goes on to the floor, or becomes a    *)
(* coordinate.                                                               *)
LEMMA ContinueStep ==
  ASSUME CacheTypeOK, NEW t \in LookingUp,
         NEW found \in [KeyOf(handling[t]).of -> Place], Continue(t, found)
  PROVE  \/ /\ UNCHANGED calculated
            /\ \E h \in {Free} \cup {g \in LookUpState : g.read = Absent} :
                 handling' = [handling EXCEPT ![t] = h]
         \/ /\ calculated' = calculated + 1
            /\ \E g \in Tag, f \in Floor :
                 handling' = [handling EXCEPT ![t] =
                   [step |-> "save",
                    coordinate |-> [n |-> calculated + 1, tag |-> g, floor |-> f]]]
<1> DEFINE h == handling[t]
<1>1. h \in LookUpState /\ (h.step = "floor" => KeyOf(h).of = {h.anchor})
  BY ThreadKeys
<1>2. CASE h.step = "position"
  <2>1. [h EXCEPT !.step = "floor", !.read = Absent] \in {g \in LookUpState : g.read = Absent}
    BY <1>1 DEF LookUpState
  <2>2. /\ UNCHANGED calculated
        /\ handling' = [handling EXCEPT ![t] =
             IF Cardinality({a \in h.connected : found[a] # NoFloor}) < Needed
             THEN Free ELSE [h EXCEPT !.step = "floor", !.read = Absent]]
    BY <1>2 DEF Continue
  <2> QED BY <2>1, <2>2
<1>3. CASE h.step = "floor"
  <2>1. found[h.anchor] \in Place /\ h.tag \in Tag
    BY <1>1, <1>3 DEF LookUpState
  <2>2. CASE found[h.anchor] = NoFloor
    BY <1>3, <2>2 DEF Continue
  <2>3. CASE found[h.anchor] # NoFloor
    <3>1. found[h.anchor] \in Floor
      BY <2>1, <2>3 DEF Place
    <3>2. /\ calculated' = calculated + 1
          /\ handling' = [handling EXCEPT ![t] =
               [step |-> "save",
                coordinate |-> [n |-> calculated + 1, tag |-> h.tag, floor |-> found[h.anchor]]]]
      BY <1>3, <2>3 DEF Continue
    <3> QED BY <2>1, <3>1, <3>2
  <2> QED BY <2>2, <2>3
<1> QED BY <1>1, <1>2, <1>3 DEF LookUpState

(* So it leaves the other threads alone, and reads nothing itself.           *)
LEMMA ContinueThreads ==
  ASSUME CacheTypeOK, NEW t \in LookingUp,
         NEW found \in [KeyOf(handling[t]).of -> Place], Continue(t, found)
  PROVE  /\ calculated' \in {calculated, calculated + 1}
         /\ handling' \in [Thread -> {Free} \cup LookUpState \cup AddState']
         /\ \A u \in Thread \ {t} : handling'[u] = handling[u]
         /\ t \in LookingUp' => handling'[t].read = Absent
<1>1. t \in Thread /\ handling \in [Thread -> {Free} \cup LookUpState \cup AddState]
  BY ThreadKeys DEF CacheTypeOK
<1>2. calculated' \in {calculated, calculated + 1}
  BY ContinueStep
<1>3. AddState \subseteq AddState' /\ calculated \in Nat /\ calculated' \in Nat
  BY <1>2, CoordinatesGrow DEF CacheTypeOK
<1>4. CASE \E h \in {Free} \cup {g \in LookUpState : g.read = Absent} :
             handling' = [handling EXCEPT ![t] = h]
  <2>1. PICK h \in {Free} \cup {g \in LookUpState : g.read = Absent} :
               handling' = [handling EXCEPT ![t] = h]
    BY <1>4
  <2>2. handling' \in [Thread -> {Free} \cup LookUpState \cup AddState']
    BY <1>1, <1>3, <2>1
  <2>3. t \in LookingUp' => handling'[t].read = Absent
    BY <1>1, <2>1 DEF LookingUp, AtWork
  <2> QED BY <1>1, <1>2, <2>1, <2>2, <2>3
<1>5. CASE /\ calculated' = calculated + 1
           /\ \E g \in Tag, f \in Floor :
                handling' = [handling EXCEPT ![t] =
                  [step |-> "save",
                   coordinate |-> [n |-> calculated + 1, tag |-> g, floor |-> f]]]
  <2>1. PICK g \in Tag, f \in Floor :
                handling' = [handling EXCEPT ![t] =
                  [step |-> "save",
                   coordinate |-> [n |-> calculated + 1, tag |-> g, floor |-> f]]]
    BY <1>5
  <2> DEFINE new == [step |-> "save",
                     coordinate |-> [n |-> calculated + 1, tag |-> g, floor |-> f]]
  <2>2. [n |-> calculated + 1, tag |-> g, floor |-> f] \in Coordinate'
    <3>1. calculated + 1 \in 1..calculated'
      BY <1>3, <1>5
    <3> QED BY <3>1 DEF Coordinate
  <2>3. new \in AddState' /\ new.step = "save"
    BY <2>2 DEF AddState
  <2> HIDE DEF new
  <2>4. handling' = [handling EXCEPT ![t] = new]
    BY <2>1 DEF new
  <2>5. handling' \in [Thread -> {Free} \cup LookUpState \cup AddState']
    BY <1>1, <1>3, <2>3, <2>4
  <2>6. t \notin LookingUp'
    BY <1>1, <2>3, <2>4 DEF LookingUp
  <2> QED BY <1>1, <1>2, <2>4, <2>5, <2>6
<1> QED BY <1>4, <1>5, ContinueStep

------------------------------------------------------------------------------
(* A reader whose request crossed a change of the database is still a reader. *)
LEMMA CrossedReader ==
  ASSUME NEW g \in LookUpState
  PROVE  [g EXCEPT !.crossed = TRUE] \in LookUpState
BY DEF LookUpState

(* Crossing some of the readers changes nothing else of the threads.         *)
LEMMA Crossing ==
  ASSUME CacheTypeOK, NEW X \in SUBSET Reading,
         handling' = [t \in Thread |-> IF t \in X THEN [handling[t] EXCEPT !.crossed = TRUE]
                                       ELSE handling[t]],
         UNCHANGED calculated
  PROVE  /\ handling' \in [Thread -> {Free} \cup LookUpState \cup AddState']
         /\ LookingUp' = LookingUp /\ Reading' = Reading
         /\ \A t \in LookingUp : /\ KeyOf(handling'[t]) = KeyOf(handling[t])
                                 /\ handling'[t].read = handling[t].read
                                 /\ t \in X => handling'[t].crossed
                                 /\ t \notin X => handling'[t] = handling[t]
<1>1. \A t \in Reading : t \in Thread /\ t \in LookingUp /\ handling[t] \in LookUpState
  BY ThreadKeys DEF Reading
<1>2. AddState' = AddState
  BY DEF AddState, Coordinate
<1>3. \A t \in Thread : t \in X => handling'[t] = [handling[t] EXCEPT !.crossed = TRUE]
  OBVIOUS
<1>4. \A t \in Thread : t \notin X => handling'[t] = handling[t]
  OBVIOUS
<1>5. ASSUME NEW t \in X
      PROVE  handling'[t] \in LookUpState
  <2>1. t \in Thread /\ handling[t] \in LookUpState
    BY <1>1
  <2>2. handling'[t] = [handling[t] EXCEPT !.crossed = TRUE]
    BY <1>3, <2>1
  <2> QED BY <2>1, <2>2, CrossedReader
<1>6. handling' \in [Thread -> {Free} \cup LookUpState \cup AddState']
  BY <1>2, <1>4, <1>5 DEF CacheTypeOK
<1>7. ASSUME NEW t \in X
      PROVE  /\ handling'[t].read = handling[t].read /\ handling'[t].step = handling[t].step
             /\ handling'[t].connected = handling[t].connected
             /\ handling'[t].anchor = handling[t].anchor /\ handling'[t].crossed
             /\ handling'[t] # Free
  BY <1>1, <1>3 DEF LookUpState, Free
<1>8. AtWork' = AtWork
  BY <1>1, <1>4, <1>7 DEF AtWork, Reading, LookingUp
<1>9. LookingUp' = LookingUp
  BY <1>4, <1>7, <1>8 DEF LookingUp, AtWork
<1>10. Reading' = Reading
  BY <1>4, <1>7, <1>9 DEF Reading, LookingUp, AtWork
<1>11. ASSUME NEW t \in LookingUp
       PROVE  /\ KeyOf(handling'[t]) = KeyOf(handling[t])
              /\ handling'[t].read = handling[t].read
              /\ t \in X => handling'[t].crossed
              /\ t \notin X => handling'[t] = handling[t]
  BY <1>4, <1>7 DEF KeyOf, LookingUp, AtWork
<1> QED BY <1>6, <1>9, <1>10, <1>11

(* Rows may change under what is doubted.                                    *)
LEMMA DoubtStep ==
  ASSUME CachePart, NEW keys, Doubt(keys), UNCHANGED <<cache, calculated>>,
         \A key \in Key \ keys : Row(key)' = Row(key),
         Evicted' # {} => Evicted # {} \/ Key \subseteq keys
  PROVE  CachePart'
<1> DEFINE X == {t \in Reading : KeyOf(handling[t]) \in keys}
<1>1. /\ suspect' = suspect \cup (Cached \cap keys)
      /\ handling' = [t \in Thread |-> IF t \in X THEN [handling[t] EXCEPT !.crossed = TRUE]
                                       ELSE handling[t]]
  BY DEF Doubt
<1>2. /\ handling' \in [Thread -> {Free} \cup LookUpState \cup AddState']
      /\ LookingUp' = LookingUp /\ Reading' = Reading
      /\ \A t \in LookingUp : /\ KeyOf(handling'[t]) = KeyOf(handling[t])
                              /\ handling'[t].read = handling[t].read
                              /\ t \in X => handling'[t].crossed
                              /\ t \notin X => handling'[t] = handling[t]
  <2> HIDE DEF X
  <2>1. X \in SUBSET Reading
    BY DEF X
  <2> QED BY <1>1, <2>1, Crossing DEF CachePart
<1>3. Reading \subseteq LookingUp /\ Cached' = Cached
  BY DEF Reading, Cached
<1>4. \A t \in Reading : KeyOf(handling[t]) \in Key
  BY <1>3, ThreadKeys DEF CachePart
<1>5. CacheTypeOK'
  BY <1>1, <1>2 DEF CachePart, CacheTypeOK, Cached
<1>6. Shaped'
  BY <1>2 DEF CachePart, Shaped
<1>7. ReadsNow'
  <2>1. ASSUME NEW t \in Reading, ~handling'[t].crossed
        PROVE  handling'[t].read = [a \in KeyOf(handling'[t]).of |-> row'[a]]
    <3>1. t \notin X /\ handling'[t] = handling[t] /\ KeyOf(handling'[t]) = KeyOf(handling[t])
      BY <1>2, <1>3, <2>1
    <3>2. PICK key \in Key \ keys : key = KeyOf(handling[t])
      BY <1>4, <3>1
    <3>3. handling[t].read = Row(key)
      BY <2>1, <3>1, <3>2 DEF CachePart, ReadsNow
    <3>4. Row(key) = [a \in key.of |-> row'[a]]
      BY <3>2 DEF Row
    <3> QED BY <3>1, <3>2, <3>3, <3>4
  <2>2. \A t \in Reading : ~handling'[t].crossed => handling'[t].read = Row(KeyOf(handling[t]))'
    BY <2>1 DEF Row, KeyOf
  <2> QED BY <1>2, <2>2 DEF ReadsNow
<1>8. DoubtedMeanwhile'
  BY <1>1, <1>2, <1>3, <1>4 DEF CachePart, DoubtedMeanwhile, Cached
<1>9. Fresh'
  BY <1>1, <1>3 DEF CachePart, Fresh, Cached
<1> QED BY <1>5, <1>6, <1>7, <1>8, <1>9 DEF CachePart

(* Eviction leaves nothing cached, and crosses the readers.                  *)
LEMMA EvictStep ==
  ASSUME CachePart, AnswersEvict, UNCHANGED row
  PROVE  CachePart'
<1>1. /\ cache' = [key \in Key |-> Absent] /\ suspect' = suspect \ Key
      /\ handling' = [t \in Thread |-> IF t \in Reading THEN [handling[t] EXCEPT !.crossed = TRUE]
                                       ELSE handling[t]]
      /\ UNCHANGED calculated
  BY DEF AnswersEvict, ClearedCaches
<1>2. /\ handling' \in [Thread -> {Free} \cup LookUpState \cup AddState']
      /\ LookingUp' = LookingUp /\ Reading' = Reading
      /\ \A t \in LookingUp : /\ KeyOf(handling'[t]) = KeyOf(handling[t])
                              /\ handling'[t].read = handling[t].read
                              /\ t \in Reading => handling'[t].crossed
  BY <1>1, Crossing DEF CachePart
<1>3. Reading \subseteq LookingUp /\ Cached' = {}
  BY <1>1 DEF Reading, Cached
<1>4. CacheTypeOK'
  BY <1>1, <1>2 DEF CachePart, CacheTypeOK
<1>5. Shaped'
  BY <1>1, <1>2 DEF CachePart, Shaped
<1>6. ReadsNow' /\ DoubtedMeanwhile' /\ Fresh'
  BY <1>2, <1>3 DEF ReadsNow, DoubtedMeanwhile, Fresh
<1> QED BY <1>4, <1>5, <1>6 DEF CachePart

(* A step of the configurations that moves no anchor, or one after an        *)
(* eviction.                                                                 *)
LEMMA CacheKept ==
  ASSUME CachePart, UNCHANGED cacheVars, Evicted' \subseteq Evicted,
         UNCHANGED row \/ Evicted # {}
  PROVE  CachePart'
<1>1. /\ LookingUp' = LookingUp /\ Reading' = Reading /\ Cached' = Cached
      /\ UNCHANGED <<cache, suspect, handling, calculated>>
  BY DEF cacheVars, LookingUp, Reading, AtWork, Cached
<1>2. CacheTypeOK' /\ Shaped' /\ DoubtedMeanwhile'
  BY <1>1 DEF CachePart, CacheTypeOK, AddState, Coordinate, Shaped, DoubtedMeanwhile
<1>3. CASE UNCHANGED row
  BY <1>1, <1>2, <1>3 DEF CachePart, ReadsNow, Fresh, Row, KeyOf
<1>4. CASE Evicted # {}
  BY <1>1, <1>2, <1>4 DEF CachePart, DoubtedMeanwhile, ReadsNow, Fresh
<1> QED BY <1>3, <1>4

(* A thread that goes on without having read.                                *)
LEMMA ThreadStep ==
  ASSUME CachePart, NEW t \in Thread, UNCHANGED <<row, cache, suspect>>, Evicted' = Evicted,
         calculated' \in {calculated, calculated + 1},
         handling' \in [Thread -> {Free} \cup LookUpState \cup AddState'],
         \A u \in Thread \ {t} : handling'[u] = handling[u],
         t \in LookingUp' => handling'[t].read = Absent
  PROVE  CachePart'
<1>1. calculated' \in Nat
  BY CoordinatesGrow DEF CachePart
<1>2. CacheTypeOK'
  BY <1>1 DEF CachePart, CacheTypeOK
<1>3. \A u \in LookingUp' : u # t => u \in LookingUp /\ handling'[u] = handling[u]
  BY DEF LookingUp, AtWork
<1>4. \A u \in Reading' : u \in Reading /\ handling'[u] = handling[u]
  BY <1>3 DEF Reading
<1>5. Shaped'
  BY <1>3 DEF CachePart, Shaped, KeyOf
<1>6. ReadsNow'
  BY <1>4 DEF CachePart, ReadsNow, Row, KeyOf
<1>7. DoubtedMeanwhile' /\ Fresh'
  BY <1>4 DEF CachePart, DoubtedMeanwhile, Fresh, Cached, Row
<1> QED BY <1>2, <1>5, <1>6, <1>7 DEF CachePart

(* A thread that misses reads what the database holds.                       *)
LEMMA ReadStep ==
  ASSUME CachePart, ConfTypeOK, NEW t \in LookingUp, UNCHANGED <<row, cache, suspect, calculated>>,
         Evicted' = Evicted,
         handling' = [handling EXCEPT ![t].read = Row(KeyOf(handling[t])),
                                      ![t].crossed = Evicted # {}]
  PROVE  CachePart'
<1> DEFINE h == handling[t]
<1>1. t \in Thread /\ h \in LookUpState /\ KeyOf(h) \in Key
  BY ThreadKeys DEF CachePart
<1>2. Row(KeyOf(h)) \in [KeyOf(h).of -> Place] /\ Row(KeyOf(h)) \in Found
  BY <1>1, RowShape, Keys
<1>3. PICK found : found = Row(KeyOf(h))
  OBVIOUS
<1> DEFINE new == [h EXCEPT !.read = found, !.crossed = Evicted # {}]
<1>4. /\ new \in LookUpState /\ new.read = found /\ new.crossed = (Evicted # {})
      /\ KeyOf(new) = KeyOf(h)
  BY <1>1, <1>2, <1>3 DEF LookUpState, KeyOf
<1>5. handling' = [handling EXCEPT ![t] = new]
  <2>1. handling' = [handling EXCEPT ![t] = [[h EXCEPT !.read = Row(KeyOf(h))] EXCEPT !.crossed = Evicted # {}]]
    BY <1>1 DEF CachePart, CacheTypeOK
  <2>2. new = [[h EXCEPT !.read = Row(KeyOf(h))] EXCEPT !.crossed = Evicted # {}]
    BY <1>1, <1>3 DEF LookUpState
  <2> QED BY <2>1, <2>2
<1> HIDE DEF new
<1>6. handling'[t] = new /\ \A u \in Thread \ {t} : handling'[u] = handling[u]
  BY <1>1, <1>5 DEF CachePart, CacheTypeOK
<1>7. CacheTypeOK'
  <2>1. AddState' = AddState
    BY DEF AddState, Coordinate
  <2> QED BY <1>1, <1>4, <1>5, <2>1 DEF CachePart, CacheTypeOK
<1>8. \A u \in LookingUp' : u # t => u \in LookingUp /\ handling'[u] = handling[u]
  BY <1>6 DEF LookingUp, AtWork
<1>9. \A u \in Reading' : u # t => u \in Reading /\ handling'[u] = handling[u]
  BY <1>8 DEF Reading
<1>10. Shaped'
  BY <1>2, <1>3, <1>4, <1>6, <1>8 DEF CachePart, Shaped, KeyOf
<1>11. ReadsNow'
  <2>1. Row(KeyOf(handling[t]))' = Row(KeyOf(h))
    BY <1>4, <1>6 DEF Row, KeyOf
  <2>2. ASSUME NEW u \in Reading', u # t, ~handling'[u].crossed
        PROVE  handling'[u].read = Row(KeyOf(handling[u]))'
    <3>1. handling[u].read = Row(KeyOf(handling[u]))
      BY <1>9, <2>2 DEF CachePart, ReadsNow
    <3> QED BY <1>9, <2>2, <3>1 DEF Row, KeyOf
  <2> QED BY <1>3, <1>4, <1>6, <2>1, <2>2 DEF ReadsNow
<1>12. DoubtedMeanwhile'
  <2>1. Cached' = Cached /\ UNCHANGED suspect
    BY DEF Cached
  <2>2. ASSUME Evicted # {}, NEW u \in Reading'
        PROVE  handling'[u].crossed
    <3>1. CASE u = t
      BY <1>4, <1>6, <2>2, <3>1
    <3>2. CASE u # t
      BY <1>9, <2>2, <3>2 DEF CachePart, DoubtedMeanwhile
    <3> QED BY <3>1, <3>2
  <2>3. Evicted # {} => Cached \subseteq suspect
    BY DEF CachePart, DoubtedMeanwhile
  <2> QED BY <2>1, <2>2, <2>3 DEF DoubtedMeanwhile
<1>13. Fresh'
  BY DEF CachePart, Fresh, Cached, Row
<1> QED BY <1>7, <1>10, <1>11, <1>12, <1>13 DEF CachePart

(* What it read and puts is fresh, or doubted.                               *)
LEMMA PutStep ==
  ASSUME CachePart, NEW t \in Thread, PutInCache(t), UNCHANGED row, Evicted' = Evicted
  PROVE  CachePart'
<1> DEFINE h == handling[t]
<1>1. PICK key \in Key : key = KeyOf(h)
  BY ThreadKeys DEF PutInCache, Reading, CachePart
<1>2. /\ t \in Reading /\ t \in LookingUp /\ h.read # Absent /\ Continue(t, h.read)
      /\ cache' = [cache EXCEPT ![key] = h.read]
      /\ suspect' = IF h.crossed THEN suspect \cup {key} ELSE suspect \ {key}
  BY <1>1 DEF PutInCache, Reading
<1>3. h.read \in [key.of -> Place] /\ h.read \in Found
  BY <1>1, <1>2, Keys DEF CachePart, Shaped
<1>4. /\ calculated' \in {calculated, calculated + 1}
      /\ handling' \in [Thread -> {Free} \cup LookUpState \cup AddState']
      /\ \A u \in Thread \ {t} : handling'[u] = handling[u]
      /\ t \in LookingUp' => handling'[t].read = Absent
  BY <1>1, <1>2, <1>3, ContinueThreads DEF CachePart
<1>5. calculated' \in Nat
  BY <1>4, CoordinatesGrow DEF CachePart
<1>6. /\ \A other \in Key : cache'[other] = IF other = key THEN h.read ELSE cache[other]
      /\ cache' \in [Key -> Found \cup {Absent}]
  BY <1>1, <1>2, <1>3 DEF CachePart, CacheTypeOK
<1>7. CacheTypeOK'
  <2>1. suspect' \subseteq {other \in Key : cache'[other] # Absent}
    BY <1>1, <1>2, <1>6 DEF CachePart, CacheTypeOK
  <2> QED BY <1>4, <1>5, <1>6, <2>1 DEF CachePart, CacheTypeOK
<1>8. \A u \in LookingUp' : u # t => u \in LookingUp /\ handling'[u] = handling[u]
  BY <1>4 DEF LookingUp, AtWork
<1>9. \A u \in Reading' : u \in Reading /\ handling'[u] = handling[u]
  BY <1>4, <1>8 DEF Reading
<1>10. Shaped'
  BY <1>3, <1>4, <1>6, <1>8 DEF CachePart, Shaped, KeyOf
<1>11. ReadsNow'
  BY <1>9 DEF CachePart, ReadsNow, Row, KeyOf
<1>12. DoubtedMeanwhile'
  BY <1>2, <1>6, <1>9 DEF CachePart, DoubtedMeanwhile, Cached
<1>13. Fresh'
  <2>1. ~h.crossed => h.read = Row(key)
    BY <1>1, <1>2 DEF CachePart, ReadsNow
  <2>2. ASSUME NEW other \in Cached' \ suspect'
        PROVE  cache'[other] = Row(other)
    <3>1. CASE other = key
      BY <1>2, <1>6, <2>1, <2>2, <3>1 DEF Cached
    <3>2. CASE other # key
      BY <1>2, <1>6, <2>2, <3>2 DEF Cached, CachePart, Fresh
    <3> QED BY <3>1, <3>2
  <2> QED BY <2>2 DEF Fresh, Row
<1> QED BY <1>7, <1>10, <1>11, <1>12, <1>13 DEF CachePart

(* The caches through every step of the system.                              *)
LEMMA CachePartNext == ConfPart /\ CachePart /\ [Next]_vars => CachePart'
<1> SUFFICES ASSUME ConfPart, CachePart, [Next]_vars PROVE CachePart'
  OBVIOUS
<1>0. ConfTypeOK /\ ConfInv /\ CacheTypeOK
  BY DEF ConfPart, ConfInv, CachePart
<1>1. ASSUME NEW k \in Call, BeginCall(k) \/ CommitCall(k) PROVE CachePart'
  <2>1. UNCHANGED cacheVars
    BY <1>1 DEF BeginCall, CommitCall
  <2>2. Evicted' \subseteq Evicted
    <3>1. CASE BeginCall(k)
      <4>1. \A j \in Call : call'[j] = call[j] \/ call'[j].evicted = FALSE
        BY <1>0, <3>1 DEF BeginCall, Begin, ConfTypeOK
      <4> QED BY <4>1 DEF Evicted, Publishing, Busy
    <3>2. CASE CommitCall(k)
      <4>1. call' = [call EXCEPT ![k] = Idle]
        BY <3>2 DEF CommitCall, CommitSaveDraft, CommitPublish, CommitUndo, Rollback
      <4> QED BY <1>0, <4>1, StillPublishing DEF Evicted
    <3> QED BY <1>1, <3>1, <3>2
  <2>3. UNCHANGED row \/ Evicted # {}
    <3>1. CASE CommitPublish(k)
      BY <3>1 DEF CommitPublish, Evicted, Publishing, Busy
    <3> QED BY <1>1, <3>1 DEF BeginCall, CommitCall, Begin, CommitSaveDraft, CommitUndo, Rollback
  <2> QED BY <2>1, <2>2, <2>3, CacheKept
<1>2. ASSUME NEW k \in Call, EvictCalculator(k) PROVE CachePart'
  <2>1. CASE Evict(k)
    BY <2>1, EvictStep DEF Evict
  <2>2. CASE EvictRefused(k)
    <3>1. Doubt(Key) /\ UNCHANGED <<row, cache, calculated>>
      BY <2>2 DEF EvictRefused
    <3> QED BY <3>1, DoubtStep
  <2> QED BY <1>2, <2>1, <2>2 DEF EvictCalculator
<1>3. ASSUME EditAnchor PROVE CachePart'
  <2>1. PICK a \in Anchor, p \in Place : UpdateAnchorUnseen(a, p)
    BY <1>3 DEF EditAnchor
  <2> DEFINE keys == {key \in Key : a \in key.of}
  <2>2. /\ row' = [row EXCEPT ![a] = p] /\ Doubt(keys)
        /\ UNCHANGED <<call, cache, calculated>>
    BY <2>1 DEF UpdateAnchorUnseen, UpdateAnchor
  <2>3. Evicted' = Evicted
    BY <2>2 DEF Evicted, Publishing, Busy
  <2>4. \A key \in Key \ keys : Row(key)' = Row(key)
    <3>1. \A key \in Key \ keys : \A b \in key.of : row'[b] = row[b]
      BY <1>0, <2>2, Keys DEF ConfTypeOK
    <3> QED BY <3>1 DEF Row
  <2> HIDE DEF keys
  <2> QED BY <2>2, <2>3, <2>4, DoubtStep
<1>4. ASSUME RemoveFloor PROVE CachePart'
  <2>1. PICK f \in Floor : DeleteFloorUnseen(f)
    BY <1>4 DEF RemoveFloor
  <2> DEFINE keys == {key \in Key : \E a \in key.of : row[a] = f}
  <2>2. /\ row' = Released(f) /\ Doubt(keys) /\ UNCHANGED <<call, cache, calculated>>
    BY <2>1 DEF DeleteFloorUnseen, DeleteFloor
  <2>3. Evicted' = Evicted
    BY <2>2 DEF Evicted, Publishing, Busy
  <2>4. \A key \in Key \ keys : Row(key)' = Row(key)
    <3>1. \A key \in Key \ keys : \A b \in key.of : row'[b] = row[b]
      BY <2>2, Keys DEF Released
    <3> QED BY <3>1 DEF Row
  <2> HIDE DEF keys
  <2> QED BY <2>2, <2>3, <2>4, DoubtStep
<1>5. ASSUME NEW t \in Thread, ReceiveMeasure(t) PROVE CachePart'
  <2>0. PICK g \in Tag, S \in Connected : \E a \in S : HandleMeasure(t, g, S, a)
    BY <1>5 DEF ReceiveMeasure
  <2>1. PICK a \in S : HandleMeasure(t, g, S, a)
    BY <2>0
  <2> DEFINE new == [step |-> "position", tag |-> g, connected |-> S, anchor |-> a,
                     read |-> Absent, crossed |-> FALSE]
  <2>2. new \in LookUpState /\ new.read = Absent
    BY CacheAssumption DEF LookUpState
  <2>3. handling' = [handling EXCEPT ![t] = new] /\ UNCHANGED <<confVars, cache, suspect, calculated>>
    BY <1>5, <2>1 DEF HandleMeasure, ReceiveMeasure
  <2> HIDE DEF new
  <2>4. Evicted' = Evicted /\ UNCHANGED row /\ AddState' = AddState
    BY <2>3 DEF confVars, Evicted, Publishing, Busy, AddState, Coordinate
  <2>5. /\ handling' \in [Thread -> {Free} \cup LookUpState \cup AddState']
        /\ \A u \in Thread \ {t} : handling'[u] = handling[u]
        /\ handling'[t].read = Absent
    BY <1>0, <2>2, <2>3, <2>4 DEF CacheTypeOK
  <2> QED BY <2>3, <2>4, <2>5, ThreadStep
<1>6. ASSUME NEW t \in Thread, FindPosition(t) PROVE CachePart'
  <2>1. Evicted' = Evicted /\ UNCHANGED row
    BY <1>6 DEF FindPosition, confVars, Evicted, Publishing, Busy
  <2>2. CASE LookUp(t)
    <3>1. t \in LookingUp /\ UNCHANGED <<cache, suspect>> /\ KeyOf(handling[t]) \in Key
      BY <1>0, <2>2, ThreadKeys DEF LookUp
    <3>2. CASE cache[KeyOf(handling[t])] # Absent
      <4>1. Continue(t, cache[KeyOf(handling[t])])
        BY <2>2, <3>2 DEF LookUp
      <4>2. cache[KeyOf(handling[t])] \in [KeyOf(handling[t]).of -> Place]
        BY <3>1, <3>2 DEF CachePart, Shaped
      <4>3. /\ calculated' \in {calculated, calculated + 1}
            /\ handling' \in [Thread -> {Free} \cup LookUpState \cup AddState']
            /\ \A u \in Thread \ {t} : handling'[u] = handling[u]
            /\ t \in LookingUp' => handling'[t].read = Absent
        BY <1>0, <3>1, <4>1, <4>2, ContinueThreads
      <4> QED BY <2>1, <3>1, <4>3, ThreadStep
    <3>3. CASE cache[KeyOf(handling[t])] = Absent
      <4>1. /\ UNCHANGED calculated
            /\ handling' = [handling EXCEPT ![t].read = Row(KeyOf(handling[t])),
                                            ![t].crossed = Evicted # {}]
        BY <2>2, <3>3 DEF LookUp
      <4> QED BY <1>0, <2>1, <3>1, <4>1, ReadStep
    <3> QED BY <3>2, <3>3
  <2>3. CASE PutInCache(t)
    BY <2>1, <2>3, PutStep
  <2> QED BY <1>6, <2>2, <2>3 DEF FindPosition
<1>7. ASSUME NEW t \in Thread, AddCoordinate(t) PROVE CachePart'
  <2>1. /\ UNCHANGED <<row, cache, suspect, calculated>> /\ Evicted' = Evicted
        /\ AddState' = AddState
    BY <1>7 DEF AddCoordinate, confVars, Evicted, Publishing, Busy, AddState, Coordinate
  <2>2. /\ handling[t].step \in {"save", "send"} /\ handling[t] # Free
        /\ \/ handling' = [handling EXCEPT ![t].step = "send"]
           \/ handling' = [handling EXCEPT ![t] = Free]
    BY <1>7 DEF AddCoordinate, AtWork
  <2>3. handling[t] \in AddState
    BY <1>0, <2>2 DEF CacheTypeOK, LookUpState
  <2>4. /\ [handling[t] EXCEPT !.step = "send"] \in AddState
        /\ [handling[t] EXCEPT !.step = "send"].step = "send"
    BY <2>3 DEF AddState
  <2>5. PICK h \in {Free} \cup AddState : /\ handling' = [handling EXCEPT ![t] = h]
                                          /\ h.step \in {"free", "send"}
    BY <2>2, <2>4 DEF Free
  <2>6. /\ handling' \in [Thread -> {Free} \cup LookUpState \cup AddState']
        /\ \A u \in Thread \ {t} : handling'[u] = handling[u]
        /\ t \notin LookingUp'
    BY <1>0, <2>1, <2>5 DEF CacheTypeOK, LookingUp
  <2> QED BY <2>1, <2>6, ThreadStep
<1>8. ASSUME \/ SaveCoordinates \/ SendCoordinates \/ \E x \in Frontend : Talk(x)
             \/ UNCHANGED vars
      PROVE  CachePart'
  <2>1. UNCHANGED <<confVars, cacheVars>>
    BY <1>8 DEF SaveCoordinates, SendCoordinates, Talk, vars
  <2>2. Evicted' = Evicted /\ UNCHANGED row
    BY <2>1 DEF confVars, Evicted, Publishing, Busy
  <2> QED BY <2>1, <2>2, CacheKept
<1> QED BY <1>1, <1>2, <1>3, <1>4, <1>5, <1>6, <1>7, <1>8 DEF Next

------------------------------------------------------------------------------
(* Adding is unaffected by what does not start it or carry it on.            *)
LEMMA AddedQuiet ==
  ASSUME Added, UNCHANGED <<put, queued>>,
         \A t \in Pending' : t \in Pending /\ handling'[t] = handling[t]
  PROVE  Added'
BY DEF Added

(* A new coordinate has a number no other has.                               *)
LEMMA AddedNew ==
  ASSUME CacheTypeOK, Added, BatchTypeOK(Coordinate), UNCHANGED <<put, queued>>,
         NEW t \in Thread, NEW g \in Tag, NEW f \in Floor,
         handling' = [handling EXCEPT ![t] =
           [step |-> "save", coordinate |-> [n |-> calculated + 1, tag |-> g, floor |-> f]]]
  PROVE  Added'
<1> DEFINE c == [n |-> calculated + 1, tag |-> g, floor |-> f]
           new == [step |-> "save", coordinate |-> c]
<1>1. \A d \in Coordinate : d # c
  <2>1. \A d \in Coordinate : d.n <= calculated /\ calculated \in Nat
    BY DEF Coordinate, CacheTypeOK
  <2> QED BY <2>1
<1>2. new.step = "save" /\ new.coordinate = c
  OBVIOUS
<1> HIDE DEF c, new
<1>3. handling'[t] = new /\ \A u \in Thread \ {t} : handling'[u] = handling[u]
  BY DEF CacheTypeOK, new, c
<1>4. put \subseteq Coordinate /\ queued \subseteq Coordinate
  BY DEF BatchTypeOK
<1>5. \A u \in Pending' : u # t => u \in Pending /\ handling'[u] = handling[u]
  BY <1>3 DEF Pending, AtWork
<1>6. \A u \in Pending : handling[u].coordinate \in Coordinate
  <2>1. ASSUME NEW u \in Pending PROVE handling[u] \in AddState
    BY DEF Pending, AtWork, CacheTypeOK, LookUpState
  <2> QED BY <2>1 DEF AddState
<1>7. c \notin put /\ c \notin queued /\ \A u \in Pending : handling[u].coordinate # c
  BY <1>1, <1>4, <1>6
<1> QED BY <1>2, <1>3, <1>5, <1>7 DEF Added

(* add, its two halves, for the threads and for the queue and the map.       *)
LEMMA AddedOn ==
  ASSUME CacheTypeOK, Added, NEW t \in Thread, AddCoordinate(t)
  PROVE  Added'
<1> DEFINE c == handling[t].coordinate
<1>1. t \in Pending /\ handling[t] \in AddState
  BY DEF AddCoordinate, Pending, AtWork, CacheTypeOK, LookUpState
<1>2. \A u \in Pending : u # t => handling[u].coordinate # c
  BY <1>1 DEF Added
<1>3. CASE handling[t].step = "save"
  <2> DEFINE new == [handling[t] EXCEPT !.step = "send"]
  <2>1. handling' = [handling EXCEPT ![t] = new]
    BY <1>3 DEF AddCoordinate
  <2>2. new.step = "send" /\ new.coordinate = c
    BY <1>1 DEF AddState
  <2> HIDE DEF new
  <2>3. handling'[t] = new /\ \A u \in Thread \ {t} : handling'[u] = handling[u]
    BY <2>1 DEF CacheTypeOK
  <2>4. /\ UNCHANGED put /\ queued \subseteq queued' /\ queued' \subseteq queued \cup {c}
    BY <1>3 DEF AddCoordinate, AddToSave, batchVars, saveVars, sendVars
  <2>5. \A u \in Pending' : u \in Pending /\ (u # t => handling'[u] = handling[u])
    BY <1>1, <2>3 DEF Pending, AtWork
  <2> HIDE DEF c
  <2>6. \A u \in Pending' : handling'[u].coordinate = handling[u].coordinate
    BY <2>2, <2>3, <2>5 DEF c
  <2>7. \A u \in Pending' : handling'[u].step = "save" => u # t
    BY <2>2, <2>3
  <2> QED BY <1>1, <1>2, <2>4, <2>5, <2>6, <2>7 DEF Added
<1>4. CASE handling[t].step = "send"
  <2>1. handling' = [handling EXCEPT ![t] = Free]
    BY <1>4 DEF AddCoordinate
  <2>2. UNCHANGED queued /\ put' = put \cup {c}
    BY <1>4 DEF AddCoordinate, PutToSend, saveVars
  <2>3. handling'[t] = Free /\ \A u \in Thread \ {t} : handling'[u] = handling[u]
    BY <2>1 DEF CacheTypeOK
  <2>4. \A u \in Pending' : u # t /\ u \in Pending /\ handling'[u] = handling[u]
    BY <2>3 DEF Pending, AtWork
  <2> HIDE DEF c
  <2> QED BY <1>2, <2>2, <2>4 DEF Added
<1> QED BY <1>1, <1>3, <1>4 DEF AddState

(* What is found for a thread, when it goes on, is what the caches hold or   *)
(* what it has read.                                                         *)
LEMMA FindStep ==
  ASSUME ConfTypeOK, CachePart, NEW t \in Thread, FindPosition(t)
  PROVE  \/ /\ UNCHANGED calculated
            /\ \A u \in Pending' : u \in Pending /\ handling'[u] = handling[u]
         \/ /\ calculated' = calculated + 1
            /\ \E g \in Tag, f \in Floor :
                 handling' = [handling EXCEPT ![t] =
                   [step |-> "save",
                    coordinate |-> [n |-> calculated + 1, tag |-> g, floor |-> f]]]
<1>0. CacheTypeOK
  BY DEF CachePart
<1>1. ASSUME NEW found \in [KeyOf(handling[t]).of -> Place], t \in LookingUp, Continue(t, found),
             UNCHANGED calculated,
             \E h \in {Free} \cup {g \in LookUpState : g.read = Absent} :
                 handling' = [handling EXCEPT ![t] = h]
      PROVE  \A u \in Pending' : u \in Pending /\ handling'[u] = handling[u]
  <2>1. PICK h \in {Free} \cup {g \in LookUpState : g.read = Absent} :
               handling' = [handling EXCEPT ![t] = h]
    BY <1>1
  <2>2. h.step \notin {"save", "send"}
    BY <2>1 DEF Free, LookUpState
  <2>3. handling'[t] = h /\ \A u \in Thread \ {t} : handling'[u] = handling[u]
    BY <1>0, <2>1 DEF CacheTypeOK
  <2> QED BY <2>2, <2>3 DEF Pending, AtWork
<1>2. CASE /\ t \in LookingUp /\ cache[KeyOf(handling[t])] = Absent
           /\ LookUp(t)
  <2>1. /\ UNCHANGED calculated
        /\ handling' = [handling EXCEPT ![t].read = Row(KeyOf(handling[t])),
                                        ![t].crossed = Evicted # {}]
    BY <1>2 DEF LookUp
  <2>2. handling'[t].step = handling[t].step /\ \A u \in Thread \ {t} : handling'[u] = handling[u]
    <3>1. handling[t] \in LookUpState
      BY <1>0, <1>2, ThreadKeys
    <3> QED BY <1>0, <2>1, <3>1 DEF CacheTypeOK, LookUpState
  <2> QED BY <1>2, <2>1, <2>2 DEF Pending, AtWork, LookingUp
<1>3. CASE t \in LookingUp /\ \E found \in [KeyOf(handling[t]).of -> Place] : Continue(t, found)
  BY <1>0, <1>1, <1>3, ContinueStep
<1>4. \/ t \in LookingUp /\ cache[KeyOf(handling[t])] = Absent /\ LookUp(t)
      \/ t \in LookingUp /\ \E found \in [KeyOf(handling[t]).of -> Place] : Continue(t, found)
  <2>1. CASE LookUp(t)
    <3>1. t \in LookingUp /\ KeyOf(handling[t]) \in Key
      BY <1>0, <2>1, ThreadKeys DEF LookUp
    <3>2. cache[KeyOf(handling[t])] # Absent =>
            /\ Continue(t, cache[KeyOf(handling[t])])
            /\ cache[KeyOf(handling[t])] \in [KeyOf(handling[t]).of -> Place]
      BY <2>1, <3>1 DEF LookUp, CachePart, Shaped
    <3> QED BY <2>1, <3>1, <3>2
  <2>2. CASE PutInCache(t)
    <3>1. t \in LookingUp /\ handling[t].read # Absent /\ Continue(t, handling[t].read)
      BY <2>2 DEF PutInCache, Reading
    <3>2. handling[t].read \in [KeyOf(handling[t]).of -> Place]
      BY <3>1 DEF CachePart, Shaped
    <3> QED BY <3>1, <3>2
  <2> QED BY <2>1, <2>2 DEF FindPosition
<1> QED BY <1>2, <1>3, <1>4

------------------------------------------------------------------------------
(* Queue and map stand still while coordinates are calculated.               *)
LEMMA BatchGrow ==
  ASSUME CacheTypeOK, BatchPart, UNCHANGED batchVars, calculated' \in {calculated, calculated + 1}
  PROVE  BatchPart'
<1>1. Coordinate \subseteq Coordinate'
  BY CoordinatesGrow
<1> USE DEF batchVars, saveVars, sendVars
<1>2. BatchTypeOK(Coordinate)'
  BY <1>1 DEF BatchPart, BatchTypeOK
<1> QED BY <1>2 DEF BatchPart, Saving, Sending, EachSaved, EachSent

(* A coordinate that is queued is not saved yet ...                          *)
LEMMA BatchQueued ==
  ASSUME BatchPart, NEW c \in Coordinate, c \notin queued, AddToSave(c), UNCHANGED calculated
  PROVE  BatchPart'
<1>1. /\ coordinatesToSave' = coordinatesToSave \cup {c} /\ queued' = queued \cup {c}
      /\ behind' = IF saving.step = "idle" THEN behind ELSE behind \cup {c}
      /\ UNCHANGED <<saving, saved, repeated, unanswered>> /\ UNCHANGED sendVars
  BY DEF AddToSave
<1>2. Coordinate' = Coordinate
  BY DEF Coordinate
<1>3. BatchTypeOK(Coordinate)'
  BY <1>1, <1>2 DEF BatchPart, BatchTypeOK, sendVars
<1>4. c \notin saved
  BY DEF BatchPart, BatchTypeOK
<1>5. Saving'
  BY <1>1, <1>4 DEF BatchPart, Saving
<1>6. EachSaved'
  BY <1>1 DEF BatchPart, EachSaved
<1>7. Sending' /\ EachSent'
  BY <1>1 DEF BatchPart, Sending, EachSent, sendVars
<1> QED BY <1>3, <1>5, <1>6, <1>7 DEF BatchPart

(* ... and one that is put into the map is not sent yet.                     *)
LEMMA BatchPut ==
  ASSUME BatchPart, NEW c \in Coordinate, c \notin put, PutToSend(c), UNCHANGED calculated
  PROVE  BatchPart'
<1>1. /\ coordinatesToSend' = (coordinatesToSend \ OfTag(c.tag)) \cup {c} /\ put' = put \cup {c}
      /\ superseded' = superseded \cup (OfTag(c.tag) \ sending.batch)
      /\ overlooked' = IF sending.step = "idle" THEN overlooked ELSE overlooked \cup {c}
      /\ UNCHANGED <<sending, sent>> /\ UNCHANGED saveVars
  BY DEF PutToSend
<1>2. Coordinate' = Coordinate
  BY DEF Coordinate
<1>3. OfTag(c.tag) = {d \in coordinatesToSend : d.tag = c.tag}
  BY DEF OfTag
<1>4. BatchTypeOK(Coordinate)'
  <2>1. \A d, e \in coordinatesToSend' : d.tag = e.tag => d = e
    BY <1>1, <1>3 DEF BatchPart, BatchTypeOK
  <2> QED BY <1>1, <1>2, <1>3, <2>1 DEF BatchPart, BatchTypeOK, saveVars
<1>5. c \notin sent
  BY DEF BatchPart, BatchTypeOK
<1>6. Sending'
  BY <1>1, <1>5 DEF BatchPart, Sending
<1>7. EachSent'
  BY <1>1, <1>3 DEF BatchPart, EachSent
<1>8. Saving' /\ EachSaved'
  BY <1>1 DEF BatchPart, Saving, EachSaved, saveVars
<1> QED BY <1>4, <1>6, <1>7, <1>8 DEF BatchPart

(* The save task clears only what is saved, or came behind the batch.        *)
LEMMA SaveStep ==
  ASSUME BatchPart, SaveCoordinates
  PROVE  BatchPart'
<1>1. UNCHANGED <<calculated, queued, coordinatesToSend, sending, sent, put, superseded, overlooked>>
  BY DEF SaveCoordinates, Collect, Insert, ClearToSave, InsertFails, InsertUnanswered, Throw,
         cacheVars, sendVars
<1>2. Coordinate' = Coordinate /\ Sending' /\ EachSent'
  BY <1>1 DEF Coordinate, BatchPart, Sending, EachSent
<1>3. SUFFICES BatchTypeOK(Coordinate)' /\ Saving' /\ EachSaved'
  BY <1>2 DEF BatchPart
<1>4. CASE Collect
  <2>1. /\ saving.step = "idle" /\ saving' = [step |-> "execute", batch |-> coordinatesToSave]
        /\ UNCHANGED <<coordinatesToSave, saved, behind, repeated, unanswered>>
    BY <1>4 DEF Collect
  <2>2. coordinatesToSave \subseteq queued'
    BY <1>1 DEF BatchPart, Saving
  <2>3. BatchTypeOK(Coordinate)'
    BY <1>1, <1>2, <2>1, <2>2 DEF BatchPart, BatchTypeOK
  <2> QED BY <1>1, <2>1, <2>3 DEF BatchPart, Saving, EachSaved
<1>5. CASE Insert(floors)
  <2>1. /\ saving.step = "execute" /\ saving' = [saving EXCEPT !.step = "clear"]
        /\ saved' = saved \cup saving.batch /\ repeated' = repeated \cup (saving.batch \cap saved)
        /\ UNCHANGED <<coordinatesToSave, behind, unanswered>>
    BY <1>5 DEF Insert, Inserted
  <2> QED BY <1>1, <1>2, <2>1 DEF BatchPart, BatchTypeOK, Saving, EachSaved
<1>6. CASE InsertFails(floors)
  <2>1. /\ saving' = [step |-> "idle", batch |-> {}] /\ behind' = behind \ coordinatesToSave
        /\ saving.step = "execute"
        /\ UNCHANGED <<coordinatesToSave, saved, repeated, unanswered>>
    BY <1>6 DEF InsertFails, Throw, AfterFailure
  <2> QED BY <1>1, <1>2, <2>1 DEF BatchPart, BatchTypeOK, Saving, EachSaved
<1>7. CASE InsertUnanswered(floors)
  <2>1. /\ saving' = [step |-> "idle", batch |-> {}] /\ behind' = behind \ coordinatesToSave
        /\ saving.step = "execute" /\ unanswered' = unanswered \cup saving.batch
        /\ saved' = saved \cup saving.batch /\ repeated' = repeated \cup (saving.batch \cap saved)
        /\ UNCHANGED coordinatesToSave
    BY <1>7 DEF InsertUnanswered, Inserted, Throw, AfterFailure
  <2> QED BY <1>1, <1>2, <2>1 DEF BatchPart, BatchTypeOK, Saving, EachSaved
<1>8. CASE ClearToSave
  <2>1. /\ saving.step = "clear" /\ saving' = [step |-> "idle", batch |-> {}]
        /\ coordinatesToSave' = {}
        /\ UNCHANGED <<saved, behind, repeated, unanswered>>
    BY <1>8 DEF ClearToSave, Resting
  <2> QED BY <1>1, <1>2, <2>1 DEF BatchPart, BatchTypeOK, Saving, EachSaved
<1> QED BY <1>4, <1>5, <1>6, <1>7, <1>8 DEF SaveCoordinates

(* The send task takes what it copied, and clears the map.                   *)
LEMMA SendStep ==
  ASSUME BatchPart, SendCoordinates
  PROVE  BatchPart'
<1>1. /\ UNCHANGED <<calculated, put, superseded, overlooked>>
      /\ UNCHANGED saveVars
  BY DEF SendCoordinates, Copy, ClearToSend, cacheVars, batchVars, sendVars
<1>2. Coordinate' = Coordinate /\ Saving' /\ EachSaved'
  BY <1>1 DEF Coordinate, BatchPart, Saving, EachSaved, saveVars
<1>3. CASE Copy
  <2>1. /\ sending.step = "idle" /\ sending' = [step |-> "clear", batch |-> coordinatesToSend]
        /\ UNCHANGED <<coordinatesToSend, sent>>
    BY <1>3 DEF Copy
  <2>2. BatchTypeOK(Coordinate)'
    BY <1>1, <1>2, <2>1 DEF BatchPart, BatchTypeOK, saveVars
  <2> QED BY <1>1, <1>2, <2>1, <2>2 DEF BatchPart, Sending, EachSent
<1>4. CASE ClearToSend
  <2>1. /\ sending.step = "clear" /\ sending' = [step |-> "idle", batch |-> {}]
        /\ coordinatesToSend' = {} /\ sent' = sent \cup sending.batch
    BY <1>4 DEF ClearToSend, Cleared, Resting
  <2>2. BatchTypeOK(Coordinate)'
    BY <1>1, <1>2, <2>1 DEF BatchPart, BatchTypeOK, saveVars
  <2> QED BY <1>1, <1>2, <2>1, <2>2 DEF BatchPart, Sending, EachSent
<1>5. CASE UNCHANGED batchVars
  BY <1>1, <1>2, <1>5 DEF BatchPart, BatchTypeOK, Sending, EachSent, batchVars, saveVars, sendVars
<1> QED BY <1>3, <1>4, <1>5 DEF SendCoordinates

------------------------------------------------------------------------------
(* Whatever else happens, no thread has another's coordinate to add.         *)
LEMMA AddedNext == ConfPart /\ CachePart /\ Added /\ BatchPart /\ [Next]_vars => Added'
<1> SUFFICES ASSUME ConfPart, CachePart, Added, BatchPart, [Next]_vars PROVE Added'
  OBVIOUS
<1>0. CacheTypeOK /\ ConfTypeOK /\ BatchTypeOK(Coordinate)
  BY DEF CachePart, ConfPart, ConfInv, BatchPart
<1>1. ASSUME UNCHANGED handling, UNCHANGED <<put, queued>> PROVE Added'
  BY <1>1, AddedQuiet DEF Pending, AtWork
<1>2. ASSUME NEW X \in SUBSET Reading, UNCHANGED <<put, queued>>,
             handling' = [t \in Thread |-> IF t \in X THEN [handling[t] EXCEPT !.crossed = TRUE]
                                           ELSE handling[t]],
             UNCHANGED calculated
      PROVE  Added'
  <2>1. LookingUp' = LookingUp /\ \A t \in Thread \ X : handling'[t] = handling[t]
    BY <1>0, <1>2, Crossing
  <2>2. X \subseteq LookingUp
    BY DEF Reading
  <2>3. \A t \in Pending' : t \in Pending /\ handling'[t] = handling[t]
    BY <2>1, <2>2 DEF Pending, LookingUp, AtWork
  <2> QED BY <1>2, <2>3, AddedQuiet
<1>3. ASSUME NEW keys, Doubt(keys), UNCHANGED <<put, queued, calculated>> PROVE Added'
  <2> DEFINE X == {t \in Reading : KeyOf(handling[t]) \in keys}
  <2>1. handling' = [t \in Thread |-> IF t \in X THEN [handling[t] EXCEPT !.crossed = TRUE]
                                      ELSE handling[t]]
    BY <1>3 DEF Doubt
  <2>2. X \in SUBSET Reading
    OBVIOUS
  <2> HIDE DEF X
  <2> QED BY <1>2, <1>3, <2>1, <2>2
<1>4. ASSUME NEW k \in Call, BeginCall(k) \/ CommitCall(k) PROVE Added'
  BY <1>1, <1>4 DEF BeginCall, CommitCall, cacheVars, batchVars, saveVars, sendVars
<1>5. ASSUME NEW k \in Call, EvictCalculator(k) PROVE Added'
  <2>1. UNCHANGED <<put, queued>>
    BY <1>5 DEF EvictCalculator, batchVars, saveVars, sendVars
  <2>2. CASE Evict(k)
    <3>1. /\ UNCHANGED calculated
          /\ handling' = [t \in Thread |-> IF t \in Reading
               THEN [handling[t] EXCEPT !.crossed = TRUE] ELSE handling[t]]
      BY <2>2 DEF Evict, AnswersEvict
    <3> QED BY <1>2, <2>1, <3>1
  <2>3. CASE EvictRefused(k)
    BY <1>3, <2>1, <2>3 DEF EvictRefused
  <2> QED BY <1>5, <2>2, <2>3 DEF EvictCalculator
<1>6. ASSUME EditAnchor \/ RemoveFloor PROVE Added'
  <2>1. UNCHANGED <<put, queued, calculated>>
    BY <1>6 DEF EditAnchor, RemoveFloor, UpdateAnchorUnseen, DeleteFloorUnseen,
                batchVars, saveVars, sendVars
  <2>2. \E keys : Doubt(keys)
    BY <1>6 DEF EditAnchor, RemoveFloor, UpdateAnchorUnseen, DeleteFloorUnseen
  <2> QED BY <1>3, <2>1, <2>2
<1>7. ASSUME NEW t \in Thread, ReceiveMeasure(t) PROVE Added'
  <2>1. UNCHANGED <<put, queued>>
    BY <1>7 DEF ReceiveMeasure, batchVars, saveVars, sendVars
  <2>2. PICK h : handling' = [handling EXCEPT ![t] = h] /\ h.step = "position"
    <3>1. PICK g \in Tag, S \in Connected : \E a \in S : HandleMeasure(t, g, S, a)
      BY <1>7 DEF ReceiveMeasure
    <3>2. PICK a \in S : HandleMeasure(t, g, S, a)
      BY <3>1
    <3> DEFINE new == [step |-> "position", tag |-> g, connected |-> S, anchor |-> a,
                       read |-> Absent, crossed |-> FALSE]
    <3>3. handling' = [handling EXCEPT ![t] = new] /\ new.step = "position"
      BY <3>2 DEF HandleMeasure
    <3> HIDE DEF new
    <3> QED BY <3>3
  <2>3. \A u \in Pending' : u \in Pending /\ handling'[u] = handling[u]
    BY <1>0, <2>2 DEF CacheTypeOK, Pending, AtWork
  <2> QED BY <2>1, <2>3, AddedQuiet
<1>8. ASSUME NEW t \in Thread, FindPosition(t) PROVE Added'
  <2>1. UNCHANGED <<put, queued>>
    BY <1>8 DEF FindPosition, batchVars, saveVars, sendVars
  <2>2. CASE \A u \in Pending' : u \in Pending /\ handling'[u] = handling[u]
    BY <2>1, <2>2, AddedQuiet
  <2>3. CASE \E g \in Tag, f \in Floor :
               handling' = [handling EXCEPT ![t] =
                 [step |-> "save",
                  coordinate |-> [n |-> calculated + 1, tag |-> g, floor |-> f]]]
    BY <1>0, <2>1, <2>3, AddedNew
  <2> QED BY <1>0, <1>8, <2>2, <2>3, FindStep
<1>9. ASSUME NEW t \in Thread, AddCoordinate(t) PROVE Added'
  BY <1>0, <1>9, AddedOn
<1>10. ASSUME SaveCoordinates PROVE Added'
  BY <1>1, <1>10 DEF SaveCoordinates, Collect, Insert, ClearToSave, InsertFails,
                     InsertUnanswered, Throw, cacheVars, sendVars
<1>11. ASSUME SendCoordinates \/ UNCHANGED vars \/ \E x \in Frontend : Talk(x) PROVE Added'
  BY <1>1, <1>11 DEF SendCoordinates, Talk, Copy, ClearToSend, vars, cacheVars, batchVars,
                     saveVars, sendVars
<1> QED BY <1>4, <1>5, <1>6, <1>7, <1>8, <1>9, <1>10, <1>11 DEF Next

(* The queue and the map through every step of the system.                   *)
LEMMA BatchPartNext == ConfPart /\ CachePart /\ Added /\ BatchPart /\ [Next]_vars => BatchPart'
<1> SUFFICES ASSUME ConfPart, CachePart, Added, BatchPart, [Next]_vars PROVE BatchPart'
  OBVIOUS
<1>0. CacheTypeOK /\ ConfTypeOK
  BY DEF CachePart, ConfPart, ConfInv
<1>1. ASSUME NEW k \in Call, BeginCall(k) \/ CommitCall(k) \/ EvictCalculator(k) PROVE BatchPart'
  <2>1. UNCHANGED batchVars /\ UNCHANGED calculated
    BY <1>1 DEF BeginCall, CommitCall, EvictCalculator, Evict, EvictRefused, AnswersEvict, cacheVars
  <2> QED BY <1>0, <2>1, BatchGrow
<1>2. ASSUME EditAnchor \/ RemoveFloor \/ UNCHANGED vars \/ \E x \in Frontend : Talk(x)
      PROVE  BatchPart'
  <2>1. UNCHANGED batchVars /\ UNCHANGED calculated
    BY <1>2 DEF EditAnchor, RemoveFloor, Talk, UpdateAnchorUnseen, DeleteFloorUnseen, vars, cacheVars
  <2> QED BY <1>0, <2>1, BatchGrow
<1>3. ASSUME NEW t \in Thread, ReceiveMeasure(t) \/ FindPosition(t) PROVE BatchPart'
  <2>1. UNCHANGED batchVars
    BY <1>3 DEF ReceiveMeasure, FindPosition
  <2>2. calculated' \in {calculated, calculated + 1}
    <3>1. CASE ReceiveMeasure(t)
      BY <3>1 DEF ReceiveMeasure, HandleMeasure
    <3>2. CASE FindPosition(t)
      BY <1>0, <3>2, FindStep
    <3> QED BY <1>3, <3>1, <3>2
  <2> QED BY <1>0, <2>1, <2>2, BatchGrow
<1>4. ASSUME NEW t \in Thread, AddCoordinate(t) PROVE BatchPart'
  <2> DEFINE c == handling[t].coordinate
  <2>1. t \in Pending /\ handling[t] \in AddState /\ UNCHANGED calculated
    BY <1>0, <1>4 DEF AddCoordinate, Pending, AtWork, CacheTypeOK, LookUpState
  <2>2. c \in Coordinate
    BY <2>1 DEF AddState
  <2>3. CASE handling[t].step = "save"
    <3>1. c \notin queued
      BY <2>1, <2>3 DEF Added
    <3>2. AddToSave(c) \/ UNCHANGED batchVars
      BY <1>4, <2>3 DEF AddCoordinate
    <3> HIDE DEF c
    <3> QED BY <1>0, <2>1, <2>2, <3>1, <3>2, BatchQueued, BatchGrow
  <2>4. CASE handling[t].step = "send"
    <3>1. c \notin put /\ PutToSend(c)
      BY <1>4, <2>1, <2>4 DEF AddCoordinate, Added
    <3> HIDE DEF c
    <3> QED BY <2>1, <2>2, <3>1, BatchPut
  <2> QED BY <2>1, <2>3, <2>4 DEF AddState
<1> QED BY <1>1, <1>2, <1>3, <1>4, SaveStep, SendStep DEF Next
------------------------------------------------------------------------------
(* The loop over the frontends, and what they do meanwhile.                  *)
LEMMA FrontPartNext == BatchPart /\ FrontPart /\ [Next]_vars => FrontPart'
<1> SUFFICES ASSUME BatchPart, FrontPart, [Next]_vars PROVE FrontPart'
  OBVIOUS
<1>1. ASSUME UNCHANGED <<batchVars, frontVars>> PROVE FrontPart'
  BY <1>1, FrontQuiet DEF batchVars, sendVars
<1>2. ASSUME NEW k \in Call, BeginCall(k) \/ CommitCall(k) \/ EvictCalculator(k) PROVE FrontPart'
  BY <1>1, <1>2 DEF BeginCall, CommitCall, EvictCalculator
<1>3. ASSUME EditAnchor \/ RemoveFloor \/ UNCHANGED vars PROVE FrontPart'
  BY <1>1, <1>3 DEF EditAnchor, RemoveFloor, vars
<1>4. ASSUME NEW t \in Thread, ReceiveMeasure(t) \/ FindPosition(t) PROVE FrontPart'
  BY <1>1, <1>4 DEF ReceiveMeasure, FindPosition
<1>5. ASSUME NEW t \in Thread, AddCoordinate(t) PROVE FrontPart'
  <2>1. UNCHANGED frontVars /\ UNCHANGED sent
    BY <1>5 DEF AddCoordinate, AddToSave, PutToSend, batchVars, sendVars
  <2> QED BY <2>1, FrontQuiet
<1>6. ASSUME SaveCoordinates PROVE FrontPart'
  <2>1. UNCHANGED frontVars /\ UNCHANGED sent
    BY <1>6 DEF SaveCoordinates, Collect, Insert, ClearToSave, InsertFails, InsertUnanswered,
                Throw, sendVars
  <2> QED BY <2>1, FrontQuiet
<1>7. ASSUME SendCoordinates PROVE FrontPart'
  <2>1. CASE Copy /\ UNCHANGED frontVars
    BY <2>1, FrontQuiet DEF Copy
  <2>2. CASE ClearToSend /\ BeginRound(sending.batch)
    <3>1. sent' = sent \cup sending.batch
      BY <2>2 DEF ClearToSend
    <3>2. \A c \in sending.batch : c.tag \in Tag
      BY DEF BatchPart, BatchTypeOK, Coordinate
    <3> QED BY <2>2, <3>1, <3>2, BeginRoundStep
  <2>3. ASSUME NEW x \in Frontend, Reach(x) \/ Deliver(x) \/ NotSent(x) \/ CutShort(x),
               UNCHANGED batchVars
        PROVE  FrontPart'
    BY <2>3, RoundStep DEF batchVars, sendVars
  <2> QED BY <1>7, <2>1, <2>2, <2>3 DEF SendCoordinates
<1>8. ASSUME NEW x \in Frontend, Talk(x) PROVE FrontPart'
  <2>1. UNCHANGED sent
    BY <1>8 DEF Talk, batchVars, sendVars
  <2> QED BY <1>8, <2>1, ConnectStep, LeaveStep, FilterStep DEF Talk
<1> QED BY <1>2, <1>3, <1>4, <1>5, <1>6, <1>7, <1>8 DEF Next
------------------------------------------------------------------------------
LEMMA IInvInit == Init => IInv
<1> SUFFICES ASSUME Init PROVE IInv
  OBVIOUS
<1>1. ConfPart
  BY ConfInvInit, PlacedInit DEF Init, ConfPart
<1>2. AtWork = {} /\ Cached = {} /\ Busy = {}
  BY DEF Init, CacheInit, AtWork, Cached, ConfInit, Busy
<1>3. CachePart
  <2>1. CacheTypeOK
    BY DEF Init, CacheInit, CacheTypeOK
  <2>2. Shaped
    BY <1>2 DEF Init, CacheInit, Shaped, LookingUp
  <2>3. ReadsNow /\ DoubtedMeanwhile /\ Fresh
    BY <1>2 DEF ReadsNow, DoubtedMeanwhile, Fresh, Reading, LookingUp, Evicted, Publishing
  <2> QED BY <2>1, <2>2, <2>3 DEF CachePart
<1>4. Added
  BY <1>2 DEF Added, Pending
<1>5. BatchPart
  BY DEF Init, BatchInit, Resting, BatchPart, BatchTypeOK, Saving, Sending, EachSaved, EachSent
<1>6. budget \in [Request -> Nat]
  BY PositioningAssumption DEF Init
<1>7. FrontPart
  BY FrontPartInit DEF Init
<1> QED BY <1>1, <1>3, <1>4, <1>5, <1>6, <1>7 DEF IInv

LEMMA BudgetNext == budget \in [Request -> Nat] /\ [Next]_vars => budget' \in [Request -> Nat]
<1>1. ASSUME budget \in [Request -> Nat], NEW r, Spend(r)
      PROVE  budget' \in [Request -> Nat]
  <2>1. CASE r \in Request
    BY <1>1, <2>1 DEF Spend
  <2>2. CASE r \notin Request
    BY <1>1, <2>2 DEF Spend
  <2> QED BY <2>1, <2>2
<1>2. [Next]_vars => UNCHANGED budget \/ \E r : Spend(r)
  BY DEF Next, vars, BeginCall, CommitCall, EvictCalculator, EditAnchor, RemoveFloor, ReceiveMeasure,
         FindPosition, AddCoordinate, SaveCoordinates, SendCoordinates, Talk
<1> QED BY <1>1, <1>2

LEMMA Inductive == IInv /\ [Next]_vars => IInv'
BY ConfPartNext, CachePartNext, AddedNext, BatchPartNext, FrontPartNext, BudgetNext DEF IInv

LEMMA Always == Spec => []IInv
BY IInvInit, Inductive, PTL DEF Spec

(* Every variable keeps its type, and every coordinate saved or sent was     *)
(* calculated.                                                               *)
THEOREM TypeInvariant == Spec => []TypeOK
<1>1. IInv => TypeOK
  BY DEF IInv, TypeOK, ConfPart, ConfInv, CachePart, BatchPart, FrontPart
<1> QED BY <1>1, Always, PTL

(* ConfigurationBean keeps one draft a floor and versions that differ, for   *)
(* any number of calls, as long as two do not overlap on the floor.          *)
THEOREM OneDraftAlways == Spec => []OneDraft
<1>1. IInv => OneDraft
  BY DEF IInv, ConfPart
<1> QED BY <1>1, Always, PTL

(* A floor carries exactly what its latest published version names.          *)
THEOREM PlacedAsPublishedAlways == Spec => []PlacedAsPublished
<1>1. IInv => PlacedAsPublished
  BY DEF IInv, ConfPart
<1> QED BY <1>1, Always, PTL

(* Publishing leaves nothing stale in the calculator's caches, but what is   *)
(* suspect.                                                                  *)
THEOREM FreshAlways == Spec => []Fresh
<1>1. IInv => Fresh
  BY DEF IInv, CachePart
<1> QED BY <1>1, Always, PTL

(* The save task loses only what was queued behind its batch, and repeats    *)
(* only what was not answered.                                               *)
THEOREM EachSavedAlways == Spec => []EachSaved
<1>1. IInv => EachSaved
  BY DEF IInv, BatchPart
<1> QED BY <1>1, Always, PTL

(* The send task sends each coordinate once, or a newer one, or overlooks it *)
(* behind its copy.                                                          *)
THEOREM EachSentAlways == Spec => []EachSent
<1>1. IInv => EachSent
  BY DEF IInv, BatchPart
<1> QED BY <1>1, Always, PTL

(* A frontend misses what it wanted of a loop only when that loop was cut    *)
(* short, which it is not while frontends stay and have floors.              *)
THEOREM EachDeliveredAlways == Spec => []EachDelivered
<1>1. IInv => EachDelivered
  BY DEF IInv, FrontPart
<1> QED BY <1>1, Always, PTL

(* A frontend that set no tag twice is sent only the tags it wants.          *)
THEOREM OnlyAskedAlways == Spec => []OnlyAsked
<1>1. IInv => OnlyAsked
  <2>1. BatchPart => Tagged
    BY DEF BatchPart, BatchTypeOK, Coordinate, Tagged
  <2> QED BY <2>1, OnlyAskedHolds DEF IInv
<1> QED BY <1>1, Always, PTL
==============================================================================
