---------------------------- MODULE PositionCache ----------------------------
(***************************************************************************)
(* The caches of AnchorRepository in the calculator, and the threads that  *)
(* look positions up in them while they handle a measure: the cache        *)
(* "anchors" by the anchors connected to the tag, the cache "floorId" by   *)
(* the anchor that measured. A lookup that misses reads the database and   *)
(* then puts what it read, both without a lock.                            *)
(***************************************************************************)
EXTENDS FloorConfigurations

CONSTANTS
    Thread,
    Tag,
    Connected,      \* the sets of anchors that measure a tag at a time
    Needed,         \* how many placed anchors a position takes
    Absent

ASSUME CacheAssumption ==
    /\ Connected \subseteq SUBSET Anchor
    /\ Needed \in Nat

VARIABLES
    cache,          \* cache[key]: what is cached for key, or Absent
    suspect,        \* history: keys cached across a publication or an edit
    handling,       \* handling[t]: the measure thread t handles, and its step
    calculated      \* coordinates calculated so far

cacheVars == <<cache, suspect, handling, calculated>>

AnchorsKey(S) == [cache |-> "anchors", of |-> S]
FloorIdKey(a) == [cache |-> "floorId", of |-> {a}]
Key == {AnchorsKey(S) : S \in Connected} \cup {FloorIdKey(a) : a \in Anchor}

Coordinate == [n : 1..calculated, tag : Tag, floor : Floor]

Free == [step |-> "free"]

Found == UNION {[key.of -> Place] : key \in Key}

LookUpState == [step : {"position", "floor"}, tag : Tag, connected : Connected,
                anchor : Anchor, read : Found \cup {Absent}, crossed : BOOLEAN]
AddState == [step : {"save", "send"}, coordinate : Coordinate]

CacheTypeOK ==
    /\ cache \in [Key -> Found \cup {Absent}]
    /\ suspect \subseteq {key \in Key : cache[key] # Absent}
    /\ handling \in [Thread -> {Free} \cup LookUpState \cup AddState]
    /\ calculated \in Nat

CacheInit ==
    /\ cache = [key \in Key |-> Absent]
    /\ suspect = {}
    /\ handling = [t \in Thread |-> Free]
    /\ calculated = 0
------------------------------------------------------------------------------
(* What the database answers for key.                                        *)
Row(key) == [a \in key.of |-> row[a]]

KeyOf(h) == IF h.step = "position" THEN AnchorsKey(h.connected) ELSE FloorIdKey(h.anchor)

AtWork == {t \in Thread : handling[t] # Free}
LookingUp == {t \in AtWork : handling[t].step \in {"position", "floor"}}
Reading == {t \in LookingUp : handling[t].read # Absent}

(* Publications that have evicted and not ended.                             *)
Evicted == {k \in Publishing : call[k].evicted}

(* getAnchors and findFloorIdByAnchorShortId: where a measure goes with what *)
(* was found.                                                                *)
Continue(t, found) ==
    LET h == handling[t]
    IN  IF h.step = "position"
        THEN /\ handling' = [handling EXCEPT ![t] =
                  IF Cardinality({a \in h.connected : found[a] # NoFloor}) < Needed
                  THEN Free
                  ELSE [h EXCEPT !.step = "floor", !.read = Absent]]
             /\ UNCHANGED calculated
        ELSE IF found[h.anchor] = NoFloor
        THEN /\ handling' = [handling EXCEPT ![t] = Free]
             /\ UNCHANGED calculated
        ELSE /\ calculated' = calculated + 1
             /\ handling' = [handling EXCEPT ![t] =
                  [step |-> "save",
                   coordinate |-> [n |-> calculated + 1, tag |-> h.tag,
                                   floor |-> found[h.anchor]]]]

HandleMeasure(t, g, S, a) ==
    /\ handling[t] = Free /\ a \in S
    /\ handling' = [handling EXCEPT ![t] =
         [step |-> "position", tag |-> g, connected |-> S, anchor |-> a,
          read |-> Absent, crossed |-> FALSE]]
    /\ UNCHANGED <<cache, suspect, calculated>>

LookUp(t) ==
    /\ t \in LookingUp \ Reading
    /\ LET key == KeyOf(handling[t])
       IN  IF cache[key] # Absent
           THEN Continue(t, cache[key])
           ELSE /\ handling' = [handling EXCEPT ![t].read = Row(key),
                                                ![t].crossed = Evicted # {}]
                /\ UNCHANGED calculated
    /\ UNCHANGED <<cache, suspect>>

PutInCache(t) ==
    /\ t \in Reading
    /\ LET h == handling[t]
       IN  /\ cache' = [cache EXCEPT ![KeyOf(h)] = h.read]
           /\ suspect' = IF h.crossed THEN suspect \cup {KeyOf(h)}
                         ELSE suspect \ {KeyOf(h)}
           /\ Continue(t, h.read)
------------------------------------------------------------------------------
Cached == {key \in Key : cache[key] # Absent}

(* History: keys that hold, or are about to hold, what may not last.         *)
Doubt(keys) ==
    /\ suspect' = suspect \cup (Cached \cap keys)
    /\ handling' = [t \in Thread |->
         IF t \in Reading /\ KeyOf(handling[t]) \in keys
         THEN [handling[t] EXCEPT !.crossed = TRUE] ELSE handling[t]]

(* Clearing the cache of positions only.                                     *)
ClearedAnchors == {key \in Key : key.cache = "anchors"}

(* evictCaches: every cache the manager knows.                               *)
ClearedCaches == Key

AnswersEvict ==
    /\ cache' = [key \in Key |-> IF key \in ClearedCaches THEN Absent ELSE cache[key]]
    /\ suspect' = suspect \ ClearedCaches
    /\ handling' = [t \in Thread |->
         IF t \in Reading THEN [handling[t] EXCEPT !.crossed = TRUE] ELSE handling[t]]
    /\ UNCHANGED calculated

(* evictCacheInCalculator: publish goes on whatever the answer is.           *)
Evict(k) ==
    /\ k \in Publishing /\ ~call[k].evicted
    /\ call' = [call EXCEPT ![k].evicted = TRUE]
    /\ AnswersEvict
    /\ UNCHANGED <<floors, configurations, inserted, row,
                   overlapped, mingled, undone, touched>>

EvictRefused(k) ==
    /\ k \in Publishing /\ ~call[k].evicted
    /\ call' = [call EXCEPT ![k].evicted = TRUE]
    /\ Doubt(Key)
    /\ UNCHANGED <<cache, calculated, floors, configurations, inserted, row,
                   overlapped, mingled, undone, touched>>

(* Rows change with no word to the calculator.                               *)
UpdateAnchorUnseen(a, p) ==
    /\ UpdateAnchor(a, p)
    /\ Doubt({key \in Key : a \in key.of})
    /\ UNCHANGED <<cache, calculated>>

DeleteFloorUnseen(f) ==
    /\ DeleteFloor(f)
    /\ Doubt({key \in Key : \E a \in key.of : row[a] = f})
    /\ UNCHANGED <<cache, calculated>>
------------------------------------------------------------------------------
(* What the calculator has cached is what the database holds, unless it was  *)
(* read while a publication stood between its eviction and its commit, was   *)
(* put after an eviction it had been read before, or concerns an anchor that *)
(* was edited or whose floor was deleted: publishing refreshes all the rest. *)
Fresh == \A key \in Cached \ suspect : cache[key] = Row(key)
==============================================================================
