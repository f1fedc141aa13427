---------------------------- MODULE RacingProofs ----------------------------
(***************************************************************************)
(* Proofs about Racing, for any number of models and keys and any setting  *)
(* of the race: the slots of the pool and the upstream permits are a       *)
(* ledger, and every step of a leg, of the fallback or of another request  *)
(* enters one taking or one release in it, or none.                        *)
(***************************************************************************)
EXTENDS Racing, FiniteSetTheorems, TLAPS

Leg == [state : LegStates, key : Keys \cup {NoKey}, expiry : Nat, cut : BOOLEAN,
        status : Statuses, result : Results]

\* Whoever runs, or has just ended, has a key: a leg, and the fallback's attempt.
LegsOK ==
  /\ leg \in [Models -> Leg]
  /\ \A m \in Models : leg[m].state \in InFlight \cup {"aborted", "ended"} => leg[m].key \in Keys

HandlerOK ==
  /\ now \in Nat
  /\ benched \subseteq Keys /\ others \subseteq Keys /\ pending \subseteq Keys
  /\ pc \in Pcs /\ left \subseteq Models /\ raced \subseteq Models /\ seen \subseteq Facts
  /\ solo \in [key : Keys \cup {NoKey}, tries : 0 .. MaxRetries, expiry : Nat, status : Statuses]
  /\ pc \in {"solo_send", "solo_body"} => solo.key \in Keys

Slots == key_used \in [Keys -> 0 .. KeySlots] /\ up_used \in 0 .. MaxUpstream

\* A model that is still to be spawned has no leg.
Unspawned ==
  /\ pc = "start" => \A m \in Models : leg[m].state = "none"
  /\ pc = "spawn" => \A m \in left : leg[m].state = "none"

Ledger == Slots /\ SlotsAccounted

Inv == LegsOK /\ HandlerOK /\ Unspawned /\ Ledger

\* No leg begins or ceases to hold, and none changes its key.
SameLegs == Held' = Held /\ \A m \in Held : leg'[m].key = leg[m].key

-----------------------------------------------------------------------------
(* The ledger *)

LEMMA Finite ==
  ASSUME HandlerOK
  PROVE  /\ IsFiniteSet(Held) /\ Cardinality(Held) \in Nat
         /\ IsFiniteSet(others) /\ Cardinality(others) \in Nat
         /\ \A k \in Keys : IsFiniteSet(HeldWith(k)) /\ Cardinality(HeldWith(k)) \in Nat
<1>1. IsFiniteSet(Models) /\ IsFiniteSet(Keys)
  BY RacingAssumption
<1>2. Held \subseteq Models /\ others \subseteq Keys /\ \A k \in Keys : HeldWith(k) \subseteq Models
  BY DEF HandlerOK, Held, HeldWith
<1> QED
  BY <1>1, <1>2, FS_Subset, FS_CardinalityType

LEMMA SameHeldWith ==
  ASSUME SameLegs, NEW k \in Keys
  PROVE  HeldWith(k)' = HeldWith(k)
BY DEF SameLegs, HeldWith

LEMMA LedgerKept ==
  ASSUME Ledger, SameLegs, SoloKey' = SoloKey, UNCHANGED <<key_used, up_used, others>>
  PROVE  Ledger'
BY SameHeldWith DEF Ledger, Slots, SlotsAccounted, SameLegs, One

LEMMA LegTakes ==
  ASSUME Inv, NEW m \in Models \ Held, NEW k \in Keys, Take(k), Leasable(k), up_used < MaxUpstream,
         Held' = Held \cup {m}, leg'[m].key = k, \A n \in Held : leg'[n].key = leg[n].key,
         SoloKey' = SoloKey, others' = others
  PROVE  Ledger'
<1>1. HeldWith(k)' = HeldWith(k) \cup {m} /\ m \notin HeldWith(k)
  BY DEF HeldWith
<1>2. \A j \in Keys \ {k} : HeldWith(j)' = HeldWith(j)
  BY DEF HeldWith
<1>3. Cardinality(HeldWith(k)') = Cardinality(HeldWith(k)) + 1
  BY <1>1, Finite, FS_AddElement DEF Inv
<1>4. Cardinality(Held') = Cardinality(Held) + 1
  BY Finite, FS_AddElement DEF Inv
<1>5. key_used' = [key_used EXCEPT ![k] = @ + 1] /\ key_used[k] < KeySlots /\ up_used' = up_used + 1
  BY RacingAssumption DEF Take, Leasable, FreeSlots
<1>6. Slots'
  BY <1>5, RacingAssumption DEF Inv, Ledger, Slots
<1>7. SlotsAccounted'
  BY <1>2, <1>3, <1>4, <1>5, Finite DEF Inv, Ledger, Slots, SlotsAccounted, One
<1> QED
  BY <1>6, <1>7 DEF Ledger

LEMMA LegReleases ==
  ASSUME Inv, NEW m \in Held, Release(leg[m].key), Held' = Held \ {m},
         \A n \in Held \ {m} : leg'[n].key = leg[n].key, SoloKey' = SoloKey, others' = others
  PROVE  Ledger'
<1>0. PICK k \in Keys : k = leg[m].key
  BY DEF Inv, LegsOK, Held
<1>1. m \in HeldWith(k)
  BY <1>0 DEF HeldWith
<1>2. HeldWith(k)' = HeldWith(k) \ {m} /\ \A j \in Keys \ {k} : HeldWith(j)' = HeldWith(j)
  BY <1>0 DEF HeldWith
<1>3. Cardinality(HeldWith(k)') = Cardinality(HeldWith(k)) - 1 /\ Cardinality(HeldWith(k)) # 0
  BY <1>1, <1>2, Finite, FS_RemoveElement, FS_EmptySet DEF Inv
<1>4. Cardinality(Held') = Cardinality(Held) - 1 /\ Cardinality(Held) # 0
  BY Finite, FS_RemoveElement, FS_EmptySet DEF Inv
<1>5. key_used' = [key_used EXCEPT ![k] = @ - 1] /\ up_used' = up_used - 1
  BY <1>0 DEF Release
<1>6. key_used[k] # 0 /\ up_used # 0
  BY <1>1, <1>3, <1>4, Finite DEF Inv, Ledger, SlotsAccounted, One
<1>7. Slots'
  BY <1>5, <1>6, RacingAssumption DEF Inv, Ledger, Slots
<1>8. SlotsAccounted'
  <2>1. up_used' = Cardinality(Held') + One(SoloKey' # NoKey) + Cardinality(others')
    BY <1>4, <1>5, Finite DEF Inv, Ledger, Slots, SlotsAccounted, One
  <2>2. ASSUME NEW j \in Keys
        PROVE  key_used'[j] = Cardinality(HeldWith(j)') + One(SoloKey' = j) + One(j \in others')
    <3>1. CASE j = k
      BY <1>3, <1>5, <3>1, Finite DEF Inv, Ledger, Slots, SlotsAccounted, One
    <3>2. CASE j # k
      BY <1>2, <1>5, <3>2 DEF Inv, Ledger, Slots, SlotsAccounted, One
    <3> QED
      BY <3>1, <3>2
  <2> QED
    BY <2>1, <2>2 DEF SlotsAccounted
<1> QED
  BY <1>7, <1>8 DEF Ledger

LEMMA SoloTakes ==
  ASSUME Inv, NEW k \in Keys, Take(k), Leasable(k), up_used < MaxUpstream, SameLegs,
         SoloKey = NoKey, SoloKey' = k, others' = others
  PROVE  Ledger'
<1>1. key_used' = [key_used EXCEPT ![k] = @ + 1] /\ key_used[k] < KeySlots /\ up_used' = up_used + 1
  BY RacingAssumption DEF Take, Leasable, FreeSlots
<1>2. Slots'
  BY <1>1, RacingAssumption DEF Inv, Ledger, Slots
<1>3. SlotsAccounted'
  BY <1>1, Finite, SameHeldWith, RacingAssumption DEF SameLegs, Inv, Ledger, Slots, SlotsAccounted, One
<1> QED
  BY <1>2, <1>3 DEF Ledger

LEMMA SoloReleases ==
  ASSUME Inv, Drop, SameLegs, pc \in {"solo_send", "solo_body"}, SoloKey' = NoKey, others' = others
  PROVE  Ledger'
<1>0. PICK k \in Keys : k = solo.key
  BY DEF Inv, HandlerOK
<1>1. SoloKey = k /\ k # NoKey
  BY <1>0, RacingAssumption DEF SoloKey
<1>2. key_used' = [key_used EXCEPT ![k] = @ - 1] /\ up_used' = up_used - 1
  BY <1>0 DEF Drop, Release
<1>3. key_used[k] # 0 /\ up_used # 0
  BY <1>1, Finite DEF Inv, Ledger, SlotsAccounted, One
<1>4. Slots'
  BY <1>2, <1>3, RacingAssumption DEF Inv, Ledger, Slots
<1>5. SlotsAccounted'
  BY <1>1, <1>2, Finite, SameHeldWith, RacingAssumption DEF SameLegs, Inv, Ledger, Slots, SlotsAccounted, One
<1> QED
  BY <1>4, <1>5 DEF Ledger

LEMMA OtherTakes ==
  ASSUME Inv, NEW k \in Keys \ others, Take(k), Leasable(k), up_used < MaxUpstream, SameLegs,
         SoloKey' = SoloKey, others' = others \cup {k}
  PROVE  Ledger'
<1>1. key_used' = [key_used EXCEPT ![k] = @ + 1] /\ key_used[k] < KeySlots /\ up_used' = up_used + 1
  BY RacingAssumption DEF Take, Leasable, FreeSlots
<1>2. Cardinality(others') = Cardinality(others) + 1
  BY Finite, FS_AddElement DEF Inv
<1>3. Slots'
  BY <1>1, RacingAssumption DEF Inv, Ledger, Slots
<1>4. SlotsAccounted'
  BY <1>1, <1>2, Finite, SameHeldWith DEF SameLegs, Inv, Ledger, Slots, SlotsAccounted, One
<1> QED
  BY <1>3, <1>4 DEF Ledger

LEMMA OtherReleases ==
  ASSUME Inv, NEW k \in others, Release(k), SameLegs, SoloKey' = SoloKey, others' = others \ {k}
  PROVE  Ledger'
<1>1. key_used' = [key_used EXCEPT ![k] = @ - 1] /\ up_used' = up_used - 1 /\ k \in Keys
  BY DEF Release, Inv, HandlerOK
<1>2. Cardinality(others') = Cardinality(others) - 1 /\ Cardinality(others) # 0
  BY Finite, FS_RemoveElement, FS_EmptySet DEF Inv
<1>3. key_used[k] # 0 /\ up_used # 0
  BY <1>1, <1>2, Finite DEF Inv, Ledger, SlotsAccounted, One
<1>4. Slots'
  BY <1>1, <1>3, RacingAssumption DEF Inv, Ledger, Slots
<1>5. SlotsAccounted'
  BY <1>1, <1>2, Finite, SameHeldWith DEF SameLegs, Inv, Ledger, Slots, SlotsAccounted, One
<1> QED
  BY <1>4, <1>5 DEF Ledger

-----------------------------------------------------------------------------
(* The legs *)

LEMMA LegsUnchanged ==
  ASSUME LegsOK, leg' = leg
  PROVE  LegsOK' /\ SameLegs
BY DEF LegsOK, SameLegs, Held

\* Aborting the losers moves nothing in the ledger: what they hold comes back
\* when the runtime drops them.
LEMMA AbortKeeps ==
  ASSUME LegsOK, AbortLegs
  PROVE  LegsOK' /\ SameLegs
<1>1. ASSUME NEW m \in Models
      PROVE  /\ leg'[m] \in Leg
             /\ leg'[m].state \in InFlight \cup {"aborted"} <=> leg[m].state \in InFlight \cup {"aborted"}
             /\ leg'[m].state \in InFlight \cup {"aborted", "ended"} =>
                  leg'[m].key = leg[m].key /\ leg[m].key \in Keys
  <2>1. CASE leg[m].state \in InFlight
    <3>1. leg'[m] = [NoLeg EXCEPT !.state = "aborted", !.key = leg[m].key]
      BY <2>1 DEF AbortLegs, InFlight
    <3>2. leg'[m].state = "aborted" /\ leg'[m].key = leg[m].key
      BY <3>1 DEF NoLeg
    <3>3. leg[m].key \in Keys
      BY <2>1 DEF LegsOK
    <3>4. leg'[m] \in Leg
      <4>1. leg'[m] = [state |-> "aborted", key |-> leg[m].key, expiry |-> 0, cut |-> FALSE,
                       status |-> "ok", result |-> "none"]
        BY <3>1 DEF NoLeg
      <4> QED
        BY <3>3, <4>1 DEF Leg, LegStates, Statuses, Results
    <3> QED
      BY <2>1, <3>2, <3>3, <3>4 DEF InFlight
  <2>2. CASE leg[m].state = "ended"
    <3>1. leg'[m] = JoinedLeg
      BY <2>2 DEF AbortLegs, InFlight
    <3>2. JoinedLeg \in Leg /\ JoinedLeg.state = "joined"
      BY DEF Leg, LegStates, NoLeg, JoinedLeg, Statuses, Results
    <3> QED
      BY <2>2, <3>1, <3>2 DEF InFlight
  <2>3. CASE leg[m].state \notin InFlight \cup {"ended"}
    <3>1. leg'[m] = leg[m]
      BY <2>3 DEF AbortLegs
    <3> QED
      BY <2>3, <3>1 DEF LegsOK
  <2> QED
    BY <2>1, <2>2, <2>3
<1>2. leg' \in [Models -> Leg]
  BY <1>1 DEF AbortLegs
<1> QED
  BY <1>1, <1>2 DEF LegsOK, SameLegs, Held

LEMMA EndReleases ==
  ASSUME Inv, NEW m \in Held, NEW r \in Results, End(m, r), SoloKey' = SoloKey, others' = others
  PROVE  LegsOK' /\ Ledger' /\ \A n \in Models : leg[n].state = "none" => leg'[n] = leg[n]
<1>1. /\ m \in Models /\ leg \in [Models -> Leg] /\ leg[m].key \in Keys /\ leg[m].state # "none"
  BY DEF Inv, LegsOK, Held, InFlight
<1>2. /\ leg'[m].state = "ended" /\ leg'[m].key = leg[m].key /\ leg' \in [Models -> Leg]
      /\ \A n \in Models \ {m} : leg'[n] = leg[n]
  BY <1>1 DEF End, NoLeg, Leg, LegStates, Statuses, Results
<1>3. Held' = Held \ {m}
  BY <1>1, <1>2 DEF Held, InFlight
<1>4. Ledger'
  BY <1>1, <1>2, <1>3, LegReleases DEF End, Held
<1> QED
  BY <1>1, <1>2, <1>4 DEF Inv, LegsOK

LEMMA LegRuns ==
  ASSUME Inv, NEW m \in Models, LegStep(m)
  PROVE  Inv'
<1>1. SoloKey' = SoloKey /\ others' = others /\ UNCHANGED legFrame
  BY DEF LegStep, LegSendFails, LegHead, LegErrorRead, LegBodyRead, LegBodyFails, Reap,
    legFrame, SoloKey
<1>2. HandlerOK'
  <2>1. benched' \subseteq Keys
    BY DEF LegStep, LegSendFails, LegHead, LegErrorRead, LegBodyRead, LegBodyFails, Reap,
      Running, InFlight, Inv, HandlerOK, LegsOK
  <2> QED
    BY <1>1, <2>1 DEF legFrame, Inv, HandlerOK
<1>3. ASSUME NEW r \in Results, End(m, r), m \in Held
      PROVE  Inv'
  BY <1>1, <1>2, <1>3, EndReleases DEF Inv, HandlerOK, Unspawned, legFrame
<1>4. ASSUME NEW state \in LegStates, NEW status \in Statuses, m \in Held, UNCHANGED <<key_used, up_used>>,
             leg' = [leg EXCEPT ![m].state = state, ![m].status = status,
                                ![m].expiry = Expiry, ![m].cut = Cut],
             state \in InFlight
      PROVE  Inv'
  <2>1. leg[m].state # "none" /\ Expiry \in Nat /\ Cut \in BOOLEAN
    BY <1>4, RacingAssumption DEF Held, InFlight, Expiry, Cut, LowerOf, Deadline, Inv, HandlerOK
  <2>2. /\ leg'[m].state = state /\ leg'[m].key = leg[m].key /\ leg' \in [Models -> Leg]
        /\ \A n \in Models \ {m} : leg'[n] = leg[n]
    <3>1. leg \in [Models -> Leg]
      BY DEF Inv, LegsOK
    <3>2. leg'[m] = [leg[m] EXCEPT !.state = state, !.status = status, !.expiry = Expiry, !.cut = Cut]
      BY <1>4, <3>1
    <3>3. leg'[m] \in Leg /\ leg'[m].state = state /\ leg'[m].key = leg[m].key
      <4>1. leg[m] = [state |-> leg[m].state, key |-> leg[m].key, expiry |-> leg[m].expiry,
                      cut |-> leg[m].cut, status |-> leg[m].status, result |-> leg[m].result]
        BY <3>1 DEF Leg
      <4>2. leg'[m] = [state |-> state, key |-> leg[m].key, expiry |-> Expiry, cut |-> Cut,
                       status |-> status, result |-> leg[m].result]
        BY <3>2, <4>1
      <4> QED
        BY <1>4, <2>1, <3>1, <4>2 DEF Leg
    <3> QED
      BY <1>4, <3>1, <3>3
  <2>3. LegsOK' /\ SameLegs
    BY <1>4, <2>2 DEF Inv, LegsOK, SameLegs, Held, InFlight
  <2>4. Unspawned'
    BY <1>1, <2>1, <2>2 DEF Inv, Unspawned, legFrame, HandlerOK
  <2> QED
    BY <1>1, <1>2, <1>4, <2>3, <2>4, LedgerKept DEF Inv
<1>5. CASE LegSendFails(m) \/ LegErrorRead(m) \/ LegBodyRead(m) \/ LegBodyFails(m)
  <2>1. m \in Held
    BY <1>5 DEF LegSendFails, LegErrorRead, LegBodyRead, LegBodyFails, Running, Held, InFlight
  <2>2. \E r \in Results : End(m, r)
    BY <1>5 DEF LegSendFails, LegErrorRead, LegBodyRead, LegBodyFails, TimeoutResult, Results
  <2> QED
    BY <1>3, <2>1, <2>2
<1>6. ASSUME NEW status \in Statuses, LegHead(m, status)
      PROVE  Inv'
  <2>1. m \in Held
    BY <1>6 DEF LegHead, Running, Held, InFlight
  <2>2. CASE End(m, "fatal")
    BY <1>3, <2>1, <2>2 DEF Results
  <2>3. CASE /\ \E state \in {"error_body", "body"} :
                  leg' = [leg EXCEPT ![m].state = state, ![m].status = status,
                                     ![m].expiry = Expiry, ![m].cut = Cut]
             /\ UNCHANGED <<key_used, up_used>>
    BY <1>4, <2>1, <2>3 DEF LegStates, InFlight
  <2> QED
    BY <1>6, <2>2, <2>3 DEF LegHead
<1>7. CASE Reap(m)
  <2>1. m \in Held /\ leg \in [Models -> Leg] /\ leg[m].state = "aborted"
    BY <1>7 DEF Reap, Running, Held, Inv, LegsOK
  <2>2. leg' \in [Models -> Leg] /\ leg'[m].state = "joined" /\ \A n \in Models \ {m} : leg'[n] = leg[n]
    BY <1>7, <2>1 DEF Reap, JoinedLeg, NoLeg, Leg, LegStates, Statuses, Results
  <2>3. Held' = Held \ {m}
    BY <2>1, <2>2 DEF Held, InFlight
  <2>4. Ledger'
    BY <1>1, <1>7, <2>1, <2>2, <2>3, LegReleases DEF Reap, Held
  <2>5. LegsOK' /\ Unspawned'
    BY <1>1, <2>1, <2>2 DEF Inv, LegsOK, InFlight, Unspawned, legFrame, HandlerOK
  <2> QED
    BY <1>2, <2>4, <2>5 DEF Inv
<1> QED
  BY <1>5, <1>6, <1>7 DEF LegStep

-----------------------------------------------------------------------------
(* The handler, the client, time and the other requests *)

\* A step that touches no leg and no slot.
LEMMA Bystander ==
  ASSUME Inv, UNCHANGED <<leg, key_used, up_used, others>>, SoloKey' = SoloKey,
         HandlerOK', Unspawned'
  PROVE  Inv'
BY LegsUnchanged, LedgerKept DEF Inv

\* The models that are left, and the legs, once the spawn loop is over.
LEMMA PastSpawning ==
  ASSUME pc' \notin {"start", "spawn"}
  PROVE  Unspawned'
BY DEF Unspawned

LEMMA StartStep ==
  ASSUME Inv, Start
  PROVE  Inv'
<1>1. /\ pc = "start" /\ left' \subseteq Models /\ raced' \subseteq Models
      /\ pc' \in {"spawn", "solo_next", "done"}
  BY DEF Start, BeginSolo, Answer, Inv, HandlerOK
<1>2. UNCHANGED <<now, benched, key_used, up_used, others, seen, pending, solo, leg>>
  BY DEF Start
<1>3. HandlerOK'
  BY <1>1, <1>2 DEF Inv, HandlerOK, Pcs
<1>4. Unspawned' /\ SoloKey' = SoloKey
  BY <1>1, <1>2 DEF Inv, Unspawned, SoloKey
<1> QED
  BY <1>2, <1>3, <1>4, Bystander

LEMMA SpawnStep ==
  ASSUME Inv, NEW m \in Models, Spawn(m)
  PROVE  Inv'
<1>1. /\ pc = "spawn" /\ leg[m].state = "none" /\ leg \in [Models -> Leg]
      /\ UNCHANGED <<now, benched, others, raced, pending, solo>>
  BY DEF Spawn, Inv, Unspawned, LegsOK
<1>2. CASE Late
  <2>1. pc' = "done" /\ AbortLegs /\ UNCHANGED <<key_used, up_used, left, seen>>
    BY <1>2 DEF Spawn, Answer
  <2>2. HandlerOK' /\ SoloKey' = SoloKey
    BY <1>1, <2>1 DEF Inv, HandlerOK, Pcs, SoloKey
  <2>3. LegsOK' /\ Ledger'
    BY <1>1, <2>1, <2>2, AbortKeeps, LedgerKept DEF Inv
  <2> QED
    BY <2>1, <2>2, <2>3, PastSpawning DEF Inv
<1>3. CASE ~Late
  <2>1. left' = left \ {m} /\ pc' = pc /\ seen' \subseteq Facts
    BY <1>3 DEF Spawn, Facts, Inv, HandlerOK
  <2>2. HandlerOK' /\ SoloKey' = SoloKey
    BY <1>1, <2>1 DEF Inv, HandlerOK, SoloKey
  <2>3. CASE UNCHANGED <<key_used, up_used, leg>>
    <3>1. Unspawned'
      BY <1>1, <2>1, <2>3 DEF Inv, Unspawned
    <3> QED
      BY <1>1, <2>2, <2>3, <3>1, Bystander
  <2>4. ASSUME NEW k \in Keys, up_used < MaxUpstream, Leasable(k), Take(k),
               leg' = [leg EXCEPT ![m] =
                 [NoLeg EXCEPT !.state = "send", !.key = k, !.expiry = Expiry, !.cut = Cut]]
        PROVE  Inv'
    <3>1. Expiry \in Nat /\ Cut \in BOOLEAN
      BY RacingAssumption DEF Expiry, Cut, LowerOf, Deadline, Inv, HandlerOK
    <3>2. /\ leg' \in [Models -> Leg] /\ leg'[m].state = "send" /\ leg'[m].key = k
          /\ \A n \in Models \ {m} : leg'[n] = leg[n]
      <4>1. leg'[m] = [state |-> "send", key |-> k, expiry |-> Expiry, cut |-> Cut,
                       status |-> "ok", result |-> "none"]
        BY <1>1, <2>4 DEF NoLeg
      <4>2. leg'[m] \in Leg
        BY <3>1, <4>1 DEF Leg, LegStates, Statuses, Results
      <4> QED
        BY <1>1, <2>4, <4>1, <4>2
    <3>3. m \notin Held /\ Held' = Held \cup {m}
      BY <1>1, <3>2 DEF Held, InFlight
    <3>4. Ledger'
      BY <1>1, <2>2, <2>4, <3>2, <3>3, LegTakes DEF Held
    <3>5. LegsOK' /\ Unspawned'
      BY <1>1, <2>1, <3>2 DEF Inv, LegsOK, Unspawned, HandlerOK
    <3> QED
      BY <2>2, <3>4, <3>5 DEF Inv
  <2> QED
    BY <1>3, <2>3, <2>4 DEF Spawn
<1> QED
  BY <1>2, <1>3

LEMMA JoinStep ==
  ASSUME Inv, NEW m \in Models, Join(m)
  PROVE  Inv'
<1>1. /\ pc = "join" /\ leg[m].state = "ended" /\ leg \in [Models -> Leg] /\ leg[m].key \in Keys
      /\ UNCHANGED <<now, benched, key_used, up_used, others, left, raced, solo>>
  BY DEF Join, Inv, LegsOK
<1>2. pc' \in {"join", "done"} /\ pending' \subseteq Keys /\ seen' \subseteq Facts
  BY <1>1 DEF Join, Answer, Facts, Inv, HandlerOK
<1>3. HandlerOK' /\ SoloKey' = SoloKey /\ Unspawned'
  BY <1>1, <1>2 DEF Inv, HandlerOK, Pcs, SoloKey, Unspawned
<1>4. CASE AbortLegs
  BY <1>1, <1>3, <1>4, AbortKeeps, LedgerKept DEF Inv
<1>5. CASE leg' = [leg EXCEPT ![m] = JoinedLeg]
  <2>1. JoinedLeg \in Leg /\ JoinedLeg.state = "joined"
    BY DEF Leg, LegStates, NoLeg, JoinedLeg, Statuses, Results
  <2>2. LegsOK' /\ SameLegs
    BY <1>1, <1>5, <2>1 DEF Inv, LegsOK, SameLegs, Held, InFlight
  <2> QED
    BY <1>1, <1>3, <2>2, LedgerKept DEF Inv
<1> QED
  BY <1>4, <1>5 DEF Join

\* Spawned, RaceLost, SoloNext, AdmitLater and Tick move the handler alone.
LEMMA HandlerAlone ==
  ASSUME Inv, Spawned \/ RaceLost \/ SoloNext \/ AdmitLater \/ Tick
  PROVE  Inv'
<1>1. CASE Spawned
  <2>1. HandlerOK'
    BY <1>1 DEF Spawned, BeginSolo, Answer, Inv, HandlerOK, Pcs
  <2> QED
    BY <1>1, <2>1, Bystander, PastSpawning DEF Spawned, BeginSolo, Answer, SoloKey
<1>2. CASE RaceLost
  <2>1. HandlerOK'
    BY <1>2 DEF RaceLost, BeginSolo, Answer, Inv, HandlerOK, Pcs
  <2> QED
    BY <1>2, <2>1, Bystander, PastSpawning DEF RaceLost, BeginSolo, Answer, SoloKey
<1>3. CASE SoloNext
  <2>1. LowerOf(Cardinality(Keys), MaxRetries) \in 0 .. MaxRetries
    BY RacingAssumption, FS_CardinalityType DEF LowerOf
  <2>2. HandlerOK'
    <3>1. UNCHANGED <<now, others, raced, seen, pending, leg, benched>> /\ left' \subseteq Models
      BY <1>3 DEF SoloNext, soloFrame, Inv, HandlerOK
    <3>2. CASE pc' = "done" /\ solo' = solo
      BY <3>1, <3>2 DEF Inv, HandlerOK, Pcs
    <3>3. CASE /\ pc' = "admit"
               /\ solo' = [NoSolo EXCEPT !.tries = LowerOf(Cardinality(Keys), MaxRetries),
                                         !.expiry = now + AdmissionWait]
      <4>1. solo' = [key |-> NoKey, tries |-> LowerOf(Cardinality(Keys), MaxRetries),
                     expiry |-> now + AdmissionWait, status |-> "ok"]
        BY <3>3 DEF NoSolo
      <4>2. now + AdmissionWait \in Nat
        BY RacingAssumption DEF Inv, HandlerOK
      <4> QED
        BY <2>1, <3>1, <3>3, <4>1, <4>2 DEF Inv, HandlerOK, Pcs, Statuses
    <3> QED
      BY <1>3, <3>2, <3>3 DEF SoloNext, Answer
  <2> QED
    BY <1>3, <2>2, Bystander, PastSpawning DEF SoloNext, soloFrame, Answer, SoloKey
<1>4. CASE AdmitLater
  <2>1. HandlerOK'
    BY <1>4 DEF AdmitLater, soloFrame, Answer, Inv, HandlerOK, Pcs
  <2> QED
    BY <1>4, <2>1, Bystander, PastSpawning DEF AdmitLater, soloFrame, Answer, SoloKey
<1>5. CASE Tick
  <2>1. HandlerOK' /\ SoloKey' = SoloKey /\ Unspawned'
    BY <1>5 DEF Tick, Inv, HandlerOK, Pcs, SoloKey, Unspawned
  <2> QED
    BY <1>5, <2>1, Bystander DEF Tick
<1> QED
  BY <1>1, <1>2, <1>3, <1>4, <1>5

LEMMA AdmitStep ==
  ASSUME Inv, Admit
  PROVE  Inv'
<1>1. /\ pc = "admit" /\ SoloKey = NoKey /\ LegsOK' /\ SameLegs
      /\ UNCHANGED <<now, others, raced, seen, pending, leg, benched, left>>
  BY LegsUnchanged DEF Admit, soloFrame, SoloKey, Inv
<1>2. CASE Late
  <2>1. pc' = "done" /\ UNCHANGED <<key_used, up_used, solo>>
    BY <1>2 DEF Admit, Answer
  <2>2. HandlerOK' /\ SoloKey' = SoloKey /\ Unspawned'
    BY <1>1, <2>1 DEF Inv, HandlerOK, Pcs, SoloKey, Unspawned
  <2> QED
    BY <1>1, <2>1, <2>2, Bystander
<1>3. CASE ~Late
  <2>1. PICK k \in Keys : /\ Leasable(k) /\ up_used < MaxUpstream /\ pc' = "solo_send"
                          /\ solo' = [solo EXCEPT !.key = k, !.expiry = Expiry] /\ Take(k)
    BY <1>3 DEF Admit
  <2>2. Expiry \in Nat
    BY RacingAssumption DEF Expiry, LowerOf, Deadline, Inv, HandlerOK
  <2>3. HandlerOK' /\ SoloKey' = k
    BY <1>1, <2>1, <2>2 DEF Inv, HandlerOK, Pcs, SoloKey
  <2>4. Ledger'
    BY <1>1, <2>1, <2>3, SoloTakes
  <2> QED
    BY <1>1, <2>1, <2>3, <2>4, PastSpawning DEF Inv
<1> QED
  BY <1>2, <1>3

\* The fallback's attempt is over, however it ended.
LEMMA SoloEnds ==
  ASSUME Inv, pc \in {"solo_send", "solo_body"}, Drop, pc' \in {"solo_next", "admit", "done"},
         benched' \subseteq Keys, UNCHANGED <<soloFrame, left>>,
         solo' = solo \/ NextModel \/ Retry
  PROVE  Inv'
<1>1. UNCHANGED <<now, others, raced, seen, pending, leg, left>>
  BY DEF soloFrame
<1>2. solo' \in [key : Keys \cup {NoKey}, tries : 0 .. MaxRetries, expiry : Nat, status : Statuses]
  <2>1. NoSolo \in [key : Keys \cup {NoKey}, tries : 0 .. MaxRetries, expiry : Nat, status : Statuses]
    BY RacingAssumption DEF NoSolo, Statuses
  <2>2. CASE solo' = solo \/ solo' = NoSolo
    BY <2>1, <2>2 DEF Inv, HandlerOK
  <2>3. CASE Retry /\ solo.tries > 1
    <3>1. solo' = [key |-> NoKey, tries |-> solo.tries - 1, expiry |-> now + AdmissionWait,
                   status |-> "ok"]
      BY <2>3 DEF Retry, NoSolo
    <3>2. solo.tries - 1 \in 0 .. MaxRetries /\ now + AdmissionWait \in Nat
      BY <2>3, RacingAssumption DEF Inv, HandlerOK
    <3> QED
      BY <3>1, <3>2 DEF Statuses
  <2> QED
    BY <2>2, <2>3 DEF NextModel, Retry
<1>3. HandlerOK'
  BY <1>1, <1>2 DEF Inv, HandlerOK, Pcs
<1>4. LegsOK' /\ SameLegs /\ SoloKey' = NoKey
  BY <1>1, LegsUnchanged DEF Inv, SoloKey
<1> QED
  BY <1>1, <1>3, <1>4, SoloReleases, PastSpawning DEF Inv

LEMMA SoloRuns ==
  ASSUME Inv, SoloFails \/ SoloLimited \/ (\E s \in Statuses : SoloHead(s)) \/ SoloBodyRead
  PROVE  Inv'
<1>1. CASE SoloFails
  BY <1>1, SoloEnds DEF SoloFails, NextModel, Inv, HandlerOK
<1>2. CASE SoloLimited
  BY <1>2, SoloEnds DEF SoloLimited, Retry, Inv, HandlerOK
<1>3. ASSUME NEW s \in Statuses, SoloHead(s)
      PROVE  Inv'
  <2>1. CASE Late
    BY <1>3, <2>1, SoloEnds DEF SoloHead, Answer, Inv, HandlerOK
  <2>2. CASE ~Late
    <3>1. /\ pc = "solo_send" /\ pc' = "solo_body" /\ solo' = [solo EXCEPT !.status = s, !.expiry = Expiry]
          /\ UNCHANGED <<now, others, raced, seen, pending, leg, benched, left, key_used, up_used>>
      BY <1>3, <2>2 DEF SoloHead, soloFrame
    <3>2. Expiry \in Nat
      BY RacingAssumption DEF Expiry, LowerOf, Deadline, Inv, HandlerOK
    <3>3. HandlerOK' /\ SoloKey' = SoloKey
      BY <3>1, <3>2 DEF Inv, HandlerOK, Pcs, SoloKey
    <3> QED
      BY <3>1, <3>3, Bystander, PastSpawning
  <2> QED
    BY <2>1, <2>2
<1>4. CASE SoloBodyRead
  <2>1. /\ pc = "solo_body" /\ Drop /\ UNCHANGED <<soloFrame, left>>
    BY <1>4 DEF SoloBodyRead
  <2>2. /\ pc' \in {"solo_next", "admit", "done"} /\ benched' \subseteq Keys
        /\ solo' = solo \/ NextModel \/ Retry
    BY <1>4 DEF SoloBodyRead, Answer, NextModel, Retry, Inv, HandlerOK
  <2> QED
    BY <2>1, <2>2, SoloEnds
<1> QED
  BY <1>1, <1>2, <1>3, <1>4

LEMMA ClientGoneStep ==
  ASSUME Inv, ClientGone
  PROVE  Inv'
<1>1. /\ pc' = "done" /\ LegsOK' /\ SameLegs
      /\ UNCHANGED <<now, benched, others, left, raced, seen, pending, solo>>
  BY AbortKeeps DEF ClientGone, Answer, Inv
<1>2. HandlerOK' /\ SoloKey' = NoKey
  BY <1>1 DEF Inv, HandlerOK, Pcs, SoloKey
<1>3. CASE pc \in {"solo_send", "solo_body"}
  BY <1>1, <1>2, <1>3, SoloReleases, PastSpawning DEF ClientGone, Inv
<1>4. CASE pc \notin {"solo_send", "solo_body"}
  <2>1. SoloKey = NoKey /\ UNCHANGED <<key_used, up_used>>
    BY <1>4 DEF ClientGone, SoloKey
  <2> QED
    BY <1>1, <1>2, <2>1, LedgerKept, PastSpawning DEF Inv
<1> QED
  BY <1>3, <1>4

LEMMA OthersRun ==
  ASSUME Inv, NEW k \in Keys, OthersTake(k) \/ OthersRelease(k) \/ CooldownEnds(k)
  PROVE  Inv'
<1>1. UNCHANGED <<now, pc, left, raced, seen, pending, solo, leg>>
  BY DEF OthersTake, OthersRelease, CooldownEnds, handlerVars
<1>2. HandlerOK' /\ Unspawned' /\ SoloKey' = SoloKey
  BY <1>1 DEF OthersTake, OthersRelease, CooldownEnds, Inv, HandlerOK, Unspawned, SoloKey
<1>3. LegsOK' /\ SameLegs
  BY <1>1, LegsUnchanged DEF Inv
<1>4. Ledger'
  BY <1>2, <1>3, OtherTakes, OtherReleases, LedgerKept DEF OthersTake, OthersRelease, CooldownEnds, Inv
<1> QED
  BY <1>2, <1>3, <1>4 DEF Inv

-----------------------------------------------------------------------------
(* The deadline *)

\* Every wait but the one for admission ends by the deadline, and that one
\* begins by it.  Nobody is aborted before the answer.
Punctual ==
  /\ pc \in {"start", "spawn", "join", "solo_next", "solo_send", "solo_body"} => now <= Deadline
  /\ pc \in {"admit", "nap"} => now <= solo.expiry /\ solo.expiry <= Deadline + AdmissionWait
  /\ pc = "nap" => now < solo.expiry
  /\ pc \in {"solo_send", "solo_body"} => solo.expiry <= Deadline
  /\ \A m \in Models : leg[m].state \in InFlight => leg[m].expiry <= Deadline
  /\ pc # "done" => \A m \in Models : leg[m].state # "aborted"

LEMMA Clock ==
  ASSUME HandlerOK
  PROVE  /\ Deadline \in Nat /\ AdmissionWait \in Nat /\ now \in Nat
         /\ Expiry \in Nat /\ Expiry <= Deadline
BY RacingAssumption DEF Deadline, HandlerOK, Expiry, LowerOf

LEMMA PunctualHandler ==
  ASSUME Inv, Punctual, HandlerStep \/ ClientGone
  PROVE  Punctual'
<1> USE Clock DEF Inv
<1>0. leg \in [Models -> Leg]
  BY DEF LegsOK
<1>1. CASE Start
  BY <1>1 DEF Start, BeginSolo, Answer, Punctual
<1>2. CASE Spawned \/ RaceLost
  BY <1>2 DEF Spawned, RaceLost, BeginSolo, Answer, Punctual
<1>3. ASSUME AbortLegs, pc' = "done"
      PROVE  Punctual'
  <2>1. \A m \in Models : leg'[m].state \notin InFlight
    <3>1. ASSUME NEW m \in Models
          PROVE  leg'[m].state \notin InFlight
      <4>1. CASE leg[m].state \in InFlight
        <5>1. leg'[m] = [NoLeg EXCEPT !.state = "aborted", !.key = leg[m].key]
          BY <1>3, <4>1 DEF AbortLegs, InFlight
        <5> QED
          BY <5>1 DEF NoLeg, InFlight
      <4>2. CASE leg[m].state = "ended"
        <5>1. leg'[m] = JoinedLeg
          BY <1>3, <4>2 DEF AbortLegs, InFlight
        <5> QED
          BY <5>1 DEF JoinedLeg, NoLeg, InFlight
      <4>3. CASE leg[m].state \notin InFlight \cup {"ended"}
        <5>1. leg'[m] = leg[m]
          BY <1>3, <4>3 DEF AbortLegs
        <5> QED
          BY <4>3, <5>1
      <4> QED
        BY <4>1, <4>2, <4>3
    <3> QED
      BY <3>1
  <2> QED
    BY <1>3, <2>1 DEF Punctual
<1>4. ASSUME NEW m \in Models, Spawn(m)
      PROVE  Punctual'
  <2>1. CASE Late
    BY <1>3, <1>4, <2>1 DEF Spawn, Answer
  <2>2. CASE UNCHANGED leg /\ pc' = pc
    BY <1>4, <2>2 DEF Spawn, Punctual
  <2>3. ASSUME NEW k \in Keys, pc' = pc,
               leg' = [leg EXCEPT ![m] =
                 [NoLeg EXCEPT !.state = "send", !.key = k, !.expiry = Expiry, !.cut = Cut]]
        PROVE  Punctual'
    <3>1. /\ leg'[m].state = "send" /\ leg'[m].expiry = Expiry
          /\ \A n \in Models \ {m} : leg'[n] = leg[n]
      BY <1>0, <2>3 DEF NoLeg
    <3> QED
      BY <1>4, <2>3, <3>1 DEF Spawn, Punctual
  <2> QED
    BY <1>4, <2>1, <2>2, <2>3 DEF Spawn
<1>5. ASSUME NEW m \in Models, Join(m)
      PROVE  Punctual'
  <2>1. CASE AbortLegs /\ pc' = "done"
    BY <1>3, <2>1
  <2>2. CASE leg' = [leg EXCEPT ![m] = JoinedLeg] /\ pc' = pc
    <3>1. leg'[m].state = "joined" /\ \A n \in Models \ {m} : leg'[n] = leg[n]
      BY <1>0, <2>2 DEF JoinedLeg, NoLeg
    <3> QED
      BY <1>5, <2>2, <3>1 DEF Join, Punctual, InFlight
  <2> QED
    BY <1>5, <2>1, <2>2 DEF Join, Answer
<1>6. CASE SoloNext \/ AdmitLater
  <2>1. UNCHANGED <<now, leg>>
    BY <1>6 DEF SoloNext, AdmitLater, soloFrame
  <2>2. CASE pc' = "done"
    BY <1>6, <2>1, <2>2 DEF Punctual
  <2>3. CASE SoloNext /\ pc' = "admit"
    <3>1. pc = "solo_next" /\ solo'.expiry = now + AdmissionWait
      BY <2>3 DEF SoloNext, NoSolo, Answer
    <3> QED
      BY <2>1, <2>3, <3>1 DEF Punctual
  <2>4. CASE AdmitLater /\ pc' = "nap"
    <3>1. pc = "admit" /\ now < solo.expiry /\ solo' = solo
      BY <2>4, RacingAssumption DEF AdmitLater, Answer, HandlerOK
    <3> QED
      BY <2>1, <2>4, <3>1 DEF Punctual
  <2> QED
    BY <1>6, <2>2, <2>3, <2>4 DEF SoloNext, AdmitLater, Answer
<1>7. CASE Admit
  <2>1. UNCHANGED <<now, leg>> /\ pc = "admit"
    BY <1>7 DEF Admit, soloFrame
  <2>2. CASE pc' = "done"
    BY <2>1, <2>2 DEF Punctual
  <2>3. CASE ~Late /\ pc' = "solo_send" /\ \E k \in Keys : solo' = [solo EXCEPT !.key = k, !.expiry = Expiry]
    <3>1. solo'.expiry = Expiry
      BY <2>3 DEF HandlerOK
    <3> QED
      BY <2>1, <2>3, <3>1 DEF Late, Punctual
  <2> QED
    BY <1>7, <2>2, <2>3 DEF Admit, Answer
<1>8. CASE SoloFails \/ SoloLimited \/ SoloBodyRead
  <2>1. UNCHANGED <<now, leg>> /\ pc \in {"solo_send", "solo_body"}
    BY <1>8 DEF SoloFails, SoloLimited, SoloBodyRead, soloFrame
  <2>2. CASE pc' \in {"done", "solo_next"}
    BY <2>1, <2>2 DEF Punctual
  <2>3. CASE pc' = "admit" /\ solo'.expiry = now + AdmissionWait
    BY <2>1, <2>3 DEF Punctual
  <2>4. Retry => \/ pc' = "admit" /\ solo'.expiry = now + AdmissionWait
                 \/ pc' = "solo_next"
    BY DEF Retry, NoSolo
  <2> QED
    BY <1>8, <2>2, <2>3, <2>4 DEF SoloFails, SoloLimited, SoloBodyRead, NextModel, Answer
<1>9. ASSUME NEW s \in Statuses, SoloHead(s)
      PROVE  Punctual'
  <2>1. UNCHANGED <<now, leg>> /\ pc = "solo_send"
    BY <1>9 DEF SoloHead, soloFrame
  <2>2. CASE pc' = "done"
    BY <2>1, <2>2 DEF Punctual
  <2>3. CASE pc' = "solo_body" /\ solo' = [solo EXCEPT !.status = s, !.expiry = Expiry]
    <3>1. solo'.expiry = Expiry
      BY <2>3 DEF HandlerOK
    <3> QED
      BY <2>1, <2>3, <3>1 DEF Punctual
  <2> QED
    BY <1>9, <2>2, <2>3 DEF SoloHead, Answer
<1>10. CASE ClientGone
  BY <1>3, <1>10 DEF ClientGone, Answer
<1> QED
  BY <1>1, <1>2, <1>4, <1>5, <1>6, <1>7, <1>8, <1>9, <1>10 DEF HandlerStep

LEMMA PunctualTick ==
  ASSUME Inv, Punctual, Tick
  PROVE  Punctual'
<1> USE Clock DEF Inv
<1>1. /\ now' = now + 1 /\ UNCHANGED <<solo, leg>> /\ pc' = IF pc = "nap" THEN "admit" ELSE pc
      /\ HandlerWaits /\ \A m \in Models : LegWaits(m)
  BY DEF Tick
<1>2. solo.expiry \in Nat
  BY DEF HandlerOK
<1>3. CASE pc = "join"
  <2>1. PICK m \in Models : leg[m].state \in InFlight
    BY <1>1, <1>3 DEF HandlerWaits, AllJoined, InFlight, LegsOK, Leg, LegStates, Punctual
  <2>2. now < leg[m].expiry /\ leg[m].expiry <= Deadline /\ leg[m].expiry \in Nat
    BY <1>1, <2>1 DEF LegWaits, Punctual, LegsOK, Leg
  <2> QED
    BY <1>1, <1>3, <2>2 DEF Punctual
<1>4. CASE pc = "nap"
  BY <1>1, <1>2, <1>4 DEF Punctual
<1>5. CASE pc \in {"solo_send", "solo_body"} /\ now < solo.expiry
  BY <1>1, <1>2, <1>5 DEF Punctual
<1> QED
  BY <1>1, <1>3, <1>4, <1>5 DEF HandlerWaits

LEMMA PunctualLegs ==
  ASSUME Inv, Punctual, NEW m \in Models, LegStep(m)
  PROVE  Punctual'
<1> USE Clock DEF Inv
<1>0. leg \in [Models -> Leg] /\ UNCHANGED <<now, pc, solo>>
  BY DEF LegsOK, LegStep, LegSendFails, LegHead, LegErrorRead, LegBodyRead, LegBodyFails, Reap, legFrame
<1>1. ASSUME NEW r, End(m, r)
      PROVE  Punctual'
  <2>1. leg'[m].state = "ended" /\ \A n \in Models \ {m} : leg'[n] = leg[n]
    BY <1>0, <1>1 DEF End, NoLeg
  <2> QED
    BY <1>0, <2>1 DEF Punctual, InFlight
<1>2. CASE LegSendFails(m) \/ LegErrorRead(m) \/ LegBodyRead(m) \/ LegBodyFails(m)
  BY <1>1, <1>2 DEF LegSendFails, LegErrorRead, LegBodyRead, LegBodyFails
<1>3. ASSUME NEW s \in Statuses, LegHead(m, s)
      PROVE  Punctual'
  <2>1. CASE End(m, "fatal")
    BY <1>1, <2>1
  <2>2. ASSUME NEW state \in {"error_body", "body"},
               leg' = [leg EXCEPT ![m].state = state, ![m].status = s,
                                  ![m].expiry = Expiry, ![m].cut = Cut]
        PROVE  Punctual'
    <3>1. leg'[m] = [leg[m] EXCEPT !.state = state, !.status = s, !.expiry = Expiry, !.cut = Cut]
      BY <1>0, <2>2
    <3>2. leg'[m].state = state /\ leg'[m].expiry = Expiry
      BY <1>0, <3>1 DEF Leg
    <3>3. \A n \in Models \ {m} : leg'[n] = leg[n]
      BY <1>0, <2>2
    <3> QED
      BY <1>0, <3>2, <3>3 DEF Punctual
  <2> QED
    BY <1>3, <2>1, <2>2 DEF LegHead
<1>4. CASE Reap(m)
  <2>1. leg'[m].state = "joined" /\ \A n \in Models \ {m} : leg'[n] = leg[n]
    BY <1>0, <1>4 DEF Reap, JoinedLeg, NoLeg
  <2> QED
    BY <1>0, <2>1 DEF Punctual, InFlight
<1> QED
  BY <1>2, <1>3, <1>4 DEF LegStep

LEMMA PunctualNext == Inv /\ Punctual /\ [Next]_vars => Punctual'
<1> SUFFICES ASSUME Inv, Punctual, [Next]_vars PROVE Punctual'
  OBVIOUS
<1>1. CASE OtherStep
  BY <1>1 DEF OtherStep, OthersTake, OthersRelease, CooldownEnds, handlerVars, Punctual
<1>2. CASE UNCHANGED vars
  BY <1>2 DEF vars, Punctual
<1> QED
  BY <1>1, <1>2, PunctualHandler, PunctualTick, PunctualLegs DEF Next

LEMMA PunctualInit == Init => Punctual
BY RacingAssumption DEF Init, Punctual, NoLeg, InFlight, Deadline

-----------------------------------------------------------------------------
(* Theorems *)

LEMMA InvInit == Init => Inv
<1> SUFFICES ASSUME Init PROVE Inv
  OBVIOUS
<1>1. LegsOK /\ HandlerOK /\ Unspawned
  BY RacingAssumption DEF Init, LegsOK, HandlerOK, Unspawned, NoLeg, NoSolo, Leg, LegStates, InFlight,
    Statuses, Results, Pcs
<1>2. Held = {} /\ (\A k \in Keys : HeldWith(k) = {}) /\ SoloKey = NoKey
  BY DEF Init, Held, HeldWith, NoLeg, InFlight, SoloKey
<1>3. Cardinality({}) = 0
  BY FS_EmptySet
<1>4. Slots
  BY <1>1, Finite, RacingAssumption DEF Init, Slots
<1>5. SlotsAccounted
  <2>1. up_used = Cardinality(Held) + One(SoloKey # NoKey) + Cardinality(others)
    BY <1>1, <1>2, <1>3, Finite DEF Init, One
  <2>2. ASSUME NEW k \in Keys
        PROVE  key_used[k] = Cardinality(HeldWith(k)) + One(SoloKey = k) + One(k \in others)
    <3>1. Cardinality(HeldWith(k)) = 0 /\ One(SoloKey = k) = 0
      BY <1>2, <1>3, RacingAssumption DEF One
    <3>2. key_used[k] = One(k \in others) /\ One(k \in others) \in Nat
      BY DEF Init, One
    <3> QED
      BY <3>1, <3>2
  <2> QED
    BY <2>1, <2>2 DEF SlotsAccounted
<1> QED
  BY <1>1, <1>4, <1>5 DEF Inv, Ledger

LEMMA InvNext == Inv /\ [Next]_vars => Inv'
<1> SUFFICES ASSUME Inv, [Next]_vars PROVE Inv'
  OBVIOUS
<1>1. CASE HandlerStep
  BY <1>1, StartStep, SpawnStep, JoinStep, HandlerAlone, AdmitStep, SoloRuns DEF HandlerStep
<1>2. CASE ClientGone \/ Tick
  BY <1>2, ClientGoneStep, HandlerAlone
<1>3. CASE OtherStep
  BY <1>3, OthersRun DEF OtherStep
<1>4. CASE \E m \in Models : LegStep(m)
  BY <1>4, LegRuns
<1>5. CASE UNCHANGED vars
  <2>1. HandlerOK' /\ Unspawned' /\ SoloKey' = SoloKey
    BY <1>5 DEF vars, Inv, HandlerOK, Unspawned, SoloKey
  <2> QED
    BY <1>5, <2>1, Bystander DEF vars
<1> QED
  BY <1>1, <1>2, <1>3, <1>4, <1>5 DEF Next

\* Every variable of the race keeps its type; in particular no key has more
\* slots taken than its window allows, nor fewer than none.
THEOREM RacingTypeCorrect == Spec => []TypeOK
<1>1. Inv => TypeOK
  BY DEF Inv, LegsOK, HandlerOK, Ledger, Slots, Leg, TypeOK
<1> QED
  BY <1>1, InvInit, InvNext, PTL DEF Spec

\* Through wins, aborts, deadlines and hang-ups no slot and no permit leaks and
\* none is given back twice, for any number of models, keys and slots.
THEOREM NoSlotLeaks == Spec => []SlotsAccounted
<1>1. Inv => SlotsAccounted
  BY DEF Inv, Ledger
<1> QED
  BY <1>1, InvInit, InvNext, PTL DEF Spec

\* The client is answered, or has hung up, by the deadline and one admission
\* wait, for every timeout and whatever legs, models and tries lie in between.
THEOREM AnswerInTime == Spec => []AnsweredByDeadlineAndWait
<1>1. Inv /\ Punctual => AnsweredByDeadlineAndWait
  <2> SUFFICES ASSUME Inv, Punctual, pc # "done" PROVE now <= Deadline + AdmissionWait
    BY DEF AnsweredByDeadlineAndWait
  <2>1. now \in Nat /\ Deadline \in Nat /\ AdmissionWait \in Nat /\ solo.expiry \in Nat
    BY Clock DEF Inv, HandlerOK
  <2> QED
    BY <2>1 DEF Inv, HandlerOK, Pcs, Punctual
<1> QED
  BY <1>1, InvInit, InvNext, PunctualInit, PunctualNext, PTL DEF Spec
=============================================================================
