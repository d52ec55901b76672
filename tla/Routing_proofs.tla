----------------------------- MODULE Routing_proofs -----------------------------
(***************************************************************************)
(* Proofs about the table of route overrides and about the core router.    *)
(*                                                                         *)
(* The table, for every capacity and every set of positions and pipelines: *)
(* its invariants, and that it implements RoutePrecedence.                 *)
(*                                                                         *)
(* The router, for any pipelines, stages and times.  OneActive and         *)
(* OnlyActiveWaits are inductive together with the types: a switch can     *)
(* only end with one pipeline active because the one that is entered was   *)
(* not active before, and nothing but the active pipeline ever sets a      *)
(* deadline.                                                               *)
(***************************************************************************)
EXTENDS RouteOverride, Router, FiniteSetTheorems, WellFoundedInduction, TLAPS

--------------------------------------------------------------------------------
(* The table of overrides: the inductive invariant. *)

TableInv == TableTypeOK /\ HeldOnce

--------------------------------------------------------------------------------
(* Slots *)

(* Every nonempty set of naturals has a least member. *)
LEMMA LeastNumber ==
  ASSUME NEW S \in SUBSET Nat, S # {}
  PROVE  \E n \in S : \A m \in S : n <= m
<1>. DEFINE Less == {e \in Nat \X Nat : e[1] < e[2]}
<1>1. IsWellFoundedOn(Less, Nat)
  BY NatLessThanWellFounded DEF OpToRel
<1>2. PICK n \in S : \A m \in S : <<m, n>> \notin Less
  <2>. HIDE DEF Less
  <2>. QED  BY <1>1, WFMin
<1>3. ASSUME NEW m \in S PROVE n <= m
  <2>1. m \in Nat /\ n \in Nat
    OBVIOUS
  <2>2. ~(m < n)
    BY <1>2, <2>1
  <2>. QED  BY <2>1, <2>2
<1>. QED  BY <1>3

(* First picks a member of the set of slots it is given. *)
LEMMA FirstIsMember ==
  ASSUME NEW S \in SUBSET Slots, S # {}
  PROVE  First(S) \in S
<1>1. S \in SUBSET Nat
  BY RouteOverrideAssumption DEF Slots
<1>2. \E s \in S : \A t \in S : s <= t
  BY <1>1, LeastNumber
<1>. QED  BY <1>2 DEF First

(* What a press does to the table: it writes one slot, which either held the
   position already or was inactive while no slot held the position. *)
LEMMA PressWrites ==
  ASSUME TableInv, NEW p \in Positions, NEW i \in Pipelines, Press(p, i)
  PROVE  \E k \in Slots :
           /\ overrides' = [overrides EXCEPT ![k] =
                [position |-> p, pipeline_index |-> i,
                 order |-> next_order + 1, active |-> TRUE]]
           /\ Active' = Active \cup {k}
           /\ k \in Active => overrides[k].position = p
           /\ k \notin Active => \A s \in Active : overrides[s].position # p
<1>. DEFINE k == First(Available(p))
<1>1. Available(p) \in SUBSET Slots /\ Available(p) # {}
  BY DEF Press, Available, Matching, Active
<1>2. k \in Available(p)
  BY <1>1, FirstIsMember
<1>. HIDE DEF k
<1>3. overrides' = [overrides EXCEPT ![k] =
        [position |-> p, pipeline_index |-> i,
         order |-> next_order + 1, active |-> TRUE]]
  BY DEF Press, k
<1>4. k \in Slots
  BY <1>1, <1>2
<1>5. Active' = Active \cup {k}
  BY <1>3, <1>4 DEF Active, TableInv, TableTypeOK
<1>6. k \in Active => overrides[k].position = p
  BY <1>2 DEF Available, Matching, Active
<1>7. k \notin Active => \A s \in Active : overrides[s].position # p
  BY <1>2 DEF Available, Matching, Active
<1>. QED  BY <1>3, <1>4, <1>5, <1>6, <1>7

(* What a release does to the table: nothing, or it clears the one slot that
   held the position. *)
LEMMA ReleaseWrites ==
  ASSUME TableInv, NEW p \in Positions, Release(p)
  PROVE  \/ /\ overrides' = overrides
            /\ Active' = Active
            /\ \A s \in Active : overrides[s].position # p
         \/ \E k \in Active :
              /\ overrides[k].position = p
              /\ overrides' = [overrides EXCEPT ![k].active = FALSE]
              /\ Active' = Active \ {k}
<1>1. CASE Matching(p) = {}
  BY <1>1 DEF Release, Active, Matching
<1>2. CASE Matching(p) # {}
  <2>. DEFINE k == First(Matching(p))
  <2>1. k \in Matching(p)
    BY <1>2, FirstIsMember DEF Matching, Active
  <2>. HIDE DEF k
  <2>2. k \in Active /\ overrides[k].position = p
    BY <2>1 DEF Matching
  <2>3. overrides' = [overrides EXCEPT ![k].active = FALSE]
    BY <1>2 DEF Release, k
  <2>4. Active' = Active \ {k}
    BY <2>2, <2>3 DEF Active, TableInv, TableTypeOK, Override
  <2>. QED  BY <2>2, <2>3, <2>4
<1>. QED  BY <1>1, <1>2

--------------------------------------------------------------------------------
(* The invariants *)

LEMMA InitTableInv == TableInit => TableInv
<1>. SUFFICES ASSUME TableInit PROVE TableInv
  OBVIOUS
<1>1. Active = {}
  BY DEF TableInit, Active
<1>. QED
  BY <1>1, RouteOverrideAssumption DEF TableInit, TableInv, TableTypeOK, HeldOnce, Override

LEMMA PressIInv ==
  ASSUME TableInv, NEW p \in Positions, NEW i \in Pipelines, Press(p, i)
  PROVE  TableInv'
<1>1. PICK k \in Slots :
        /\ overrides' = [overrides EXCEPT ![k] =
             [position |-> p, pipeline_index |-> i,
              order |-> next_order + 1, active |-> TRUE]]
        /\ Active' = Active \cup {k}
        /\ k \in Active => overrides[k].position = p
        /\ k \notin Active => \A s \in Active : overrides[s].position # p
  BY PressWrites
<1>2. next_order \in Nat /\ next_order < MaxOrder /\ next_order' = next_order + 1
  BY RouteOverrideAssumption DEF Press, TableInv, TableTypeOK
<1>3. overrides \in [Slots -> Override]
  BY DEF TableInv, TableTypeOK
<1>4. p \in Nat /\ i \in Nat
  BY RouteOverrideAssumption
<1>5. overrides' \in [Slots -> Override]
  BY <1>1, <1>2, <1>3, <1>4 DEF Override
<1>6. \A s \in Active' : /\ overrides'[s].position \in Positions
                         /\ overrides'[s].pipeline_index \in Pipelines
  BY <1>1, <1>3 DEF TableInv, TableTypeOK, Active
<1>7. TableTypeOK'
  <2>1. next_order' \in 0..MaxOrder
    BY <1>2, RouteOverrideAssumption
  <2>2. ret' \in {"ok", "ENOSPC"}
    BY DEF Press
  <2>. QED  BY <1>5, <1>6, <2>1, <2>2 DEF TableTypeOK
<1>8. HeldOnce'
  <2>1. \A s \in Active : overrides[s].order \in 1..next_order
    BY DEF TableInv, HeldOnce
  <2>2. \A s \in Active' \ {k} : s \in Active /\ overrides'[s] = overrides[s]
    BY <1>1, <1>3 DEF Active
  <2>3. /\ overrides'[k].position = p
        /\ overrides'[k].order = next_order + 1
    BY <1>1, <1>3
  <2>4. \A s \in Active' \ {k} : overrides[s].position # p
    BY <1>1, <2>2 DEF TableInv, HeldOnce
  <2>5. \A s, t \in Active' :
          overrides'[s].position = overrides'[t].position => s = t
    BY <2>2, <2>3, <2>4 DEF TableInv, HeldOnce
  <2>6. \A s \in Active' : overrides'[s].order \in 1..next_order'
    BY <1>2, <2>1, <2>2, <2>3
  <2>7. \A s, t \in Active' : overrides'[s].order = overrides'[t].order => s = t
    BY <1>2, <2>1, <2>2, <2>3 DEF TableInv, HeldOnce
  <2>. QED  BY <2>5, <2>6, <2>7 DEF HeldOnce
<1>. QED  BY <1>7, <1>8 DEF TableInv

LEMMA ReleaseIInv ==
  ASSUME TableInv, NEW p \in Positions, Release(p)
  PROVE  TableInv'
<1>1. /\ overrides' \in [Slots -> Override]
      /\ Active' \subseteq Active
      /\ \A s \in Active' : overrides'[s] = overrides[s]
  <2>1. overrides \in [Slots -> Override]
    BY DEF TableInv, TableTypeOK
  <2>2. CASE overrides' = overrides /\ Active' = Active
    BY <2>1, <2>2
  <2>3. ASSUME NEW k \in Active,
               overrides' = [overrides EXCEPT ![k].active = FALSE],
               Active' = Active \ {k}
        PROVE  /\ overrides' \in [Slots -> Override]
               /\ \A s \in Active' : overrides'[s] = overrides[s]
    BY <2>1, <2>3 DEF Override, Active
  <2>. QED  BY <2>2, <2>3, ReleaseWrites
<1>2. next_order' = next_order /\ ret' = "ok"
  BY DEF Release
<1>. QED  BY <1>1, <1>2 DEF TableInv, TableTypeOK, HeldOnce

LEMMA NextTableInv == TableInv /\ [TableNext]_tableVars => TableInv'
<1>. SUFFICES ASSUME TableInv, [TableNext]_tableVars PROVE TableInv'
  OBVIOUS
<1>1. CASE UNCHANGED tableVars
  BY <1>1 DEF tableVars, TableInv, TableTypeOK, HeldOnce, Active
<1>2. ASSUME NEW p \in Positions, NEW i \in Pipelines, Press(p, i) PROVE TableInv'
  BY <1>2, PressIInv
<1>3. ASSUME NEW p \in Positions, PressRefused(p) PROVE TableInv'
  BY <1>3 DEF PressRefused, TableInv, TableTypeOK, HeldOnce, Active
<1>4. ASSUME NEW p \in Positions, Release(p) PROVE TableInv'
  BY <1>4, ReleaseIInv
<1>. QED  BY <1>1, <1>2, <1>3, <1>4 DEF TableNext

LEMMA TableInvariant == TableSpec => []TableInv
  BY InitTableInv, NextTableInv, PTL DEF TableSpec

(* Every slot is a well-typed override, and an active one names a position
   and a pipeline of the router. *)
THEOREM TableTypeInvariant == TableSpec => []TableTypeOK
<1>1. TableInv => TableTypeOK
  BY DEF TableInv
<1>. QED  BY <1>1, TableInvariant, PTL

(* However presses and releases reuse the slots, a position is held by at
   most one slot and no two held positions tie for newest. *)
THEOREM HeldOnceInvariant == TableSpec => []HeldOnce
<1>1. TableInv => HeldOnce
  BY DEF TableInv
<1>. QED  BY <1>1, TableInvariant, PTL

--------------------------------------------------------------------------------
(* The table implements the precedence of presses *)

(* The slot of a held position is the one active slot that names it. *)
SlotsMatch ==
  /\ \A s \in Active : SlotOf(overrides[s].position) = s
  /\ \A q \in HeldPositions :
       SlotOf(q) \in Active /\ overrides[SlotOf(q)].position = q

LEMMA SlotOfHeld == HeldOnce => SlotsMatch
<1>. SUFFICES ASSUME HeldOnce PROVE SlotsMatch
  OBVIOUS
<1>1. ASSUME NEW q \in HeldPositions
      PROVE  SlotOf(q) \in Active /\ overrides[SlotOf(q)].position = q
  <2>1. \E s \in Active : overrides[s].position = q
    BY DEF HeldPositions
  <2>. QED  BY <2>1 DEF SlotOf
<1>2. ASSUME NEW s \in Active PROVE SlotOf(overrides[s].position) = s
  <2>1. overrides[s].position \in HeldPositions
    BY DEF HeldPositions
  <2>. QED  BY <1>1, <2>1 DEF HeldOnce
<1>. QED  BY <1>1, <1>2 DEF SlotsMatch

(* There are as many held positions as active slots. *)
LEMMA HeldCount ==
  ASSUME TableInv
  PROVE  /\ IsFiniteSet(Active)
         /\ Cardinality(HeldPositions) = Cardinality(Active)
         /\ Cardinality(Slots) = Capacity
         /\ IsFiniteSet(Slots)
<1>1. IsFiniteSet(Slots) /\ Cardinality(Slots) = Capacity
  BY FS_Interval, RouteOverrideAssumption DEF Slots
<1>2. IsFiniteSet(Active)
  BY <1>1, FS_Subset DEF Active
<1>3. ExistsBijection(Active, HeldPositions)
  <2>. DEFINE f == [s \in Active |-> overrides[s].position]
  <2>1. f \in Bijection(Active, HeldPositions)
    BY DEF Bijection, Injection, Surjection, HeldPositions, TableInv, HeldOnce,
           IsInjective
  <2>. QED  BY <2>1 DEF ExistsBijection
<1>. QED  BY <1>1, <1>2, <1>3, FS_Bijection

(* The table has an inactive slot exactly while fewer than Capacity
   positions are held. *)
LEMMA FullTable ==
  ASSUME TableInv
  PROVE  /\ Active = Slots => Cardinality(HeldPositions) = Capacity
         /\ Active # Slots => Cardinality(HeldPositions) < Capacity
<1>1. CASE Active = Slots
  BY <1>1, HeldCount
<1>2. CASE Active # Slots
  <2>1. Active \in SUBSET Slots
    BY DEF Active
  <2>2. Cardinality(Active) <= Cardinality(Slots)
        /\ Cardinality(Active) # Cardinality(Slots)
    BY <1>2, <2>1, HeldCount, FS_Subset
  <2>3. Cardinality(Active) \in Nat /\ Cardinality(Slots) \in Nat
    BY HeldCount, FS_CardinalityType
  <2>. QED  BY <1>2, <2>2, <2>3, HeldCount
<1>. QED  BY <1>1, <1>2

(* The instance of RoutePrecedence counts as this module does. *)
LEMMA SameCardinality == \A S : Precedence!Cardinality(S) = Cardinality(S)
  BY DEF Precedence!Cardinality, Cardinality

LEMMA InitImplements == TableInit => Precedence!Init
<1>. SUFFICES ASSUME TableInit PROVE Precedence!Init
  OBVIOUS
<1>1. Active = {}
  BY DEF TableInit, Active
<1>2. HeldPositions = {}
  BY <1>1 DEF HeldPositions
<1>. QED  BY <1>2 DEF TableInit, Precedence!Init, RouteBar, NewerBar

LEMMA PressImplements ==
  ASSUME TableInv, TableInv', NEW p \in Positions, NEW i \in Pipelines, Press(p, i)
  PROVE  Precedence!Press(p, i)
<1>1. PICK k \in Slots :
        /\ overrides' = [overrides EXCEPT ![k] =
             [position |-> p, pipeline_index |-> i,
              order |-> next_order + 1, active |-> TRUE]]
        /\ Active' = Active \cup {k}
        /\ k \in Active => overrides[k].position = p
        /\ k \notin Active => \A s \in Active : overrides[s].position # p
  BY PressWrites
<1>2. /\ overrides'[k].position = p
      /\ overrides'[k].pipeline_index = i
      /\ overrides'[k].order = next_order + 1
      /\ k \in Active'
  BY <1>1 DEF TableInv, TableTypeOK
<1>3. \A s \in Active \ {k} :
        overrides'[s] = overrides[s] /\ overrides[s].position # p
  BY <1>1 DEF TableInv, TableTypeOK, HeldOnce, Active
<1>4. HeldPositions' = HeldPositions \cup {p}
  <2>1. ASSUME NEW q, q \in HeldPositions' PROVE q \in HeldPositions \cup {p}
    BY <1>1, <1>2, <1>3, <2>1 DEF HeldPositions
  <2>2. ASSUME NEW q \in HeldPositions PROVE q \in HeldPositions'
    BY <1>1, <1>2, <1>3 DEF HeldPositions
  <2>3. p \in HeldPositions'
    BY <1>2 DEF HeldPositions
  <2>. QED  BY <2>1, <2>2, <2>3
<1>5. SlotsMatch /\ SlotsMatch'
  BY SlotOfHeld, PTL DEF TableInv
<1>6. SlotOf(p)' = k
  BY <1>2, <1>5 DEF SlotsMatch
<1>7. ASSUME NEW q \in HeldPositions \ {p}
      PROVE  /\ SlotOf(q)' = SlotOf(q)
             /\ SlotOf(q) \in Active \ {k}
             /\ overrides'[SlotOf(q)] = overrides[SlotOf(q)]
  <2>1. SlotOf(q) \in Active /\ overrides[SlotOf(q)].position = q
    BY <1>5 DEF SlotsMatch
  <2>2. SlotOf(q) # k
    BY <1>1, <2>1
  <2>3. SlotOf(q) \in Active' /\ overrides'[SlotOf(q)] = overrides[SlotOf(q)]
    BY <1>1, <1>3, <2>1, <2>2
  <2>4. SlotOf(q)' = SlotOf(q)
    BY <1>5, <2>1, <2>3 DEF SlotsMatch
  <2>. QED  BY <2>1, <2>2, <2>3, <2>4
<1>8. RouteBar' = [q \in HeldPositions \cup {p} |->
                     IF q = p THEN i ELSE RouteBar[q]]
  <2>1. RouteBar' = [q \in HeldPositions' |-> overrides'[SlotOf(q)'].pipeline_index]
    BY DEF RouteBar
  <2>2. ASSUME NEW q \in HeldPositions'
        PROVE  overrides'[SlotOf(q)'].pipeline_index
                 = IF q = p THEN i ELSE RouteBar[q]
    BY <1>2, <1>4, <1>6, <1>7 DEF RouteBar
  <2>. QED  BY <1>4, <2>1, <2>2
<1>9. NewerBar' = {e \in NewerBar : e[1] # p /\ e[2] # p}
                    \cup ({p} \X (HeldPositions \ {p}))
  <2>1. NewerBar' = {e \in HeldPositions' \X HeldPositions' :
                       overrides'[SlotOf(e[1])'].order > overrides'[SlotOf(e[2])'].order}
    BY DEF NewerBar
  <2>2. ASSUME NEW a \in HeldPositions', NEW b \in HeldPositions'
        PROVE  <<a, b>> \in NewerBar' <=>
                 \/ <<a, b>> \in NewerBar /\ a # p /\ b # p
                 \/ a = p /\ b \in HeldPositions \ {p}
    <3>. next_order \in Nat /\ \A s \in Active : overrides[s].order \in 1..next_order
      BY RouteOverrideAssumption DEF TableInv, TableTypeOK, HeldOnce
    <3>1. CASE a # p /\ b # p
      BY <1>4, <1>7, <2>1, <3>1 DEF NewerBar
    <3>2. CASE a = p /\ b # p
      <4>1. b \in HeldPositions \ {p}
        BY <1>4, <3>2
      <4>2. overrides[SlotOf(b)].order \in 1..next_order
        BY <1>7, <4>1
      <4>. QED  BY <1>2, <1>6, <1>7, <2>1, <3>2, <4>1, <4>2
    <3>3. CASE a # p /\ b = p
      <4>1. a \in HeldPositions \ {p}
        BY <1>4, <3>3
      <4>2. overrides[SlotOf(a)].order \in 1..next_order
        BY <1>7, <4>1
      <4>. QED  BY <1>2, <1>6, <1>7, <2>1, <3>3, <4>1, <4>2
    <3>4. CASE a = p /\ b = p
      BY <1>2, <1>6, <2>1, <3>4
    <3>. QED  BY <3>1, <3>2, <3>3, <3>4
  <2>3. NewerBar \subseteq HeldPositions \X HeldPositions
    BY DEF NewerBar
  <2>. QED  BY <1>4, <2>1, <2>2, <2>3
<1>10. p \in HeldPositions \/ Cardinality(HeldPositions) < Capacity
  <2>1. CASE Active # Slots
    BY <2>1, FullTable
  <2>2. CASE Active = Slots
    BY <1>1, <2>2 DEF HeldPositions
  <2>. QED  BY <2>1, <2>2
<1>11. DOMAIN RouteBar = HeldPositions
  BY DEF RouteBar
<1>12. ret' = "ok"
  BY DEF Press
<1>. QED
  BY <1>8, <1>9, <1>10, <1>11, <1>12, SameCardinality
  DEF Precedence!Press, Precedence!Held

LEMMA RefuseImplements ==
  ASSUME TableInv, NEW p \in Positions, PressRefused(p)
  PROVE  Precedence!Refuse(p)
<1>1. Active = Slots /\ \A s \in Active : overrides[s].position # p
  BY DEF PressRefused, Available, Matching, Active
<1>2. Cardinality(HeldPositions) = Capacity /\ p \notin HeldPositions
  BY <1>1, FullTable DEF HeldPositions
<1>3. UNCHANGED <<RouteBar, NewerBar>>
  BY DEF PressRefused, RouteBar, NewerBar, HeldPositions, SlotOf, Active
<1>4. DOMAIN RouteBar = HeldPositions
  BY DEF RouteBar
<1>. QED
  BY <1>2, <1>3, <1>4, SameCardinality
  DEF PressRefused, Precedence!Refuse, Precedence!Held

LEMMA ReleaseImplements ==
  ASSUME TableInv, TableInv', NEW p \in Positions, Release(p)
  PROVE  Precedence!Release(p)
<1>1. SlotsMatch /\ SlotsMatch'
  BY SlotOfHeld, PTL DEF TableInv
<1>2. /\ HeldPositions' = HeldPositions \ {p}
      /\ \A q \in HeldPositions \ {p} :
           SlotOf(q)' = SlotOf(q) /\ overrides'[SlotOf(q)] = overrides[SlotOf(q)]
  <2>1. CASE /\ overrides' = overrides
             /\ Active' = Active
             /\ \A s \in Active : overrides[s].position # p
    BY <2>1 DEF HeldPositions, SlotOf
  <2>2. ASSUME NEW k \in Active,
               overrides[k].position = p,
               overrides' = [overrides EXCEPT ![k].active = FALSE],
               Active' = Active \ {k}
        PROVE  /\ HeldPositions' = HeldPositions \ {p}
               /\ \A q \in HeldPositions \ {p} :
                    /\ SlotOf(q)' = SlotOf(q)
                    /\ overrides'[SlotOf(q)] = overrides[SlotOf(q)]
    <3>1. \A s \in Active \ {k} :
            overrides'[s] = overrides[s] /\ overrides[s].position # p
      BY <2>2 DEF TableInv, TableTypeOK, HeldOnce, Active
    <3>2. HeldPositions' = HeldPositions \ {p}
      BY <2>2, <3>1 DEF HeldPositions
    <3>3. ASSUME NEW q \in HeldPositions \ {p}
          PROVE  /\ SlotOf(q)' = SlotOf(q)
                 /\ overrides'[SlotOf(q)] = overrides[SlotOf(q)]
      <4>1. SlotOf(q) \in Active \ {k} /\ overrides[SlotOf(q)].position = q
        BY <1>1, <2>2 DEF SlotsMatch
      <4>. QED  BY <1>1, <2>2, <3>1, <4>1 DEF SlotsMatch
    <3>. QED  BY <3>2, <3>3
  <2>. QED  BY <2>1, <2>2, ReleaseWrites
<1>3. RouteBar' = [q \in HeldPositions \ {p} |-> RouteBar[q]]
  <2>1. RouteBar' = [q \in HeldPositions' |-> overrides'[SlotOf(q)'].pipeline_index]
    BY DEF RouteBar
  <2>2. \A q \in HeldPositions' : overrides'[SlotOf(q)'].pipeline_index = RouteBar[q]
    BY <1>2 DEF RouteBar
  <2>. QED  BY <1>2, <2>1, <2>2
<1>4. NewerBar' = {e \in NewerBar : e[1] # p /\ e[2] # p}
  <2>1. NewerBar' = {e \in HeldPositions' \X HeldPositions' :
                       overrides'[SlotOf(e[1])'].order > overrides'[SlotOf(e[2])'].order}
    BY DEF NewerBar
  <2>2. \A a, b \in HeldPositions :
          <<a, b>> \in NewerBar' <=> <<a, b>> \in NewerBar /\ a # p /\ b # p
    BY <1>2, <2>1 DEF NewerBar
  <2>. QED  BY <1>2, <2>1, <2>2 DEF NewerBar
<1>5. DOMAIN RouteBar = HeldPositions
  BY DEF RouteBar
<1>. QED
  BY <1>3, <1>4, <1>5 DEF Release, Precedence!Release, Precedence!Held

(* Each call of the table is a step of RoutePrecedence: newest press first,
   a release reveals the next newest held press, a full table refuses. *)
THEOREM ImplementsPrecedence == TableSpec => PrecedenceSpec
<1>1. TableInv /\ TableInv' /\ [TableNext]_tableVars => [Precedence!Next]_(Precedence!vars)
  <2>. SUFFICES ASSUME TableInv, TableInv', [TableNext]_tableVars
                PROVE  [Precedence!Next]_(Precedence!vars)
    OBVIOUS
  <2>1. CASE UNCHANGED tableVars
    BY <2>1 DEF tableVars, Precedence!vars, RouteBar, NewerBar, HeldPositions, SlotOf, Active
  <2>2. ASSUME NEW p \in Positions, NEW i \in Pipelines, Press(p, i)
        PROVE  Precedence!Next
    BY <2>2, PressImplements DEF Precedence!Next
  <2>3. ASSUME NEW p \in Positions, PressRefused(p) PROVE Precedence!Next
    BY <2>3, RefuseImplements DEF Precedence!Next
  <2>4. ASSUME NEW p \in Positions, Release(p) PROVE Precedence!Next
    BY <2>4, ReleaseImplements DEF Precedence!Next
  <2>. QED  BY <2>1, <2>2, <2>3, <2>4 DEF TableNext
<1>. QED
  BY <1>1, InitImplements, TableInvariant, PTL
  DEF TableSpec, PrecedenceSpec, Precedence!Spec

(* What zpt_route_override_selected() finds by scanning order numbers is the
   route of the newest held press. *)
THEOREM SelectedInvariant == TableSpec => []SelectedIsNewest
<1>1. TableInv => SelectedIsNewest
  <2>. SUFFICES ASSUME TableInv PROVE Selected = Precedence!Selected
    BY DEF SelectedIsNewest
  <2>1. SlotsMatch
    BY SlotOfHeld DEF TableInv
  <2>2. Precedence!Held = HeldPositions /\ (Active = {} <=> HeldPositions = {})
    BY DEF Precedence!Held, RouteBar, HeldPositions
  <2>3. CASE Active = {}
    BY <2>2, <2>3 DEF Selected, Precedence!Selected
  <2>4. CASE Active # {}
    <3>. DEFINE Age == {next_order - overrides[s].order : s \in Active}
                top == {s \in Active : Newest(s)}
    <3>1. \A s \in Active : overrides[s].order \in 1..next_order
      BY DEF TableInv, HeldOnce
    <3>2. next_order \in Nat
      BY RouteOverrideAssumption DEF TableInv, TableTypeOK
    <3>3. Age \in SUBSET Nat /\ Age # {}
      BY <2>4, <3>1, <3>2
    <3>4. PICK m \in Age : \A n \in Age : m <= n
      BY <3>3, LeastNumber
    <3>5. PICK s \in Active : m = next_order - overrides[s].order
      BY <3>4
    <3>6. ASSUME NEW t \in Active
          PROVE  overrides[t].order <= overrides[s].order
      <4>1. next_order - overrides[t].order \in Age
        OBVIOUS
      <4>2. next_order - overrides[s].order <= next_order - overrides[t].order
        BY <3>4, <3>5, <4>1
      <4>3. overrides[s].order \in Nat /\ overrides[t].order \in Nat
        BY <3>1
      <4>. QED  BY <3>2, <4>2, <4>3
    <3>7. top = {s}
      BY <3>1, <3>2, <3>6 DEF Newest, TableInv, HeldOnce
    <3>8. First(top) = s
      BY <3>7, FirstIsMember DEF Active
    <3>9. Selected = overrides[s].pipeline_index
      BY <2>4, <3>8 DEF Selected
    <3>10. ASSUME NEW q \in HeldPositions
           PROVE  Precedence!Newest(q) <=> q = overrides[s].position
      <4>. DEFINE t == SlotOf(q)
      <4>1. t \in Active /\ overrides[t].position = q
        BY <2>1 DEF SlotsMatch
      <4>2. overrides[s].position \in HeldPositions
            /\ SlotOf(overrides[s].position) = s
        BY <2>1 DEF SlotsMatch, HeldPositions
      <4>3. CASE q = overrides[s].position
        <5>1. ASSUME NEW r \in HeldPositions \ {q} PROVE <<q, r>> \in NewerBar
          <6>1. SlotOf(r) \in Active /\ overrides[SlotOf(r)].position = r
            BY <2>1 DEF SlotsMatch
          <6>2. overrides[SlotOf(r)].order < overrides[s].order
            BY <3>1, <3>2, <3>6, <4>3, <6>1 DEF TableInv, HeldOnce
          <6>. QED  BY <3>1, <4>2, <4>3, <6>1, <6>2 DEF NewerBar
        <5>. QED  BY <2>2, <4>3, <5>1 DEF Precedence!Newest
      <4>4. CASE q # overrides[s].position
        <5>1. overrides[t].order <= overrides[s].order
          BY <3>6, <4>1
        <5>2. <<q, overrides[s].position>> \notin NewerBar
          BY <3>1, <4>1, <4>2, <5>1 DEF NewerBar
        <5>. QED  BY <2>2, <4>2, <4>4, <5>2 DEF Precedence!Newest
      <4>. QED  BY <4>3, <4>4
    <3>11. overrides[s].position \in HeldPositions
      BY DEF HeldPositions
    <3>12. (CHOOSE p \in HeldPositions : Precedence!Newest(p)) = overrides[s].position
      BY <3>10, <3>11
    <3>13. RouteBar[overrides[s].position] = overrides[s].pipeline_index
      BY <2>1, <3>11 DEF RouteBar, SlotsMatch
    <3>. QED
      BY <2>2, <2>4, <3>9, <3>11, <3>12, <3>13 DEF Precedence!Selected
  <2>. QED  BY <2>3, <2>4
<1>. QED  BY <1>1, TableInvariant, PTL

--------------------------------------------------------------------------------
(* The router. *)

IInv == TypeOK /\ OneActive /\ OnlyActiveWaits

LEMMA ResetType == Reset \in [Stages -> Int \cup {NoDeadline}]
  BY DEF Reset

LEMMA InitIInv == Init => IInv
  BY RouterAssumption, IndexAssumption, ResetType DEF Init, IInv, TypeOK, OneActive, OnlyActiveWaits

\* What a switch does to the pipelines, whatever it leaves and enters.
LEMMA SwitchType ==
  ASSUME TypeOK, NEW l, NEW e, Switch(l, e)
  PROVE  /\ running' \in [Pipelines -> BOOLEAN]
         /\ deadline' \in [Pipelines -> [Stages -> Int \cup {NoDeadline}]]
  <1>1. running' \in [Pipelines -> BOOLEAN]
    BY DEF Switch, TypeOK
  <1>2. deadline' \in [Pipelines -> [Stages -> Int \cup {NoDeadline}]]
    BY ResetType DEF Switch, TypeOK
  <1> QED BY <1>1, <1>2

\* After a switch that left the active pipeline only the entered one runs,
\* and no pipeline waits for anything.
LEMMA SwitchEffect ==
  ASSUME IInv, up, NEW e, Switch(index, e)
  PROVE  \A p \in Pipelines : (running'[p] <=> p = e) /\ deadline'[p] = Reset
  <1> SUFFICES ASSUME NEW p \in Pipelines
               PROVE  (running'[p] <=> p = e) /\ deadline'[p] = Reset
    OBVIOUS
  <1>1. running[p] <=> index = p
    BY DEF IInv, OneActive
  <1>2. running'[p] <=> p = e
    BY <1>1 DEF Switch
  <1>3. index # p => deadline[p] = Reset
    BY DEF IInv, OnlyActiveWaits
  <1>4. deadline'[p] = Reset
    BY <1>3 DEF Switch
  <1> QED BY <1>2, <1>4

\* Only the active pipeline's deadlines change.
LEMMA RearmEffect ==
  ASSUME TypeOK, index \in Pipelines, NEW now \in Times, NEW kept, Rearm(kept, now)
  PROVE  /\ deadline' \in [Pipelines -> [Stages -> Int \cup {NoDeadline}]]
         /\ \A p \in Pipelines : p # index => deadline'[p] = deadline[p]
  <1>1. PICK f \in [Stages \ kept -> {NoDeadline} \cup {now + d : d \in Intervals}] :
          deadline' = [deadline EXCEPT ![index] =
            [s \in Stages |-> IF s \in kept THEN @[s] ELSE f[s]]]
    BY DEF Rearm
  <1>2. \A d \in Intervals : now + d \in Int
    BY RouterAssumption
  <1>3. \A s \in Stages \ kept : f[s] \in Int \cup {NoDeadline}
    BY <1>2
  <1>4. deadline[index] \in [Stages -> Int \cup {NoDeadline}]
    BY DEF TypeOK
  <1>5. [s \in Stages |-> IF s \in kept THEN deadline[index][s] ELSE f[s]]
          \in [Stages -> Int \cup {NoDeadline}]
    BY <1>3, <1>4
  <1> QED BY <1>1, <1>5 DEF TypeOK

\* An operation that keeps the selection and the running pipelines.
LEMMA StaysIInv ==
  ASSUME IInv, UNCHANGED <<up, index, running>>,
         deadline' \in [Pipelines -> [Stages -> Int \cup {NoDeadline}]],
         \A p \in Pipelines : p # index => deadline'[p] = deadline[p], Routed,
         outcome' \in {"ok", "error"}
  PROVE  IInv'
  BY DEF IInv, TypeOK, OneActive, OnlyActiveWaits, Routed

LEMMA ActivateIInv == ASSUME IInv, Activate PROVE IInv'
  <1>1. CASE UNCHANGED <<up, index, running, deadline>> /\ outcome' = "refused"
    BY <1>1 DEF IInv, TypeOK, OneActive, OnlyActiveWaits
  <1>2. CASE /\ up' = TRUE /\ index' = DefaultPipeline /\ outcome' = "ok"
             /\ running' = [running EXCEPT ![DefaultPipeline] = TRUE]
             /\ deadline' = [deadline EXCEPT ![DefaultPipeline] = Reset]
    <2>1. ~up
      BY DEF Activate
    <2>2. TypeOK'
      BY <1>2, ResetType, RouterAssumption DEF IInv, TypeOK
    <2>3. OneActive'
      BY <1>2, <2>1, RouterAssumption, IndexAssumption DEF IInv, TypeOK, OneActive
    <2>4. OnlyActiveWaits'
      BY <1>2, <2>1, RouterAssumption, IndexAssumption DEF IInv, TypeOK, OnlyActiveWaits, Reset
    <2> QED BY <2>2, <2>3, <2>4 DEF IInv
  <1> QED BY <1>1, <1>2 DEF Activate

\* A switch that left the active pipeline ends on the pipeline it entered.
LEMMA SwitchIInv ==
  ASSUME IInv, up, NEW e \in Pipelines \cup {NoPipeline}, Switch(index, e),
         index' = e, up' \in BOOLEAN, up' \/ e = NoPipeline,
         outcome' \in {"ok", "left_with_error", "refused"}
  PROVE  IInv'
  <1>1. TypeOK'
    BY SwitchType DEF IInv, TypeOK
  <1>2. \A p \in Pipelines : (running'[p] <=> p = e) /\ deadline'[p] = Reset
    BY SwitchEffect
  <1>3. OneActive'
    BY <1>2, RouterAssumption, IndexAssumption DEF OneActive
  <1>4. OnlyActiveWaits'
    BY <1>2 DEF OnlyActiveWaits, Reset
  <1> QED BY <1>1, <1>3, <1>4 DEF IInv

LEMMA SelectIInv == ASSUME IInv, NEW i \in Pipelines, Select(i) PROVE IInv'
  <1> USE DEF LeaveOutcomes
  <1>0. up /\ up' = up /\ up \in BOOLEAN /\ index \in Pipelines \cup {NoPipeline}
    BY DEF Select, IInv, TypeOK
  <1>1. CASE UNCHANGED <<index, running, deadline>> /\ outcome' = "ok"
    BY <1>0, <1>1 DEF IInv, TypeOK, OneActive, OnlyActiveWaits
  <1>2. CASE Switch(index, i) /\ index' = i /\ outcome' \in LeaveOutcomes
    BY <1>0, <1>2, SwitchIInv
  <1>3. CASE Switch(index, index) /\ UNCHANGED index /\ outcome' = "refused"
    BY <1>0, <1>3, SwitchIInv
  <1>4. CASE Switch(index, NoPipeline) /\ index' = NoPipeline /\ outcome' = "refused"
    BY <1>0, <1>4, SwitchIInv
  <1> QED BY <1>1, <1>2, <1>3, <1>4 DEF Select

LEMMA FlushIInv == ASSUME IInv, NEW now \in Times, Flush(now) PROVE IInv'
  <1>0. Routed /\ UNCHANGED <<up, index, running>>
    BY DEF Flush
  <1>1. TypeOK /\ index \in Pipelines
    BY <1>0 DEF Routed, IInv, TypeOK
  <1>2. CASE UNCHANGED deadline /\ outcome' = "ok"
    BY <1>0, <1>1, <1>2, StaysIInv DEF TypeOK
  <1>3. CASE \E last \in Due(now), kept \in SUBSET Stages :
               Rearm(kept, now) /\ outcome' \in {"ok", "error"}
    BY <1>0, <1>1, <1>3, RearmEffect, StaysIInv
  <1> QED BY <1>2, <1>3 DEF Flush

LEMMA NextIInv == IInv /\ [Next]_vars => IInv'
  <1> SUFFICES ASSUME IInv, [Next]_vars PROVE IInv'
    OBVIOUS
  <1>1. CASE Activate
    BY <1>1, ActivateIInv
  <1>2. ASSUME NEW i \in Pipelines, Select(i) PROVE IInv'
    BY <1>2, SelectIInv
  <1>3. CASE Deactivate
    <2>1. /\ up /\ Switch(index, NoPipeline) /\ up' = FALSE /\ index' = NoPipeline
          /\ outcome' \in {"ok", "left_with_error", "refused"}
      BY <1>3 DEF Deactivate, LeaveOutcomes
    <2> QED BY <2>1, SwitchIInv
  <1>4. ASSUME NEW now \in Times, Push(now) PROVE IInv'
    <2>1. Routed /\ UNCHANGED <<up, index, running>> /\ outcome' \in {"ok", "error"}
      BY <1>4 DEF Push
    <2>2. TypeOK /\ index \in Pipelines
      BY <2>1 DEF Routed, IInv, TypeOK
    <2>3. \E kept \in SUBSET Stages : Rearm(kept, now)
      BY <1>4 DEF Push
    <2> QED BY <2>1, <2>2, <2>3, RearmEffect, StaysIInv
  <1>5. ASSUME NEW now \in Times, Flush(now) PROVE IInv'
    BY <1>5, FlushIInv
  <1>6. CASE NotRouted
    BY <1>6 DEF NotRouted, IInv, TypeOK, OneActive, OnlyActiveWaits
  <1>7. CASE UNCHANGED vars
    BY <1>7 DEF vars, IInv, TypeOK, OneActive, OnlyActiveWaits
  <1> QED BY <1>1, <1>2, <1>3, <1>4, <1>5, <1>6, <1>7 DEF Next

LEMMA InductiveInvariant == Spec => []IInv
  BY InitIInv, NextIInv, PTL DEF Spec

\* The variables keep their types (core/router.h, struct zpt_router).
THEOREM TypeInvariant == Spec => []TypeOK
  <1>1. IInv => TypeOK
    BY DEF IInv
  <1> QED BY <1>1, InductiveInvariant, PTL

\* Whatever switches failed and rolled back, the pipeline that the router
\* routes to is active and no other one is (core/router.c:94-139).
THEOREM OneActiveInvariant == Spec => []OneActive
  <1>1. IInv => OneActive
    BY DEF IInv
  <1> QED BY <1>1, InductiveInvariant, PTL

\* A pipeline that was left waits for nothing (core/router.c:94-155).
THEOREM OnlyActiveWaitsInvariant == Spec => []OnlyActiveWaits
  <1>1. IInv => OnlyActiveWaits
    BY DEF IInv
  <1> QED BY <1>1, InductiveInvariant, PTL

\* A refused switch ends on the pipeline it started from or on none, and
\* nothing that any pipeline waited for survives it (core/router.c:119-136).
THEOREM RefusedRollsBackAlways == Spec => RefusedRollsBack
  <1> DEFINE RolledBack ==
        up /\ up' /\ outcome' = "refused" =>
          /\ index' \in {index, NoPipeline}
          /\ \A p \in Pipelines : deadline'[p] = Reset
  <1>1. IInv /\ [Next]_vars => [RolledBack]_vars
    <2> SUFFICES ASSUME IInv, Next, up, up', outcome' = "refused"
                 PROVE  /\ index' \in {index, NoPipeline}
                        /\ \A p \in Pipelines : deadline'[p] = Reset
      BY DEF vars
    <2>1. PICK i \in Pipelines : Select(i)
      <3>1. ~Deactivate /\ ~Activate /\ ~NotRouted
        BY DEF Deactivate, Activate, NotRouted
      <3>2. \A now \in Times : ~Push(now) /\ ~Flush(now)
        BY DEF Push, Flush
      <3> QED BY <3>1, <3>2 DEF Next
    <2>2. \/ Switch(index, index) /\ index' = index
          \/ Switch(index, NoPipeline) /\ index' = NoPipeline
      BY <2>1 DEF Select, LeaveOutcomes
    <2> QED BY <2>2, SwitchEffect
  <1> QED BY <1>1, InductiveInvariant, PTL DEF Spec, RefusedRollsBack
================================================================================
