----------------------------- MODULE ZmkRouter_proofs -----------------------------
(***************************************************************************)
(* Proofs about ZmkRouter, for every number of threads, route keys, layers, *)
(* pipelines and stages and for every bound on lateness.                   *)
(*                                                                         *)
(* Typed holds every value in its range and is kept by every step by       *)
(* itself.  With it, Covered (a wake-up for what is pending, none for what *)
(* is not, whenever the executor's lock is free) is inductive: a thread    *)
(* that takes the lock owes a wake-up and Update pays it.                  *)
(*                                                                         *)
(* RouteSettled speaks of moments at which nobody is in a call, so it says *)
(* nothing of the steps between them.  Settled does: unless a thread that  *)
(* changed a layer has still to decide, what a thread found is what layers *)
(* and keys ask for now, what a scan passed over would not have stopped it, *)
(* and where nobody is between the two the active pipeline is that one.    *)
(***************************************************************************)
EXTENDS ZmkRouter, TLAPS, FiniteSetTheorems, WellFoundedInduction

-----------------------------------------------------------------------------
(* Lemmas about least and newest elements.                                   *)

\* A set of natural numbers that is not empty has a least element.
LEMMA LeastNatural ==
  ASSUME NEW S \in SUBSET Nat, S # {}
  PROVE  \E k \in S : \A j \in S : k <= j
<1> DEFINE Less == {e \in Nat \X Nat : e[1] < e[2]}
<1>1. IsWellFoundedOn(Less, Nat)
  BY NatLessThanWellFounded DEF OpToRel
<1>2. PICK k \in S : \A j \in S : <<j, k>> \notin Less
  <2> HIDE DEF Less
  <2>1. QED
    BY <1>1, WFMin
<1>3. ASSUME NEW j \in S PROVE k <= j
  <2>1. j \in Nat /\ k \in Nat
    OBVIOUS
  <2>2. ~(j < k)
    BY <1>2, <2>1
  <2>3. QED
    BY <2>1, <2>2
<1>4. QED
  BY <1>3

\* Numbers that have a lower bound have a least one.
LEMMA LeastExists ==
  ASSUME NEW T, T \subseteq Int, T # {}, NEW low \in Int, \A t \in T : low <= t
  PROVE  \E t \in T : \A u \in T : t <= u
<1> DEFINE N == {k \in Nat : low + k \in T}
<1>1. PICK t \in T : TRUE
  OBVIOUS
<1>2. t - low \in Nat /\ low + (t - low) = t
  BY <1>1
<1>3. N # {}
  BY <1>1, <1>2
<1>4. PICK k \in N : \A j \in N : k <= j
  <2>1. N \in SUBSET Nat
    OBVIOUS
  <2> HIDE DEF N
  <2>2. QED
    BY <1>3, <2>1, LeastNatural
<1>6. \A u \in T : u - low \in N
  <2> TAKE u \in T
  <2>1. u - low \in Nat /\ low + (u - low) = u
    OBVIOUS
  <2>2. QED
    BY <2>1
<1>7. low + k \in T /\ \A u \in T : low + k <= u
  BY <1>4, <1>6
<1>8. QED
  BY <1>7

\* Of finitely many presses in a total order one is the newest.
LEMMA NewestExists ==
  ASSUME NEW S, IsFiniteSet(S), S # {}, NEW R,
         \A p, q \in S : p # q => <<p, q>> \in R \/ <<q, p>> \in R,
         \A p, q, r \in S : <<p, q>> \in R /\ <<q, r>> \in R => p = r \/ <<p, r>> \in R
  PROVE  \E p \in S : \A q \in S \ {p} : <<p, q>> \in R
<1> DEFINE c == Cardinality(S)
<1>1. c \in Nat /\ \E f : f \in Bijection(1..c, S)
  BY FS_CardinalityType DEF ExistsBijection
<1>2. PICK f \in [1..c -> S] : \A s \in S : \E i \in 1..c : f[i] = s
  BY <1>1 DEF Bijection, Surjection
<1> HIDE DEF c
<1> DEFINE Best(k) == \E p \in S : \A i \in 1..k : f[i] = p \/ <<p, f[i]>> \in R
           N == {k \in 0..c : ~Best(k)}
<1>3. N = {}
  <2> SUFFICES ASSUME N # {} PROVE FALSE
    OBVIOUS
  <2>1. N \in SUBSET Nat
    BY <1>1
  <2>3. PICK k \in N : \A j \in N : k <= j
    <3> HIDE DEF N
    <3>1. QED
      BY <2>1, LeastNatural
  <2>4. k \in 0..c /\ ~Best(k)
    OBVIOUS
  <2>5. k # 0
    BY <2>4
  <2>6. k - 1 \in 0..c /\ k \in 1..c /\ ~(k <= k - 1)
    BY <1>1, <2>4, <2>5
  <2>7. Best(k - 1)
    BY <2>3, <2>6
  <2> HIDE DEF N
  <2>8. PICK p \in S : \A i \in 1..(k - 1) : f[i] = p \/ <<p, f[i]>> \in R
    BY <2>7
  <2>9. f[k] \in S /\ \A i \in 1..k : i = k \/ i \in 1..(k - 1)
    BY <1>1, <1>2, <2>6
  <2>10. CASE f[k] = p \/ <<p, f[k]>> \in R
    <3>1. \A i \in 1..k : f[i] = p \/ <<p, f[i]>> \in R
      BY <2>8, <2>9, <2>10
    <3>2. QED
      BY <2>4, <3>1
  <2>11. CASE <<f[k], p>> \in R
    <3>1. \A i \in 1..(k - 1) : f[i] \in S
      BY <1>1, <1>2, <2>6
    <3>2. \A i \in 1..k : f[i] = f[k] \/ <<f[k], f[i]>> \in R
      BY <2>8, <2>9, <2>11, <3>1
    <3>3. QED
      BY <2>4, <2>9, <3>2
  <2>12. QED
    BY <2>8, <2>9, <2>10, <2>11
<1>4. Best(c)
  <2>1. c \in 0..c
    BY <1>1
  <2> HIDE DEF Best
  <2>2. QED
    BY <1>3, <2>1
<1>5. QED
  BY <1>2, <1>4

-----------------------------------------------------------------------------
(* The override table.                                                       *)

\* Held positions are routed, and any two of them were pressed one after the other.
TableOK ==
  /\ DOMAIN route \subseteq Callers /\ IsFiniteSet(DOMAIN route)
  /\ \A p \in DOMAIN route : route[p] \in Pipelines
  /\ \A p, q \in DOMAIN route : p # q => <<p, q>> \in newer \/ <<q, p>> \in newer
  /\ \A p, q, r \in DOMAIN route :
       <<p, q>> \in newer /\ <<q, r>> \in newer => p = r \/ <<p, r>> \in newer

\* What is selected is a pipeline, or none is.
LEMMA SelectedIs == ASSUME TableOK PROVE Table!Selected \in Pipelines \cup {NoPipeline}
<1>1. CASE DOMAIN route = {}
  BY <1>1 DEF Table!Selected, Table!Held
<1>2. CASE DOMAIN route # {}
  <2>1. \E p \in DOMAIN route : \A q \in DOMAIN route \ {p} : <<p, q>> \in newer
    BY <1>2, NewestExists DEF TableOK
  <2>2. \E p \in Table!Held : Table!Newest(p)
    BY <2>1 DEF Table!Held, Table!Newest
  <2>3. (CHOOSE p \in Table!Held : Table!Newest(p)) \in Table!Held
    BY <2>2
  <2>4. QED
    BY <1>2, <2>3 DEF Table!Selected, Table!Held, TableOK
<1>3. QED
  BY <1>1, <1>2

\* Nothing is held at first.
LEMMA TableInit == ASSUME Table!Init PROVE TableOK /\ Table!Selected = NoPipeline
<1>1. DOMAIN route = {}
  BY DEF Table!Init
<1>2. IsFiniteSet({})
  BY FS_EmptySet
<1>3. QED
  BY <1>1, <1>2 DEF TableOK, Table!Selected, Table!Held

\* The position that is pressed becomes the newest.
LEMMA TablePress ==
  ASSUME TableOK, NEW k \in Callers, NEW i \in Pipelines, Table!Press(k, i)
  PROVE  TableOK'
<1> DEFINE H == DOMAIN route
<1>1. /\ route' = [q \in H \cup {k} |-> IF q = k THEN i ELSE route[q]]
      /\ newer' = {e \in newer : e[1] # k /\ e[2] # k} \cup ({k} \X (H \ {k}))
  BY DEF Table!Press, Table!Held
<1>2. DOMAIN route' = H \cup {k}
  BY <1>1
<1>3. IsFiniteSet(H \cup {k}) /\ H \cup {k} \subseteq Callers
  BY FS_AddElement DEF TableOK
<1>4. \A p \in H \cup {k} : route'[p] \in Pipelines
  BY <1>1 DEF TableOK
<1>5. \A p, q \in H : p # k /\ q # k => (<<p, q>> \in newer' <=> <<p, q>> \in newer)
  BY <1>1
<1>6. \A q \in H : q # k => <<k, q>> \in newer' /\ <<q, k>> \notin newer'
  BY <1>1
<1>7. <<k, k>> \notin newer'
  BY <1>1
<1>8. \A p, q \in H \cup {k} : p # q => <<p, q>> \in newer' \/ <<q, p>> \in newer'
  BY <1>5, <1>6 DEF TableOK
<1>9. ASSUME NEW p \in H \cup {k}, NEW q \in H \cup {k}, NEW r \in H \cup {k},
             <<p, q>> \in newer', <<q, r>> \in newer'
      PROVE  p = r \/ <<p, r>> \in newer'
  <2>1. CASE r = k \/ q = k
    BY <1>6, <1>7, <1>9, <2>1
  <2>2. CASE r # k /\ q # k /\ p = k
    BY <1>6, <2>2
  <2>3. CASE r # k /\ q # k /\ p # k
    BY <1>5, <1>9, <2>3 DEF TableOK
  <2>4. QED
    BY <2>1, <2>2, <2>3
<1> HIDE DEF H
<1>10. QED
  BY <1>2, <1>3, <1>4, <1>8, <1>9 DEF TableOK

\* The order of the other positions survives a release.
LEMMA TableRelease ==
  ASSUME TableOK, NEW k \in Callers, Table!Release(k)
  PROVE  TableOK'
<1> DEFINE H == DOMAIN route \ {k}
<1>1. /\ route' = [q \in H |-> route[q]]
      /\ newer' = {e \in newer : e[1] # k /\ e[2] # k}
  BY DEF Table!Release, Table!Held
<1>2. DOMAIN route' = H /\ IsFiniteSet(H) /\ H \subseteq Callers
  BY <1>1, FS_RemoveElement DEF TableOK
<1>3. \A p \in H : route'[p] \in Pipelines
  BY <1>1 DEF TableOK
<1>4. \A p, q \in H : <<p, q>> \in newer' <=> <<p, q>> \in newer
  BY <1>1
<1>5. \A p \in H : p \in DOMAIN route
  OBVIOUS
<1> HIDE DEF H
<1>6. QED
  BY <1>2, <1>3, <1>4, <1>5 DEF TableOK

-----------------------------------------------------------------------------
(* The core router.                                                          *)

Deadlines == Int \cup {NoDeadline}

\* How far back a pending deadline may lie.
Low == -(MaxLag + MaxLate)

\* The core router is well typed and no pending deadline lies further back than Low.
CoreOK ==
  /\ Core!TypeOK
  /\ \A p \in Pipelines, s \in Stages : deadline[p][s] # NoDeadline => Low <= deadline[p][s]

\* A reset pipeline has no deadline.
LEMMA ResetIs ==
  Core!Reset \in [Stages -> Deadlines] /\ \A s \in Stages : Core!Reset[s] = NoDeadline
BY DEF Core!Reset, Deadlines

\* Pipelines that are left or entered are reset, the others stay as they were.
LEMMA SwitchKeeps ==
  ASSUME CoreOK, NEW l, NEW e, Core!Switch(l, e)
  PROVE  /\ running' \in [Pipelines -> BOOLEAN]
         /\ deadline' \in [Pipelines -> [Stages -> Deadlines]]
         /\ \A p \in Pipelines, s \in Stages : deadline'[p][s] # NoDeadline => Low <= deadline'[p][s]
<1>1. /\ running' = [p \in Pipelines |-> p = e \/ (p # l /\ running[p])]
      /\ deadline' = [p \in Pipelines |-> IF p \in {l, e} THEN Core!Reset ELSE deadline[p]]
  BY DEF Core!Switch
<1>2. /\ running \in [Pipelines -> BOOLEAN]
      /\ deadline \in [Pipelines -> [Stages -> Deadlines]]
  BY DEF CoreOK, Core!TypeOK, Deadlines
<1>3. running' \in [Pipelines -> BOOLEAN]
  BY <1>1, <1>2
<1>4. \A p \in Pipelines :
        deadline'[p] \in [Stages -> Deadlines] /\ (deadline'[p] = Core!Reset \/ deadline'[p] = deadline[p])
  BY <1>1, <1>2, ResetIs
<1>5. QED
  BY <1>1, <1>3, <1>4, ResetIs DEF CoreOK

\* A switch ends on the pipeline that was asked for, or was refused.
LEMMA SelectKeeps ==
  ASSUME CoreOK, NEW i \in Pipelines, Core!Select(i)
  PROVE  CoreOK' /\ (index' = i \/ outcome' = "refused")
<1>1. /\ up' = up /\ up \in BOOLEAN /\ index \in Pipelines \cup {NoPipeline}
      /\ running \in [Pipelines -> BOOLEAN] /\ deadline \in [Pipelines -> [Stages -> Deadlines]]
  BY DEF Core!Select, CoreOK, Core!TypeOK, Deadlines
<1>2. CASE index = i /\ outcome' = "ok" /\ UNCHANGED <<index, running, deadline>>
  BY <1>1, <1>2 DEF CoreOK, Core!TypeOK, Deadlines
<1>3. CASE /\ \E e : Core!Switch(index, e)
           /\ \/ index' = i /\ outcome' \in {"ok", "left_with_error"}
              \/ index' \in {index, NoPipeline} /\ outcome' = "refused"
  <2>1. /\ running' \in [Pipelines -> BOOLEAN]
        /\ deadline' \in [Pipelines -> [Stages -> Deadlines]]
        /\ \A p \in Pipelines, s \in Stages : deadline'[p][s] # NoDeadline => Low <= deadline'[p][s]
    BY <1>3, SwitchKeeps
  <2>2. QED
    BY <1>1, <1>3, <2>1 DEF CoreOK, Core!TypeOK, Deadlines
<1>4. QED
  BY <1>2, <1>3 DEF Core!Select, Core!LeaveOutcomes

\* What a push or a flush sets anew lies after the time it was given.
LEMMA RearmKeeps ==
  ASSUME CoreOK, NEW t \in -MaxLag..0, NEW kept, Core!Rearm(kept, t)
  PROVE  /\ deadline' \in [Pipelines -> [Stages -> Deadlines]]
         /\ \A p \in Pipelines, s \in Stages : deadline'[p][s] # NoDeadline => Low <= deadline'[p][s]
<1>1. PICK f \in [Stages \ kept -> {NoDeadline} \cup {t + d : d \in Intervals}] :
        deadline' = [deadline EXCEPT ![index] =
          [s \in Stages |-> IF s \in kept THEN deadline[index][s] ELSE f[s]]]
  BY DEF Core!Rearm
<1>2. MaxLag \in Nat /\ MaxLate \in Nat /\ Intervals \subseteq Nat \ {0} /\ NoDeadline \notin Int
  BY ZmkRouterAssumption
<1>3. \A d \in Intervals : t + d \in Int /\ Low <= t + d
  BY <1>2 DEF Low
<1>4. \A s \in Stages \ kept : f[s] \in Deadlines /\ (f[s] # NoDeadline => Low <= f[s])
  BY <1>3 DEF Deadlines
<1>5. deadline \in [Pipelines -> [Stages -> Deadlines]]
  BY DEF CoreOK, Core!TypeOK, Deadlines
<1>6. CASE index \in Pipelines
  <2> DEFINE g == [s \in Stages |-> IF s \in kept THEN deadline[index][s] ELSE f[s]]
  <2>1. g \in [Stages -> Deadlines]
    BY <1>4, <1>5, <1>6
  <2>2. \A s \in Stages : g[s] # NoDeadline => Low <= g[s]
    BY <1>4, <1>6 DEF CoreOK
  <2>3. deadline' = [deadline EXCEPT ![index] = g]
    BY <1>1
  <2> HIDE DEF g
  <2>4. QED
    BY <1>5, <2>1, <2>2, <2>3 DEF CoreOK
<1>7. CASE index \notin Pipelines
  <2>1. deadline' = deadline
    BY <1>1, <1>5, <1>7
  <2>2. QED
    BY <1>5, <2>1 DEF CoreOK
<1>8. QED
  BY <1>6, <1>7

\* A push or a flush stays on its pipeline.
LEMMA PushKeeps ==
  ASSUME CoreOK, NEW t \in -MaxLag..0, Core!Push(t) \/ Core!Flush(t) \/ Core!NotRouted
  PROVE  CoreOK' /\ UNCHANGED <<up, index>>
<1>1. /\ UNCHANGED <<up, index, running>> /\ outcome' \in {"ok", "error", "no_pipeline"}
      /\ deadline' = deadline \/ \E kept : Core!Rearm(kept, t)
  BY DEF Core!Push, Core!Flush, Core!NotRouted
<1>2. CASE deadline' = deadline
  BY <1>1, <1>2 DEF CoreOK, Core!TypeOK
<1>3. CASE \E kept : Core!Rearm(kept, t)
  BY <1>1, <1>3, RearmKeeps DEF CoreOK, Core!TypeOK, Deadlines
<1>4. QED
  BY <1>1, <1>2, <1>3

LEMMA CoreStays == ASSUME CoreOK, UNCHANGED core PROVE CoreOK' /\ UNCHANGED <<up, index>>
BY DEF CoreOK, Core!TypeOK, core

\* Time passes for every deadline alike.
LEMMA TickKeeps ==
  ASSUME CoreOK, Tick
  PROVE  /\ CoreOK' /\ UNCHANGED <<up, index>>
         /\ deadline' = [p \in Pipelines |-> [s \in Stages |-> Earlier(deadline[p][s])]]
<1>1. /\ UNCHANGED <<up, index, running, outcome>>
      /\ \A p \in Pipelines, s \in Stages : deadline[p][s] # NoDeadline => deadline[p][s] > -MaxLate
      /\ deadline' = [p \in Pipelines |-> [s \in Stages |-> Earlier(deadline[p][s])]]
  BY DEF Tick
<1>2. MaxLag \in Nat /\ MaxLate \in Nat /\ NoDeadline \notin Int
  BY ZmkRouterAssumption
<1>3. \A p \in Pipelines, s \in Stages : deadline[p][s] \in Deadlines
  BY DEF CoreOK, Core!TypeOK, Deadlines
<1>4. \A p \in Pipelines, s \in Stages :
        Earlier(deadline[p][s]) \in Deadlines
          /\ (Earlier(deadline[p][s]) # NoDeadline => Low <= Earlier(deadline[p][s]))
  BY <1>1, <1>2, <1>3 DEF Earlier, Deadlines, Low
<1>5. deadline' \in [Pipelines -> [Stages -> Deadlines]]
  BY <1>1, <1>4
<1>6. \A p \in Pipelines, s \in Stages : deadline'[p][s] # NoDeadline => Low <= deadline'[p][s]
  BY <1>1, <1>4
<1>7. QED
  BY <1>1, <1>5, <1>6 DEF CoreOK, Core!TypeOK, Deadlines

-----------------------------------------------------------------------------
(* The threads.                                                              *)

Places == {"idle", "route", "scan", "exec", "update"}
Asks == [op : {"refresh", "press", "release"}, pipeline : Pipelines \cup {NoPipeline}]

\* Locks, places and what the threads remember; a scan stays on or above the default layer.
ThreadsOK ==
  /\ layers \subseteq Layers
  /\ routeLock \in Callers \cup {Nobody} /\ execLock \in Threads \cup {Nobody}
  /\ pc \in [Threads -> Places]
  /\ now \in [Threads -> -MaxLag..0]
  /\ ask \in [Callers -> Asks]
  /\ look \in [Callers -> DefaultLayer..TopLayer]
  /\ goal \in [Callers -> Pipelines]
  /\ work \in [at : Deadlines, queued : BOOLEAN]
  /\ refused \in BOOLEAN

\* A scan begins at the top, and a press names a pipeline.
AskedOK ==
  \A k \in Callers :
    /\ pc[k] \in {"idle", "route"} => look[k] = TopLayer
    /\ ask[k].op = "press" => ask[k].pipeline \in Pipelines

Typed == TableOK /\ CoreOK /\ ThreadsOK /\ AskedOK

\* What the assumption on the constants says, as the steps below need it.
LEMMA ConstantsAre ==
  /\ Callers \subseteq Threads /\ Work \in Threads /\ Input \in Threads /\ Work \notin Callers
  /\ Input \notin Callers /\ Nobody \notin Threads /\ Nobody \notin Callers
  /\ 0 \in -MaxLag..0 /\ TopLayer \in DefaultLayer..TopLayer
  /\ DefaultLayer \in Int /\ TopLayer \in Int /\ 0 <= DefaultLayer
  /\ DefaultPipeline \in Pipelines /\ NoPipeline \notin Pipelines
  /\ NoDeadline \notin Int
  /\ DefaultLayer..TopLayer \subseteq Layers
BY ZmkRouterAssumption DEF Threads, Layers

LEMMA TypedInit == ASSUME Init PROVE Typed
<1> USE ConstantsAre
<1>1. TableOK
  BY TableInit DEF Init
<1>2. InitialPipeline \in Pipelines
  BY ZmkRouterAssumption DEF InitialPipeline
<1>3. CoreOK
  <2>1. running \in [Pipelines -> BOOLEAN]
    BY DEF Init
  <2>2. /\ deadline \in [Pipelines -> [Stages -> Deadlines]]
        /\ \A p \in Pipelines, s \in Stages : deadline[p][s] = NoDeadline
    BY ResetIs DEF Init
  <2>3. up \in BOOLEAN /\ index \in Pipelines /\ outcome = "ok"
    BY <1>2 DEF Init
  <2>4. QED
    BY <2>1, <2>2, <2>3 DEF CoreOK, Core!TypeOK, Deadlines
<1>4. NoAsk \in Asks /\ NoAsk.op = "refresh"
  BY DEF NoAsk, Asks
<1>5. ThreadsOK
  <2>1. work \in [at : Deadlines, queued : BOOLEAN] /\ refused \in BOOLEAN
    BY DEF Init, Deadlines
  <2>2. QED
    BY <1>4, <2>1 DEF Init, ThreadsOK, Places
<1>6. AskedOK
  BY <1>4 DEF Init, AskedOK
<1>7. QED
  BY <1>1, <1>3, <1>5, <1>6 DEF Typed

\* Leaving keeps the types, and touches what others are doing nowhere.
LEMMA LeaveKeeps ==
  ASSUME ThreadsOK, AskedOK, NEW t \in Threads, Leave(t)
  PROVE  /\ pc' \in [Threads -> Places] /\ now' \in [Threads -> -MaxLag..0]
         /\ ask' \in [Callers -> Asks] /\ look' \in [Callers -> DefaultLayer..TopLayer]
         /\ goal' \in [Callers -> Pipelines] /\ AskedOK'
<1> USE ConstantsAre
<1>1. NoAsk \in Asks /\ NoAsk.op = "refresh"
  BY DEF NoAsk, Asks
<1>2. /\ pc' = [pc EXCEPT ![t] = "idle"] /\ now' = [now EXCEPT ![t] = 0]
      /\ ask' = [k \in Callers |-> IF k = t THEN NoAsk ELSE ask[k]]
      /\ look' = [k \in Callers |-> IF k = t THEN TopLayer ELSE look[k]]
      /\ goal' = [k \in Callers |-> IF k = t THEN DefaultPipeline ELSE goal[k]]
  BY DEF Leave
<1>3. pc' \in [Threads -> Places] /\ now' \in [Threads -> -MaxLag..0]
  BY <1>2 DEF ThreadsOK, Places
<1>4. /\ ask' \in [Callers -> Asks] /\ look' \in [Callers -> DefaultLayer..TopLayer]
      /\ goal' \in [Callers -> Pipelines]
  BY <1>1, <1>2 DEF ThreadsOK
<1>5. AskedOK'
  BY <1>1, <1>2 DEF ThreadsOK, AskedOK
<1>6. QED
  BY <1>3, <1>4, <1>5

\* A step that moves one thread and changes nothing of what callers want.
LEMMA MovesKeeps ==
  ASSUME ThreadsOK, AskedOK, NEW t \in Threads, NEW place \in {"scan", "exec", "update"},
         pc' = [pc EXCEPT ![t] = place], UNCHANGED <<ask, look>>
  PROVE  pc' \in [Threads -> Places] /\ AskedOK'
<1>1. pc' \in [Threads -> Places]
  BY DEF ThreadsOK, Places
<1>2. \A k \in Callers : pc'[k] \in {"idle", "route"} => pc[k] \in {"idle", "route"}
  BY ConstantsAre DEF ThreadsOK
<1>3. QED
  BY <1>1, <1>2 DEF AskedOK

-----------------------------------------------------------------------------
(* The next deadline.                                                        *)

\* The earliest of a pipeline's deadlines.
Pending(D) == {s \in Stages : D[s] # NoDeadline}
EarliestOf(D, W) ==
  IF W = {} THEN NoDeadline ELSE CHOOSE t \in {D[s] : s \in W} : \A s \in W : t <= D[s]
Soonest(D) == EarliestOf(D, Pending(D))

\* The earliest deadline of a pipeline is one of its deadlines and none is earlier.
LEMMA SoonestIs ==
  ASSUME NEW D \in [Stages -> Deadlines], \A s \in Stages : D[s] # NoDeadline => Low <= D[s]
  PROVE  \/ Soonest(D) = NoDeadline /\ \A s \in Stages : D[s] = NoDeadline
         \/ /\ Soonest(D) \in Int
            /\ \E s \in Stages : D[s] = Soonest(D)
            /\ \A s \in Stages : D[s] # NoDeadline => Soonest(D) <= D[s]
<1> DEFINE W == {s \in Stages : D[s] # NoDeadline}
           T == {D[s] : s \in W}
<1>1. CASE W = {}
  BY <1>1 DEF Soonest, EarliestOf, Pending
<1>2. CASE W # {}
  <2>1. T \subseteq Int /\ T # {} /\ \A t \in T : Low <= t
    BY <1>2 DEF Deadlines
  <2>2. Low \in Int
    BY ZmkRouterAssumption DEF Low
  <2>3. \E t \in T : \A u \in T : t <= u
    <3> HIDE DEF T
    <3>1. QED
      BY <2>1, <2>2, LeastExists
  <2>4. \E t \in T : \A s \in W : t <= D[s]
    BY <2>3
  <2>5. Soonest(D) = CHOOSE t \in T : \A s \in W : t <= D[s]
    BY <1>2 DEF Soonest, EarliestOf, Pending
  <2>6. Soonest(D) \in T /\ \A s \in W : Soonest(D) <= D[s]
    <3> HIDE DEF T, W
    <3>1. QED
      BY <2>4, <2>5
  <2>7. QED
    BY <2>1, <2>6
<1>3. QED
  BY <1>1, <1>2

\* If every deadline moves by one so does the earliest.
LEMMA SoonestShifts ==
  ASSUME NEW D \in [Stages -> Deadlines], \A s \in Stages : D[s] # NoDeadline => Low <= D[s],
         NEW E \in [Stages -> Deadlines], \A s \in Stages : E[s] # NoDeadline => Low <= E[s],
         \A s \in Stages : E[s] = Earlier(D[s])
  PROVE  Soonest(E) = Earlier(Soonest(D))
<1>1. NoDeadline \notin Int
  BY ConstantsAre
<1>2. \A s \in Stages : \/ D[s] = NoDeadline /\ E[s] = NoDeadline
                        \/ D[s] \in Int /\ E[s] \in Int /\ E[s] = D[s] - 1
  BY <1>1 DEF Earlier, Deadlines
<1>3. CASE \A s \in Stages : D[s] = NoDeadline
  <2>1. \A s \in Stages : E[s] = NoDeadline
    BY <1>1, <1>2, <1>3
  <2>2. Soonest(D) = NoDeadline /\ Soonest(E) = NoDeadline
    BY <1>1, <1>3, <2>1, SoonestIs
  <2>3. QED
    BY <2>2 DEF Earlier
<1>4. CASE \E s \in Stages : D[s] # NoDeadline
  <2>1. \E s \in Stages : E[s] # NoDeadline
    BY <1>1, <1>2, <1>4
  <2>2. PICK d \in Stages : D[d] = Soonest(D)
    BY <1>4, SoonestIs
  <2>3. PICK e \in Stages : E[e] = Soonest(E)
    BY <2>1, SoonestIs
  <2>4. /\ Soonest(D) \in Int /\ Soonest(E) \in Int
        /\ \A s \in Stages : D[s] # NoDeadline => Soonest(D) <= D[s]
        /\ \A s \in Stages : E[s] # NoDeadline => Soonest(E) <= E[s]
    BY <1>4, <2>1, SoonestIs
  <2>5. Soonest(E) = D[e] - 1 /\ D[e] \in Int /\ E[d] = Soonest(D) - 1 /\ E[d] \in Int
    BY <1>1, <1>2, <2>2, <2>3, <2>4
  <2>6. Soonest(D) <= D[e] /\ Soonest(E) <= E[d]
    BY <1>1, <2>4, <2>5
  <2>7. Soonest(E) = Soonest(D) - 1
    BY <2>4, <2>5, <2>6
  <2>8. QED
    BY <1>1, <2>4, <2>7 DEF Earlier
<1>5. QED
  BY <1>3, <1>4

LEMMA NextDeadlineIs ==
  Core!NextDeadline = IF up /\ index # NoPipeline THEN Soonest(deadline[index]) ELSE NoDeadline
<1>1. Core!NextDeadline = EarliestOf(deadline[index], Core!Waiting)
  BY Zenon DEF Core!NextDeadline, EarliestOf
<1>2. CASE up /\ index # NoPipeline
  <2>1. Core!Waiting = Pending(deadline[index])
    BY <1>2 DEF Core!Waiting, Core!Routed, Pending
  <2>2. QED
    BY <1>1, <1>2, <2>1 DEF Soonest
<1>3. CASE ~(up /\ index # NoPipeline)
  <2>1. Core!Waiting = {}
    BY <1>3, Zenon DEF Core!Waiting, Core!Routed
  <2>2. QED
    BY <1>1, <1>3, <2>1 DEF EarliestOf
<1>4. QED
  BY <1>2, <1>3

LEMMA NextDeadlineType == ASSUME CoreOK PROVE Core!NextDeadline \in Deadlines
<1>1. CASE up /\ index # NoPipeline
  <2>1. index \in Pipelines
    BY <1>1 DEF CoreOK, Core!TypeOK
  <2>2. deadline[index] \in [Stages -> Deadlines]
    BY <2>1 DEF CoreOK, Core!TypeOK, Deadlines
  <2>3. Soonest(deadline[index]) \in Deadlines
    BY <2>1, <2>2, SoonestIs DEF CoreOK, Deadlines
  <2>4. QED
    BY <1>1, <2>3, NextDeadlineIs
<1>2. CASE ~(up /\ index # NoPipeline)
  BY <1>2, NextDeadlineIs DEF Deadlines
<1>3. QED
  BY <1>1, <1>2

\* The router's next deadline moves with the clock, as its stages' do.
LEMMA NextDeadlineTicks == ASSUME CoreOK, Tick PROVE Core!NextDeadline' = Earlier(Core!NextDeadline)
<1>1. /\ CoreOK' /\ UNCHANGED <<up, index>>
      /\ deadline' = [p \in Pipelines |-> [s \in Stages |-> Earlier(deadline[p][s])]]
  BY TickKeeps
<1>2. Core!NextDeadline' = IF up' /\ index' # NoPipeline THEN Soonest(deadline'[index']) ELSE NoDeadline
  <2>1. Core!NextDeadline' = EarliestOf(deadline'[index'], Core!Waiting')
    BY Zenon DEF Core!NextDeadline, EarliestOf
  <2>2. CASE up' /\ index' # NoPipeline
    <3>1. Core!Waiting' = Pending(deadline'[index'])
      BY <2>2 DEF Core!Waiting, Core!Routed, Pending
    <3>2. QED
      BY <2>1, <2>2, <3>1 DEF Soonest
  <2>3. CASE ~(up' /\ index' # NoPipeline)
    <3>1. Core!Waiting' = {}
      BY <2>3, Zenon DEF Core!Waiting, Core!Routed
    <3>2. QED
      BY <2>1, <2>3, <3>1 DEF EarliestOf
  <2>4. QED
    BY <2>2, <2>3
<1>3. CASE up /\ index # NoPipeline
  <2>1. index \in Pipelines /\ index' = index
    BY <1>1, <1>3 DEF CoreOK, Core!TypeOK
  <2>2. /\ deadline[index] \in [Stages -> Deadlines]
        /\ \A s \in Stages : deadline[index][s] # NoDeadline => Low <= deadline[index][s]
    BY <2>1 DEF CoreOK, Core!TypeOK, Deadlines
  <2>3. /\ deadline'[index] \in [Stages -> Deadlines]
        /\ \A s \in Stages : deadline'[index][s] # NoDeadline => Low <= deadline'[index][s]
    BY <1>1, <2>1 DEF CoreOK, Core!TypeOK, Deadlines
  <2>4. \A s \in Stages : deadline'[index][s] = Earlier(deadline[index][s])
    BY <1>1, <2>1
  <2>5. Soonest(deadline'[index]) = Earlier(Soonest(deadline[index]))
    BY <2>2, <2>3, <2>4, SoonestShifts
  <2>6. QED
    BY <1>1, <1>2, <1>3, <2>1, <2>5, NextDeadlineIs
<1>4. CASE ~(up /\ index # NoPipeline)
  BY <1>1, <1>2, <1>4, NextDeadlineIs DEF Earlier
<1>5. QED
  BY <1>3, <1>4

-----------------------------------------------------------------------------
(* Every step keeps the types.                                               *)

LEMMA TableStays == ASSUME TableOK, UNCHANGED table PROVE TableOK' /\ Table!Selected' = Table!Selected
BY DEF TableOK, table, Table!Selected, Table!Held, Table!Newest

\* The timer is set to a number or cancelled.
LEMMA RescheduledType ==
  ASSUME Typed, NEW t \in Threads
  PROVE  Rescheduled(now[t]) \in [at : Deadlines, queued : BOOLEAN]
<1>1. /\ now[t] \in Int /\ work \in [at : Deadlines, queued : BOOLEAN]
      /\ Core!NextDeadline \in Deadlines
  BY NextDeadlineType, ZmkRouterAssumption DEF Typed, ThreadsOK
<1>2. CASE Core!NextDeadline = NoDeadline
  BY <1>2 DEF Rescheduled, Deadlines
<1>3. CASE Core!NextDeadline # NoDeadline /\ Core!NextDeadline <= now[t]
  BY <1>3 DEF Rescheduled, Deadlines
<1>4. CASE Core!NextDeadline # NoDeadline /\ ~(Core!NextDeadline <= now[t])
  <2>1. Core!NextDeadline - now[t] \in Deadlines
    BY <1>1, <1>4 DEF Deadlines
  <2>2. Rescheduled(now[t]) = [work EXCEPT !.at = Core!NextDeadline - now[t]]
    BY <1>4 DEF Rescheduled
  <2>3. QED
    BY <1>1, <2>1, <2>2
<1>5. QED
  BY <1>2, <1>3, <1>4

LEMMA UpdateTyped == ASSUME Typed, NEW t \in Threads, Update(t) PROVE Typed'
<1> USE ConstantsAre
<1>1. /\ work' = Rescheduled(now[t]) /\ execLock' = Nobody
      /\ routeLock' = IF t \in Callers THEN Nobody ELSE routeLock
      /\ Leave(t) /\ UNCHANGED <<layers, table, core, refused>>
  BY DEF Update
<1>2. TableOK' /\ CoreOK'
  BY <1>1, TableStays, CoreStays DEF Typed
<1>3. /\ pc' \in [Threads -> Places] /\ now' \in [Threads -> -MaxLag..0]
      /\ ask' \in [Callers -> Asks] /\ look' \in [Callers -> DefaultLayer..TopLayer]
      /\ goal' \in [Callers -> Pipelines] /\ AskedOK'
  BY <1>1, LeaveKeeps DEF Typed
<1>4. work' \in [at : Deadlines, queued : BOOLEAN]
  BY <1>1, RescheduledType
<1>5. routeLock' \in Callers \cup {Nobody} /\ execLock' \in Threads \cup {Nobody}
  BY <1>1 DEF Typed, ThreadsOK
<1>6. ThreadsOK'
  BY <1>1, <1>3, <1>4, <1>5 DEF Typed, ThreadsOK
<1>7. QED
  BY <1>2, <1>3, <1>6 DEF Typed

LEMMA WorkTyped == ASSUME Typed, Expire \/ Start PROVE Typed'
<1> USE ConstantsAre
<1>1. UNCHANGED <<layers, table, core, locks, now, mind, refused>>
  BY DEF Expire, Start
<1>2. TableOK' /\ CoreOK'
  BY <1>1, TableStays, CoreStays DEF Typed
<1>3. work' \in [at : Deadlines, queued : BOOLEAN]
  <2>1. CASE Expire
    BY <2>1 DEF Expire, Deadlines
  <2>2. CASE Start
    BY <2>2 DEF Start, Typed, ThreadsOK
  <2>3. QED
    BY <2>1, <2>2
<1>4. pc' = pc \/ pc' = [pc EXCEPT ![Work] = "exec"]
  BY DEF Expire, Start
<1>5. pc' \in [Threads -> Places] /\ AskedOK'
  <2>1. UNCHANGED <<ask, look>>
    BY <1>1 DEF mind
  <2>2. CASE pc' = pc
    BY <2>1, <2>2 DEF Typed, ThreadsOK, AskedOK
  <2>3. CASE pc' = [pc EXCEPT ![Work] = "exec"]
    BY <2>1, <2>3, MovesKeeps DEF Typed
  <2>4. QED
    BY <1>4, <2>2, <2>3
<1>6. ThreadsOK'
  BY <1>1, <1>3, <1>5 DEF Typed, ThreadsOK, mind, locks
<1>7. QED
  BY <1>2, <1>5, <1>6 DEF Typed

\* Whoever takes the executor's lock moves on to the work item.
LEMMA LockIs ==
  ASSUME NEW t \in Threads, Lock(t)
  PROVE  /\ pc[t] = "exec" /\ execLock' = t /\ execLock' # Nobody
         /\ pc' = [pc EXCEPT ![t] = "update"]
BY ConstantsAre DEF Lock

LEMMA FlushPushTyped == ASSUME Typed, Flush \/ Push PROVE Typed'
<1> USE ConstantsAre
<1>1. UNCHANGED <<layers, table, routeLock, mind, work, refused>>
  BY DEF Flush, Push
<1>2. TableOK'
  BY <1>1, TableStays DEF Typed
<1>3. CoreOK'
  <2>1. now[Work] \in -MaxLag..0 /\ now[Input] \in -MaxLag..0
    BY DEF Typed, ThreadsOK
  <2>2. QED
    BY <2>1, PushKeeps DEF Flush, Push, Typed
<1>4. PICK t \in Threads : execLock' = t /\ pc' = [pc EXCEPT ![t] = "update"]
  BY LockIs DEF Flush, Push
<1>5. pc' \in [Threads -> Places] /\ AskedOK'
  BY <1>1, <1>4, MovesKeeps DEF Typed, mind
<1>6. now' \in [Threads -> -MaxLag..0]
  BY DEF Flush, Push, Typed, ThreadsOK
<1>7. ThreadsOK'
  BY <1>1, <1>4, <1>5, <1>6 DEF Typed, ThreadsOK, mind
<1>8. QED
  BY <1>2, <1>3, <1>5, <1>7 DEF Typed

LEMMA FrameTyped == ASSUME Typed, Frame PROVE Typed'
<1> USE ConstantsAre
<1>1. /\ UNCHANGED <<layers, table, core, locks, now, mind, work, refused>>
      /\ pc' = [pc EXCEPT ![Input] = "exec"]
  BY DEF Frame
<1>2. TableOK' /\ CoreOK'
  BY <1>1, TableStays, CoreStays DEF Typed
<1>3. pc' \in [Threads -> Places] /\ AskedOK'
  BY <1>1, MovesKeeps DEF Typed, mind
<1>4. ThreadsOK'
  BY <1>1, <1>3 DEF Typed, ThreadsOK, mind, locks
<1>5. QED
  BY <1>2, <1>3, <1>4 DEF Typed

LEMMA CallTyped ==
  ASSUME Typed, NEW k \in Callers, NEW op \in {"refresh", "press", "release"},
         NEW i \in Pipelines \cup {NoPipeline}, op = "press" => i \in Pipelines,
         Call(k, op, i), layers' \subseteq Layers
  PROVE  Typed'
<1> USE ConstantsAre
<1>1. /\ pc[k] = "idle" /\ pc' = [pc EXCEPT ![k] = "route"]
      /\ ask' = [ask EXCEPT ![k] = [op |-> op, pipeline |-> i]]
      /\ UNCHANGED <<table, core, locks, now, look, goal, work, refused>>
  BY DEF Call
<1>2. TableOK' /\ CoreOK'
  BY <1>1, TableStays, CoreStays DEF Typed
<1>3. pc' \in [Threads -> Places]
  BY <1>1 DEF Typed, ThreadsOK, Places
<1>4. [op |-> op, pipeline |-> i] \in Asks
  BY DEF Asks
<1>5. ask' \in [Callers -> Asks]
  BY <1>1, <1>4 DEF Typed, ThreadsOK
<1>6. ThreadsOK'
  BY <1>1, <1>3, <1>5 DEF Typed, ThreadsOK, locks
<1>7. AskedOK'
  <2>1. /\ \A j \in Callers : j # k => pc'[j] = pc[j] /\ ask'[j] = ask[j]
        /\ pc'[k] = "route" /\ ask'[k].op = op /\ ask'[k].pipeline = i
    BY <1>1 DEF Typed, ThreadsOK
  <2>2. look[k] = TopLayer
    BY <1>1 DEF Typed, AskedOK
  <2>3. QED
    BY <1>1, <2>1, <2>2 DEF Typed, AskedOK
<1>8. QED
  BY <1>2, <1>6, <1>7 DEF Typed

LEMMA ToggleTyped ==
  ASSUME Typed, NEW k \in Callers, NEW l \in Layers, ToggleLayer(k, l)
  PROVE  Typed'
<1>1. layers' \subseteq Layers
  BY DEF ToggleLayer, Typed, ThreadsOK
<1>2. CASE DOMAIN LayerRoute = {}
  <2>1. UNCHANGED <<table, core, locks, pc, now, mind, work, refused>>
    BY <1>2 DEF ToggleLayer
  <2>2. TableOK' /\ CoreOK'
    BY <2>1, TableStays, CoreStays DEF Typed
  <2>3. ThreadsOK' /\ AskedOK'
    BY <1>1, <2>1 DEF Typed, ThreadsOK, AskedOK, locks, mind
  <2>4. QED
    BY <2>2, <2>3 DEF Typed
<1>3. CASE DOMAIN LayerRoute # {}
  <2>1. Call(k, "refresh", NoPipeline)
    BY <1>3 DEF ToggleLayer
  <2>2. QED
    BY <1>1, <2>1, CallTyped
<1>4. QED
  BY <1>2, <1>3

LEMMA KeyTyped ==
  ASSUME Typed, NEW k \in Callers, ReleaseKey(k) \/ \E i \in Pipelines : PressKey(k, i)
  PROVE  Typed'
<1>1. layers' \subseteq Layers
  BY DEF ReleaseKey, PressKey, Typed, ThreadsOK
<1>2. CASE ReleaseKey(k)
  BY <1>1, <1>2, CallTyped DEF ReleaseKey
<1>3. ASSUME NEW i \in Pipelines, PressKey(k, i) PROVE Typed'
  BY <1>1, <1>3, CallTyped DEF PressKey
<1>4. QED
  BY <1>2, <1>3

\* What deciding does, with the table as it is after the step.
LEMMA DecideKeeps ==
  ASSUME ThreadsOK, AskedOK, TableOK', NEW k \in Callers, Decide(k),
         Table!Selected' \in Pipelines \cup {NoPipeline}
  PROVE  /\ routeLock' \in Callers \cup {Nobody}
         /\ pc' \in [Threads -> Places] /\ now' \in [Threads -> -MaxLag..0]
         /\ ask' \in [Callers -> Asks] /\ look' \in [Callers -> DefaultLayer..TopLayer]
         /\ goal' \in [Callers -> Pipelines] /\ AskedOK'
<1> USE ConstantsAre
<1>1. UNCHANGED <<now, ask, look>> /\ routeLock' = k
  BY DEF Decide
<1>2. \E place \in {"scan", "exec", "update"} : pc' = [pc EXCEPT ![k] = place]
  BY DEF Decide
<1>3. pc' \in [Threads -> Places] /\ AskedOK'
  BY <1>1, <1>2, MovesKeeps
<1>4. goal' \in [Callers -> Pipelines]
  <2>1. CASE /\ Table!Selected' # NoPipeline
             /\ goal' = [goal EXCEPT ![k] = Table!Selected']
    BY <2>1 DEF ThreadsOK
  <2>2. CASE UNCHANGED goal
    BY <2>2 DEF ThreadsOK
  <2>3. QED
    BY <2>1, <2>2 DEF Decide
<1>5. QED
  BY <1>1, <1>3, <1>4 DEF ThreadsOK

\* The same of the table after a step.
LEMMA SelectedNext == TableOK' => Table!Selected' \in Pipelines \cup {NoPipeline}
<1>1. TableOK => Table!Selected \in Pipelines \cup {NoPipeline}
  BY SelectedIs
<1>2. (TableOK => Table!Selected \in Pipelines \cup {NoPipeline})'
  BY <1>1, PTL
<1>3. QED
  BY <1>2

LEMMA RouteTyped == ASSUME Typed, NEW k \in Callers, Route(k) PROVE Typed'
<1> USE ConstantsAre
<1>1. pc[k] = "route" /\ routeLock = Nobody /\ UNCHANGED <<layers, core, execLock, work, refused>>
  BY DEF Route
<1>2. CoreOK'
  BY <1>1, CoreStays DEF Typed
<1>3. CASE Decide(k) /\ TableOK'
  <2>1. Table!Selected' \in Pipelines \cup {NoPipeline}
    BY <1>3, SelectedNext
  <2>2. /\ routeLock' \in Callers \cup {Nobody}
        /\ pc' \in [Threads -> Places] /\ now' \in [Threads -> -MaxLag..0]
        /\ ask' \in [Callers -> Asks] /\ look' \in [Callers -> DefaultLayer..TopLayer]
        /\ goal' \in [Callers -> Pipelines] /\ AskedOK'
    BY <1>3, <2>1, DecideKeeps DEF Typed
  <2>3. ThreadsOK'
    BY <1>1, <2>2 DEF Typed, ThreadsOK
  <2>4. QED
    BY <1>2, <1>3, <2>2, <2>3 DEF Typed
<1>4. CASE Table!Refuse(k) /\ Leave(k) /\ UNCHANGED routeLock
  <2>1. UNCHANGED <<route, newer>>
    BY <1>4 DEF Table!Refuse
  <2>2. TableOK'
    BY <2>1 DEF Typed, TableOK
  <2>3. /\ pc' \in [Threads -> Places] /\ now' \in [Threads -> -MaxLag..0]
        /\ ask' \in [Callers -> Asks] /\ look' \in [Callers -> DefaultLayer..TopLayer]
        /\ goal' \in [Callers -> Pipelines] /\ AskedOK'
    BY <1>4, LeaveKeeps DEF Typed
  <2>4. ThreadsOK'
    BY <1>1, <1>4, <2>3 DEF Typed, ThreadsOK
  <2>5. QED
    BY <1>2, <2>2, <2>3, <2>4 DEF Typed
<1>5. CASE ask[k].op = "refresh" /\ UNCHANGED table /\ Decide(k)
  BY <1>3, <1>5, TableStays DEF Typed
<1>6. CASE ask[k].op = "release" /\ Table!Release(k) /\ Decide(k)
  BY <1>3, <1>6, TableRelease DEF Typed
<1>7. CASE ask[k].op = "press" /\ Table!Press(k, ask[k].pipeline) /\ Decide(k)
  <2>1. ask[k].pipeline \in Pipelines
    BY <1>7 DEF Typed, AskedOK
  <2>2. QED
    BY <1>3, <1>7, <2>1, TablePress DEF Typed
<1>8. QED
  BY <1>4, <1>5, <1>6, <1>7 DEF Route

LEMMA ScanTyped == ASSUME Typed, NEW k \in Callers, ScanLayer(k) PROVE Typed'
<1> USE ConstantsAre
<1>1. pc[k] = "scan" /\ UNCHANGED <<layers, table, core, locks, now, ask, work, refused>>
  BY DEF ScanLayer
<1>2. TableOK' /\ CoreOK'
  BY <1>1, TableStays, CoreStays DEF Typed
<1>3. CASE /\ \E i \in Pipelines : goal' = [goal EXCEPT ![k] = i]
           /\ pc' = [pc EXCEPT ![k] = "exec"] /\ UNCHANGED look
  <2>1. pc' \in [Threads -> Places] /\ AskedOK'
    BY <1>1, <1>3, MovesKeeps DEF Typed
  <2>2. ThreadsOK'
    BY <1>1, <1>3, <2>1 DEF Typed, ThreadsOK, locks
  <2>3. QED
    BY <1>2, <2>1, <2>2 DEF Typed
<1>4. CASE look[k] # DefaultLayer /\ look' = [look EXCEPT ![k] = @ - 1] /\ UNCHANGED <<goal, pc>>
  <2>1. look[k] \in DefaultLayer..TopLayer
    BY DEF Typed, ThreadsOK
  <2>2. look[k] - 1 \in DefaultLayer..TopLayer
    BY <1>4, <2>1
  <2>3. look' \in [Callers -> DefaultLayer..TopLayer]
    BY <1>4, <2>2 DEF Typed, ThreadsOK
  <2>4. ThreadsOK'
    BY <1>1, <1>4, <2>3 DEF Typed, ThreadsOK, locks
  <2>5. \A j \in Callers : pc[j] \in {"idle", "route"} => look'[j] = look[j]
    BY <1>1, <1>4 DEF Typed, ThreadsOK
  <2>6. AskedOK'
    BY <1>1, <1>4, <2>5 DEF Typed, AskedOK
  <2>7. QED
    BY <1>2, <2>4, <2>6 DEF Typed
<1>5. CASE Routes(look[k]) /\ goal' = [goal EXCEPT ![k] = LayerRoute[look[k]]]
  <2>1. LayerRoute[look[k]] \in Pipelines
    BY <1>5, ZmkRouterAssumption DEF Routes
  <2>2. pc' = [pc EXCEPT ![k] = "exec"] /\ UNCHANGED look
    BY <1>5 DEF ScanLayer
  <2>3. QED
    BY <1>3, <1>5, <2>1, <2>2
<1>6. CASE ~Routes(look[k]) /\ look[k] = DefaultLayer
  BY <1>3, <1>6 DEF ScanLayer
<1>7. CASE ~Routes(look[k]) /\ look[k] # DefaultLayer
  BY <1>4, <1>7 DEF ScanLayer
<1>8. QED
  BY <1>5, <1>6, <1>7 DEF ScanLayer

LEMMA SelectTyped == ASSUME Typed, NEW k \in Callers, Select(k) PROVE Typed'
<1> USE ConstantsAre
<1>1. /\ Lock(k) /\ Core!Select(goal[k]) /\ refused' = (outcome' = "refused")
      /\ UNCHANGED <<layers, table, routeLock, now, mind, work>>
  BY DEF Select
<1>2. TableOK'
  BY <1>1, TableStays DEF Typed
<1>3. goal[k] \in Pipelines
  BY DEF Typed, ThreadsOK
<1>4. CoreOK'
  BY <1>1, <1>3, SelectKeeps DEF Typed
<1>5. execLock' = k /\ pc' = [pc EXCEPT ![k] = "update"]
  BY <1>1, LockIs
<1>6. pc' \in [Threads -> Places] /\ AskedOK'
  BY <1>1, <1>5, MovesKeeps DEF Typed, mind
<1>7. refused' \in BOOLEAN
  BY <1>1
<1>8. ThreadsOK'
  BY <1>1, <1>5, <1>6, <1>7 DEF Typed, ThreadsOK, mind
<1>9. QED
  BY <1>2, <1>4, <1>6, <1>8 DEF Typed

LEMMA TickTyped == ASSUME Typed, Tick PROVE Typed'
<1> USE ConstantsAre
<1>1. /\ \A t \in Threads : pc[t] # "idle" => now[t] > -MaxLag
      /\ now' = [t \in Threads |-> IF pc[t] = "idle" THEN 0 ELSE now[t] - 1]
      /\ work' = [work EXCEPT !.at = Earlier(@)]
      /\ UNCHANGED <<layers, table, locks, pc, mind, refused>>
  BY DEF Tick
<1>2. TableOK' /\ CoreOK'
  BY <1>1, TableStays, TickKeeps DEF Typed
<1>3. now' \in [Threads -> -MaxLag..0]
  <2>1. \A t \in Threads : now[t] \in -MaxLag..0
    BY DEF Typed, ThreadsOK
  <2>2. \A t \in Threads : (IF pc[t] = "idle" THEN 0 ELSE now[t] - 1) \in -MaxLag..0
    BY <1>1, <2>1, ZmkRouterAssumption
  <2>3. QED
    BY <1>1, <2>2
<1>4. work' \in [at : Deadlines, queued : BOOLEAN]
  <2>1. Earlier(work.at) \in Deadlines
    BY DEF Earlier, Typed, ThreadsOK, Deadlines
  <2>2. QED
    BY <1>1, <2>1 DEF Typed, ThreadsOK
<1>5. ThreadsOK'
  BY <1>1, <1>3, <1>4 DEF Typed, ThreadsOK, mind, locks
<1>6. AskedOK'
  BY <1>1 DEF Typed, AskedOK, mind
<1>7. QED
  BY <1>2, <1>5, <1>6 DEF Typed

LEMMA StutterTyped == ASSUME Typed, UNCHANGED vars PROVE Typed'
<1>1. TableOK' /\ CoreOK'
  BY TableStays, CoreStays DEF Typed, vars
<1>2. ThreadsOK' /\ AskedOK'
  BY DEF Typed, ThreadsOK, AskedOK, vars, locks, mind
<1>3. QED
  BY <1>1, <1>2 DEF Typed

LEMMA TypedNext == ASSUME Typed, [Next]_vars PROVE Typed'
<1>1. ASSUME NEW t \in Threads, Update(t) PROVE Typed'
  BY <1>1, UpdateTyped
<1>2. CASE Expire \/ Start
  BY <1>2, WorkTyped
<1>3. CASE Flush \/ Push
  BY <1>3, FlushPushTyped
<1>4. CASE Frame
  BY <1>4, FrameTyped
<1>5. ASSUME NEW k \in Callers, NEW l \in Layers, ToggleLayer(k, l) PROVE Typed'
  BY <1>5, ToggleTyped
<1>6. ASSUME NEW k \in Callers, ReleaseKey(k) \/ \E i \in Pipelines : PressKey(k, i)
      PROVE  Typed'
  BY <1>6, KeyTyped
<1>7. ASSUME NEW k \in Callers, Route(k) PROVE Typed'
  BY <1>7, RouteTyped
<1>8. ASSUME NEW k \in Callers, ScanLayer(k) PROVE Typed'
  BY <1>8, ScanTyped
<1>9. ASSUME NEW k \in Callers, Select(k) PROVE Typed'
  BY <1>9, SelectTyped
<1>10. CASE Tick
  BY <1>10, TickTyped
<1>11. CASE UNCHANGED vars
  BY <1>11, StutterTyped
<1>12. QED
  BY <1>1, <1>2, <1>3, <1>4, <1>5, <1>6, <1>7, <1>8, <1>9, <1>10, <1>11 DEF Next

LEMMA TypedAlways == Spec => []Typed
<1>1. Init => Typed
  BY TypedInit
<1>2. Typed /\ [Next]_vars => Typed'
  BY TypedNext
<1>3. QED
  BY <1>1, <1>2, PTL DEF Spec

\* Every value stays in its range: a captured time is at most MaxLag old, a
\* scan never runs below the default layer, and what a scan or an override
\* found is a pipeline of the router.
THEOREM TypeInvariant == Spec => []TypeOK
<1>1. Typed => TypeOK
  <2>1. ASSUME Typed PROVE TypeOK
    <3>1. look \in [Callers -> Layers]
      BY <2>1, ConstantsAre DEF Typed, ThreadsOK
    <3>2. QED
      BY <2>1, <3>1 DEF Typed, TableOK, CoreOK, ThreadsOK, TypeOK, Places, Asks, Deadlines
  <2>2. QED
    BY <2>1
<1>2. QED
  BY <1>1, TypedAlways, PTL

-----------------------------------------------------------------------------
(* The wake-up.                                                              *)

\* What the work item owes whoever finds the executor's lock free.
Covered == DeadlineCovered /\ NothingStray

\* A step that holds the lock afterwards owes nothing yet.
LEMMA HeldCovered == ASSUME execLock' # Nobody PROVE Covered'
BY DEF Covered, DeadlineCovered, NothingStray

LEMMA NextDeadlineStays == ASSUME UNCHANGED core PROVE Core!NextDeadline' = Core!NextDeadline
<1>1. up' = up /\ index' = index /\ deadline' = deadline
  BY DEF core
<1>2. Core!Waiting' = Core!Waiting
  BY <1>1 DEF Core!Waiting, Core!Routed
<1>3. QED
  BY <1>1, <1>2 DEF Core!NextDeadline

\* A step aside of the executor leaves what it owes as it was.
LEMMA AsideCovered ==
  ASSUME Covered, UNCHANGED <<core, execLock, work>>, pc'[Work] = pc[Work]
  PROVE  Covered'
<1>1. Core!NextDeadline' = Core!NextDeadline
  BY NextDeadlineStays
<1>2. QED
  BY <1>1 DEF Covered, DeadlineCovered, NothingStray

\* Rescheduling pays: the time it counts from lies at most MaxLag back.
LEMMA UpdateCovers == ASSUME Typed, NEW t \in Threads, Update(t) PROVE Covered'
<1> DEFINE next == Core!NextDeadline
           at == now[t]
<1>1. work' = Rescheduled(at) /\ UNCHANGED core
  BY DEF Update
<1>2. Core!NextDeadline' = next
  BY <1>1, NextDeadlineStays
<1>3. /\ next \in Deadlines /\ at \in -MaxLag..0 /\ MaxLag \in Nat /\ NoDeadline \notin Int
      /\ work \in [at : Deadlines, queued : BOOLEAN]
  BY NextDeadlineType, ZmkRouterAssumption DEF Typed, ThreadsOK
<1> HIDE DEF next, at
<1>4. CASE next = NoDeadline
  <2>1. work' = [at |-> NoDeadline, queued |-> FALSE]
    BY <1>1, <1>4 DEF Rescheduled, next
  <2>2. QED
    BY <1>2, <1>4, <2>1 DEF Covered, DeadlineCovered, NothingStray
<1>5. CASE next # NoDeadline /\ next <= at
  <2>1. work' = [at |-> NoDeadline, queued |-> TRUE]
    BY <1>1, <1>5 DEF Rescheduled, next
  <2>2. QED
    BY <1>2, <1>5, <2>1 DEF Covered, DeadlineCovered, NothingStray
<1>6. CASE next # NoDeadline /\ ~(next <= at)
  <2>1. work' = [work EXCEPT !.at = next - at]
    BY <1>1, <1>6 DEF Rescheduled, next
  <2>2. work'.at = next - at
    BY <1>3, <2>1
  <2>3. next - at \in Int /\ next - at \in next .. next + MaxLag
    BY <1>3, <1>6 DEF Deadlines
  <2>4. work'.at # NoDeadline /\ work'.at \in next .. next + MaxLag
    BY <1>3, <2>2, <2>3
  <2>5. QED
    BY <1>2, <1>6, <2>4 DEF Covered, DeadlineCovered, NothingStray
<1>7. QED
  BY <1>4, <1>5, <1>6

\* A timer that runs out leaves the item queued, and an item that starts is on its way to the lock.
LEMMA WorkCovers == ASSUME Typed, Covered, Expire \/ Start PROVE Covered'
<1>1. UNCHANGED <<core, locks>>
  BY DEF Expire, Start
<1>2. execLock' = execLock /\ Core!NextDeadline' = Core!NextDeadline
  BY <1>1, NextDeadlineStays DEF locks
<1>3. CASE Expire
  <2>1. work.at # NoDeadline /\ work' = [at |-> NoDeadline, queued |-> TRUE]
    BY <1>3 DEF Expire
  <2>2. execLock = Nobody => Core!NextDeadline # NoDeadline
    BY <2>1 DEF Covered, NothingStray
  <2>3. work'.queued
    BY <2>1
  <2>4. QED
    BY <1>2, <2>2, <2>3 DEF Covered, DeadlineCovered, NothingStray
<1>4. CASE Start
  <2>1. work.queued /\ pc' = [pc EXCEPT ![Work] = "exec"]
    BY <1>4 DEF Start
  <2>2. execLock = Nobody => Core!NextDeadline # NoDeadline
    BY <2>1 DEF Covered, NothingStray
  <2>3. pc'[Work] = "exec"
    BY <2>1, ConstantsAre DEF Typed, ThreadsOK
  <2>4. QED
    BY <1>2, <2>2, <2>3 DEF Covered, DeadlineCovered, NothingStray
<1>5. QED
  BY <1>3, <1>4

\* The timer keeps its distance to the deadline it was set for.
LEMMA TickCovers == ASSUME Typed, Covered, Tick PROVE Covered'
<1>1. /\ work' = [work EXCEPT !.at = Earlier(@)] /\ UNCHANGED <<locks, pc>>
  BY DEF Tick
<1>2. /\ Core!NextDeadline' = Earlier(Core!NextDeadline) /\ Core!NextDeadline \in Deadlines
  BY NextDeadlineTicks, NextDeadlineType DEF Typed
<1>3. /\ work \in [at : Deadlines, queued : BOOLEAN] /\ MaxLag \in Nat /\ NoDeadline \notin Int
  BY ZmkRouterAssumption DEF Typed, ThreadsOK
<1>4. work'.at = Earlier(work.at) /\ work'.queued = work.queued
  BY <1>1, <1>3
<1>5. execLock' = execLock /\ pc' = pc
  BY <1>1 DEF locks
<1>6. NothingStray'
  <2>1. ASSUME execLock = Nobody, Earlier(Core!NextDeadline) = NoDeadline
        PROVE  work' = [at |-> NoDeadline, queued |-> FALSE]
    <3>1. Core!NextDeadline = NoDeadline
      BY <1>2, <1>3, <2>1 DEF Earlier, Deadlines
    <3>2. work = [at |-> NoDeadline, queued |-> FALSE]
      BY <2>1, <3>1 DEF Covered, NothingStray
    <3>3. QED
      BY <1>1, <3>2 DEF Earlier
  <2>2. QED
    BY <1>2, <1>5, <2>1 DEF NothingStray
<1>7. DeadlineCovered'
  <2>1. ASSUME execLock = Nobody, Earlier(Core!NextDeadline) # NoDeadline,
               ~work.queued, pc[Work] # "exec"
        PROVE  /\ Earlier(work.at) # NoDeadline
               /\ Earlier(work.at) \in Earlier(Core!NextDeadline) .. Earlier(Core!NextDeadline) + MaxLag
    <3>1. Core!NextDeadline # NoDeadline
      BY <2>1 DEF Earlier
    <3>2. /\ work.at # NoDeadline /\ work.at \in Core!NextDeadline .. Core!NextDeadline + MaxLag
      BY <2>1, <3>1 DEF Covered, DeadlineCovered
    <3>3. Core!NextDeadline \in Int /\ work.at \in Int
      BY <1>2, <1>3, <3>1, <3>2 DEF Deadlines
    <3>4. Earlier(work.at) = work.at - 1 /\ Earlier(Core!NextDeadline) = Core!NextDeadline - 1
      BY <3>1, <3>2 DEF Earlier
    <3>5. QED
      BY <1>3, <3>2, <3>3, <3>4
  <2>2. QED
    BY <1>2, <1>4, <1>5, <2>1 DEF DeadlineCovered
<1>8. QED
  BY <1>6, <1>7 DEF Covered

\* Callers stay away from the executor until they select.
LEMMA CallerCovers ==
  ASSUME Typed, Covered, NEW k \in Callers,
         \/ \E l \in Layers : ToggleLayer(k, l)
         \/ \E i \in Pipelines : PressKey(k, i)
         \/ ReleaseKey(k) \/ Route(k) \/ ScanLayer(k)
  PROVE  Covered'
<1>1. UNCHANGED <<core, execLock, work>>
  BY DEF ToggleLayer, PressKey, ReleaseKey, Call, Route, ScanLayer, locks
<1>2. pc' = pc \/ \E place : pc' = [pc EXCEPT ![k] = place]
  BY DEF ToggleLayer, PressKey, ReleaseKey, Call, Route, ScanLayer, Decide, Leave
<1>3. pc'[Work] = pc[Work]
  BY <1>2, ConstantsAre DEF Typed, ThreadsOK
<1>4. QED
  BY <1>1, <1>3, AsideCovered

LEMMA CoveredNext == ASSUME Typed, Covered, [Next]_vars PROVE Covered'
<1>1. ASSUME NEW t \in Threads, Update(t) PROVE Covered'
  BY <1>1, UpdateCovers
<1>2. CASE Expire \/ Start
  BY <1>2, WorkCovers
<1>3. CASE Flush \/ Push \/ \E k \in Callers : Select(k)
  <2>1. \E t \in Threads : Lock(t)
    BY <1>3, ConstantsAre DEF Flush, Push, Select
  <2>2. QED
    BY <2>1, LockIs, HeldCovered
<1>4. CASE Frame
  <2>1. UNCHANGED <<core, execLock, work>> /\ pc'[Work] = pc[Work]
    BY <1>4, ZmkRouterAssumption DEF Frame, locks, Typed, ThreadsOK
  <2>2. QED
    BY <2>1, AsideCovered
<1>5. CASE Tick
  BY <1>5, TickCovers
<1>6. CASE UNCHANGED vars
  <2>1. UNCHANGED <<core, execLock, work>> /\ pc'[Work] = pc[Work]
    BY <1>6 DEF vars, locks
  <2>2. QED
    BY <2>1, AsideCovered
<1>7. QED
  BY <1>1, <1>2, <1>3, <1>4, <1>5, <1>6, CallerCovers DEF Next

LEMMA CoveredInit == ASSUME Init PROVE Covered
<1>1. Typed /\ work = [at |-> NoDeadline, queued |-> FALSE] /\ up /\ index = InitialPipeline
  BY TypedInit DEF Init
<1>2. index \in Pipelines /\ deadline[index] = Core!Reset
  <2>1. InitialPipeline \in Pipelines
    BY ZmkRouterAssumption DEF InitialPipeline
  <2>2. QED
    BY <1>1, <2>1 DEF Init
<1>3. \A s \in Stages : deadline[index][s] = NoDeadline
  BY <1>2, ResetIs
<1>4. Core!NextDeadline = NoDeadline
  BY <1>3 DEF Core!NextDeadline, Core!Waiting
<1>5. QED
  BY <1>1, <1>4 DEF Covered, DeadlineCovered, NothingStray

LEMMA CoveredAlways == Spec => []Covered
<1>1. Init => Covered
  BY CoveredInit
<1>2. Typed /\ Covered /\ [Next]_vars => Covered'
  BY CoveredNext
<1>3. QED
  BY <1>1, <1>2, TypedAlways, PTL DEF Spec

\* A pending deadline has a wake-up coming whenever nobody is in the router,
\* at most MaxLag after it, however many threads wait with old times and in
\* whatever order they reschedule.
THEOREM DeadlineCoveredInvariant == Spec => []DeadlineCovered
<1>1. Covered => DeadlineCovered
  BY DEF Covered
<1>2. QED
  BY <1>1, CoveredAlways, PTL

\* No wake-up is left over from a pipeline that was left.
THEOREM NothingStrayInvariant == Spec => []NothingStray
<1>1. Covered => NothingStray
  BY DEF Covered
<1>2. QED
  BY <1>1, CoveredAlways, PTL

-----------------------------------------------------------------------------
(* The pipeline that is selected.                                            *)

\* A caller that decides, scans, selects or reschedules holds the route lock,
\* and nobody else holds it.
Locked == \A k \in Callers : pc[k] \in {"scan", "exec", "update"} <=> routeLock = k

\* A layer has changed and the thread that changed it has not yet decided: it
\* will, so what others found meanwhile may be out of date.
Refreshing == \E k \in Callers : pc[k] = "route" /\ ask[k].op = "refresh"

\* Nothing above the layer a scan looks at next would have stopped it.
Ahead(k) == \A l \in DefaultLayer..TopLayer : l > look[k] => ~Routes(l)

\* What a caller goes to select is what layers and keys ask for.
FoundDesired == \A k \in Callers : pc[k] = "exec" => goal[k] = Desired
\* A scan that goes on has passed over nothing it would stop at now.
ScanTrue == \A k \in Callers : pc[k] = "scan" => Table!Selected = NoPipeline /\ Ahead(k)
\* Somebody is on the way to select.
Selecting == \E k \in Callers : pc[k] \in {"scan", "exec"}

\* What the steps between two settled states keep.
Settling ==
  ~Refreshing =>
    /\ FoundDesired
    /\ ScanTrue
    /\ Selecting \/ refused \/ index = Desired

Settled == Locked /\ Settling

\* Table, layers and what they ask for stay together.
LEMMA DesiredStays ==
  ASSUME UNCHANGED <<layers, route, newer>>
  PROVE  /\ Desired' = Desired /\ Table!Selected' = Table!Selected
         /\ \A l : Routes(l)' = Routes(l)
<1>1. Table!Selected' = Table!Selected
  BY DEF Table!Selected, Table!Held, Table!Newest
<1>2. \A l : Routes(l)' = Routes(l)
  BY DEF Routes
<1>3. Desired' = Desired
  BY <1>1 DEF Desired, Routes
<1>4. QED
  BY <1>1, <1>2, <1>3

\* The topmost routed layer is the one a true scan stops at.
LEMMA TopmostRoutes ==
  ASSUME Table!Selected = NoPipeline, NEW m \in DefaultLayer..TopLayer, Routes(m),
         \A l \in DefaultLayer..TopLayer : l > m => ~Routes(l)
  PROVE  Desired = LayerRoute[m]
<1> DEFINE R == {l \in DefaultLayer..TopLayer : Routes(l)}
<1>1. m \in R /\ \A l \in R : l <= m
  BY ConstantsAre
<1>2. R \subseteq Int
  BY ConstantsAre
<1>3. Desired = LayerRoute[CHOOSE l \in R : \A n \in R : n <= l]
  BY <1>1 DEF Desired
<1> HIDE DEF R
<1>4. (CHOOSE l \in R : \A n \in R : n <= l) = m
  <2>1. \A l \in R : (\A n \in R : n <= l) => l = m
    BY <1>1, <1>2
  <2>2. QED
    BY <1>1, <2>1
<1>5. QED
  BY <1>3, <1>4

\* Without a routed layer it is the default pipeline.
LEMMA NothingRoutes ==
  ASSUME Table!Selected = NoPipeline, \A l \in DefaultLayer..TopLayer : ~Routes(l)
  PROVE  Desired = DefaultPipeline
BY DEF Desired

\* The router starts on the pipeline that its scan finds.
LEMMA SettledInit == ASSUME Init PROVE Settled
<1>1. /\ layers = {} /\ Table!Init /\ index = InitialPipeline /\ routeLock = Nobody
      /\ \A k \in Callers : pc[k] = "idle"
  BY ConstantsAre DEF Init
<1>2. Table!Selected = NoPipeline
  BY <1>1, TableInit
<1>3. DefaultLayer \in DefaultLayer..TopLayer
  BY ZmkRouterAssumption DEF Layers
<1>4. \A l : Routes(l) <=> l = DefaultLayer /\ l \in DOMAIN LayerRoute
  BY <1>1 DEF Routes
<1>5. index = Desired
  <2>1. CASE DefaultLayer \in DOMAIN LayerRoute
    <3>1. \A l \in DefaultLayer..TopLayer : l > DefaultLayer => ~Routes(l)
      BY <1>4, ConstantsAre
    <3>2. Desired = LayerRoute[DefaultLayer]
      BY <1>2, <1>3, <1>4, <2>1, <3>1, TopmostRoutes
    <3>3. QED
      BY <1>1, <2>1, <3>2 DEF InitialPipeline
  <2>2. CASE DefaultLayer \notin DOMAIN LayerRoute
    BY <1>1, <1>2, <1>4, <2>2, NothingRoutes DEF InitialPipeline
  <2>3. QED
    BY <2>1, <2>2
<1>6. Locked
  BY <1>1, ConstantsAre DEF Locked
<1>7. FoundDesired /\ ScanTrue
  BY <1>1 DEF FoundDesired, ScanTrue
<1>8. QED
  BY <1>5, <1>6, <1>7 DEF Settled, Settling

\* Steps of the input thread, of the work item and of the clock.
LEMMA ApartSettles ==
  ASSUME Settled, UNCHANGED <<layers, route, newer, index, refused, routeLock, mind>>,
         \A k \in Callers : pc'[k] = pc[k]
  PROVE  Settled'
<1>1. Desired' = Desired /\ Table!Selected' = Table!Selected /\ \A l : Routes(l)' = Routes(l)
  BY DesiredStays
<1>2. ask' = ask /\ look' = look /\ goal' = goal
  BY DEF mind
<1>3. Locked'
  BY DEF Settled, Locked
<1>4. Refreshing' = Refreshing /\ Selecting' = Selecting
  BY <1>2 DEF Refreshing, Selecting
<1>5. FoundDesired => FoundDesired'
  BY <1>1, <1>2 DEF FoundDesired
<1>6. ScanTrue => ScanTrue'
  BY <1>1, <1>2 DEF ScanTrue, Ahead
<1>7. QED
  BY <1>1, <1>3, <1>4, <1>5, <1>6 DEF Settled, Settling

\* A caller that leaves had nothing to select, and takes nothing along.
LEMMA LeaveSettles ==
  ASSUME Typed, Settled, NEW k \in Callers, Leave(k),
         UNCHANGED <<layers, route, newer, index, refused>>,
         pc[k] = "update" \/ (pc[k] = "route" /\ ask[k].op = "press"), Locked'
  PROVE  Settled'
<1>1. Desired' = Desired /\ Table!Selected' = Table!Selected /\ \A l : Routes(l)' = Routes(l)
  BY DesiredStays
<1>2. pc'[k] = "idle" /\ \A j \in Callers : j # k =>
        pc'[j] = pc[j] /\ ask'[j] = ask[j] /\ look'[j] = look[j] /\ goal'[j] = goal[j]
  BY ConstantsAre DEF Leave, Typed, ThreadsOK
<1>3. Refreshing' = Refreshing
  BY <1>2 DEF Refreshing
<1>4. Selecting' = Selecting
  BY <1>2 DEF Selecting
<1>5. FoundDesired => FoundDesired'
  BY <1>1, <1>2 DEF FoundDesired
<1>6. ScanTrue => ScanTrue'
  BY <1>1, <1>2 DEF ScanTrue, Ahead
<1>7. QED
  BY <1>1, <1>3, <1>4, <1>5, <1>6 DEF Settled, Settling

LEMMA UpdateSettles == ASSUME Typed, Settled, NEW t \in Threads, Update(t) PROVE Settled'
<1>1. /\ pc[t] = "update" /\ routeLock' = IF t \in Callers THEN Nobody ELSE routeLock
      /\ Leave(t) /\ UNCHANGED <<layers, table, core, refused>>
  BY DEF Update
<1>2. UNCHANGED <<layers, route, newer, index, refused>>
  BY <1>1 DEF table, core
<1>3. CASE t \in Callers
  <2>1. pc' = [pc EXCEPT ![t] = "idle"] /\ routeLock' = Nobody
    BY <1>1, <1>3 DEF Leave
  <2>2. routeLock = t
    BY <1>1, <1>3 DEF Settled, Locked
  <2>3. Locked'
    BY <2>1, <2>2, ConstantsAre DEF Settled, Locked, Typed, ThreadsOK
  <2>4. QED
    BY <1>1, <1>2, <1>3, <2>3, LeaveSettles
<1>4. CASE t \notin Callers
  <2>1. \A k \in Callers : pc'[k] = pc[k]
    BY <1>1, <1>4, ConstantsAre DEF Leave, Typed, ThreadsOK
  <2>2. ask' = ask /\ look' = look /\ goal' = goal
    BY <1>1, <1>4 DEF Leave, Typed, ThreadsOK
  <2>3. QED
    BY <1>1, <1>2, <1>4, <2>1, <2>2, ApartSettles DEF mind
<1>5. QED
  BY <1>3, <1>4

LEMMA WorkSettles ==
  ASSUME Typed, Settled, Expire \/ Start \/ Flush \/ Frame \/ Push \/ Tick
  PROVE  Settled'
<1>1. UNCHANGED <<layers, route, newer, refused, routeLock, mind>>
  BY DEF Expire, Start, Flush, Frame, Push, Tick, table, locks
<1>2. index' = index
  BY DEF Expire, Start, Flush, Frame, Push, Tick, core,
         Core!Push, Core!Flush, Core!NotRouted
<1>3. pc' = pc \/ (\E t \in {Work, Input} : \E place : pc' = [pc EXCEPT ![t] = place])
  BY DEF Expire, Start, Flush, Frame, Push, Tick, Lock
<1>4. \A k \in Callers : pc'[k] = pc[k]
  BY <1>3, ConstantsAre DEF Typed, ThreadsOK
<1>5. QED
  BY <1>1, <1>2, <1>4, ApartSettles

\* A layer change makes the router out of date until its thread decides; a key that was
\* pressed or released counts from its decision on.
LEMMA CallSettles ==
  ASSUME Typed, Settled, NEW k \in Callers, NEW op, NEW i, Call(k, op, i)
  PROVE  /\ Locked'
         /\ op = "refresh" => Refreshing'
         /\ op # "refresh" /\ layers' = layers => Settled'
<1>1. /\ pc[k] = "idle" /\ pc' = [pc EXCEPT ![k] = "route"]
      /\ ask' = [ask EXCEPT ![k] = [op |-> op, pipeline |-> i]]
      /\ UNCHANGED <<table, core, locks, now, look, goal, work, refused>>
  BY DEF Call
<1>2. /\ pc'[k] = "route" /\ ask'[k].op = op
      /\ \A j \in Callers : j # k => pc'[j] = pc[j] /\ ask'[j] = ask[j]
  BY <1>1, ConstantsAre DEF Typed, ThreadsOK
<1>3. Locked'
  BY <1>1, <1>2 DEF Settled, Locked, locks
<1>4. ASSUME op = "refresh" PROVE Refreshing'
  BY <1>2, <1>4 DEF Refreshing
<1>5. ASSUME op # "refresh", layers' = layers PROVE Settled'
  <2>1. UNCHANGED <<layers, route, newer, index, refused>>
    BY <1>1, <1>5 DEF table, core
  <2>2. Desired' = Desired /\ Table!Selected' = Table!Selected /\ \A l : Routes(l)' = Routes(l)
    BY <2>1, DesiredStays
  <2>3. Refreshing' = Refreshing
    BY <1>1, <1>2, <1>5 DEF Refreshing
  <2>4. Selecting' = Selecting
    BY <1>1, <1>2 DEF Selecting
  <2>5. FoundDesired => FoundDesired'
    BY <1>1, <1>2, <2>2 DEF FoundDesired
  <2>6. ScanTrue => ScanTrue'
    BY <1>1, <1>2, <2>2 DEF ScanTrue, Ahead
  <2>7. QED
    BY <1>3, <2>1, <2>2, <2>3, <2>4, <2>5, <2>6 DEF Settled, Settling
<1>6. QED
  BY <1>3, <1>4, <1>5

\* A router without layer routes may ignore layers.
LEMMA ToggleSettles ==
  ASSUME Typed, Settled, NEW k \in Callers, NEW l \in Layers, ToggleLayer(k, l)
  PROVE  Settled'
<1>1. CASE DOMAIN LayerRoute = {}
  <2>1. UNCHANGED <<table, core, locks, pc, now, mind, work, refused>>
    BY <1>1 DEF ToggleLayer
  <2>2. /\ route' = route /\ newer' = newer /\ index' = index /\ routeLock' = routeLock
        /\ ask' = ask /\ look' = look /\ goal' = goal /\ pc' = pc /\ refused' = refused
    BY <2>1 DEF table, core, locks, mind
  <2>3. Table!Selected' = Table!Selected
    BY <2>2 DEF Table!Selected, Table!Held, Table!Newest
  <2>4. (\A m : ~Routes(m)) /\ \A m : ~Routes(m)'
    BY <1>1 DEF Routes
  <2>5. Desired' = Desired
    BY <2>3, <2>4 DEF Desired
  <2>6. Locked' /\ Refreshing' = Refreshing /\ Selecting' = Selecting
    BY <2>2 DEF Settled, Locked, Refreshing, Selecting
  <2>7. FoundDesired => FoundDesired'
    BY <2>2, <2>5 DEF FoundDesired
  <2>8. ScanTrue => ScanTrue'
    BY <2>2, <2>3, <2>4 DEF ScanTrue, Ahead
  <2>9. QED
    BY <2>2, <2>5, <2>6, <2>7, <2>8 DEF Settled, Settling
<1>2. CASE DOMAIN LayerRoute # {}
  <2>1. Call(k, "refresh", NoPipeline)
    BY <1>2 DEF ToggleLayer
  <2>2. Locked' /\ Refreshing'
    BY <2>1, CallSettles
  <2>3. QED
    BY <2>2 DEF Settled, Settling
<1>3. QED
  BY <1>1, <1>2

LEMMA KeySettles ==
  ASSUME Typed, Settled, NEW k \in Callers, ReleaseKey(k) \/ \E i \in Pipelines : PressKey(k, i)
  PROVE  Settled'
<1>1. CASE ReleaseKey(k)
  BY <1>1, CallSettles DEF ReleaseKey
<1>2. ASSUME NEW i \in Pipelines, PressKey(k, i) PROVE Settled'
  BY <1>2, CallSettles DEF PressKey
<1>3. QED
  BY <1>1, <1>2

\* Nobody else is between the table and the pipelines when a caller decides.
LEMMA DecideSettles ==
  ASSUME Typed, Settled, NEW k \in Callers, pc[k] = "route", routeLock = Nobody, Decide(k)
  PROVE  Settled'
<1> USE ConstantsAre
<1>1. \A j \in Callers : pc[j] \notin {"scan", "exec", "update"}
  BY DEF Settled, Locked
<1>2. PICK place \in {"scan", "exec"} : pc' = [pc EXCEPT ![k] = place]
  BY DEF Decide
<1>3. pc'[k] = place /\ \A j \in Callers : j # k => pc'[j] = pc[j]
  BY <1>2 DEF Typed, ThreadsOK
<1>4. routeLock' = k
  BY DEF Decide
<1>5. Locked'
  BY <1>1, <1>3, <1>4 DEF Locked
<1>6. Selecting'
  BY <1>3 DEF Selecting
<1>7. FoundDesired'
  <2>1. ASSUME pc'[k] = "exec" PROVE goal'[k] = Desired'
    <3>1. Table!Selected' # NoPipeline /\ goal' = [goal EXCEPT ![k] = Table!Selected']
      BY <2>1 DEF Decide, Typed, ThreadsOK
    <3>2. goal'[k] = Table!Selected'
      BY <3>1 DEF Typed, ThreadsOK
    <3>3. Desired' = Table!Selected'
      BY <3>1 DEF Desired
    <3>4. QED
      BY <3>2, <3>3
  <2>2. \A j \in Callers : pc'[j] = "exec" => j = k
    BY <1>1, <1>3
  <2>3. QED
    BY <2>1, <2>2 DEF FoundDesired
<1>8. ScanTrue'
  <2>1. ASSUME pc'[k] = "scan" PROVE Table!Selected' = NoPipeline /\ Ahead(k)'
    <3>1. Table!Selected' = NoPipeline /\ look' = look
      BY <2>1 DEF Decide, Typed, ThreadsOK
    <3>2. look'[k] = TopLayer
      BY <3>1 DEF Typed, AskedOK
    <3>3. QED
      BY <3>1, <3>2 DEF Ahead
  <2>2. \A j \in Callers : pc'[j] = "scan" => j = k
    BY <1>1, <1>3
  <2>3. QED
    BY <2>1, <2>2 DEF ScanTrue
<1>9. QED
  BY <1>5, <1>6, <1>7, <1>8 DEF Settled, Settling

\* A press that is refused changes nothing.
LEMMA RouteSettles == ASSUME Typed, Settled, NEW k \in Callers, Route(k) PROVE Settled'
<1>1. pc[k] = "route" /\ routeLock = Nobody /\ UNCHANGED <<layers, core, execLock, work, refused>>
  BY DEF Route
<1>2. CASE Decide(k)
  BY <1>1, <1>2, DecideSettles
<1>3. CASE ask[k].op = "press" /\ Table!Refuse(k) /\ Leave(k) /\ UNCHANGED routeLock
  <2>1. UNCHANGED <<layers, route, newer, index, refused>>
    BY <1>1, <1>3 DEF Table!Refuse, core
  <2>2. pc' = [pc EXCEPT ![k] = "idle"]
    BY <1>3 DEF Leave
  <2>3. Locked'
    BY <1>1, <1>3, <2>2, ConstantsAre DEF Settled, Locked, Typed, ThreadsOK
  <2>4. QED
    BY <1>1, <1>3, <2>1, <2>3, LeaveSettles
<1>4. QED
  BY <1>2, <1>3 DEF Route

\* The scan ends at the topmost layer that routes, or on the default pipeline.
LEMMA ScanSettles == ASSUME Typed, Settled, NEW k \in Callers, ScanLayer(k) PROVE Settled'
<1> USE ConstantsAre
<1>1. pc[k] = "scan" /\ UNCHANGED <<layers, table, core, locks, now, ask, work, refused>>
  BY DEF ScanLayer
<1>2. UNCHANGED <<layers, route, newer, index, refused, routeLock, ask>>
  BY <1>1 DEF table, core, locks
<1>3. Desired' = Desired /\ Table!Selected' = Table!Selected /\ \A l : Routes(l)' = Routes(l)
  BY <1>2, DesiredStays
<1>4. routeLock = k /\ \A j \in Callers : j # k => pc[j] \notin {"scan", "exec", "update"}
  BY <1>1 DEF Settled, Locked
<1>5. look[k] \in DefaultLayer..TopLayer
  BY DEF Typed, ThreadsOK
<1>6. /\ pc' = [pc EXCEPT ![k] = "exec"] \/ pc' = pc
      /\ \A j \in Callers : j # k => pc'[j] = pc[j]
      /\ pc'[k] \in {"scan", "exec"}
  BY <1>1 DEF ScanLayer, Typed, ThreadsOK
<1>7. Locked'
  BY <1>2, <1>4, <1>6 DEF Locked
<1>8. Selecting'
  BY <1>6 DEF Selecting
<1>9. Refreshing' = Refreshing
  BY <1>1, <1>2, <1>6 DEF Refreshing
<1>10. ASSUME ~Refreshing PROVE FoundDesired' /\ ScanTrue'
  <2>1. Table!Selected = NoPipeline /\ Ahead(k)
    BY <1>1, <1>10 DEF Settled, Settling, ScanTrue
  <2>2. CASE Routes(look[k])
    <3>1. goal' = [goal EXCEPT ![k] = LayerRoute[look[k]]] /\ pc' = [pc EXCEPT ![k] = "exec"]
      BY <2>2 DEF ScanLayer
    <3>2. goal'[k] = LayerRoute[look[k]] /\ pc'[k] = "exec"
      BY <3>1 DEF Typed, ThreadsOK
    <3>3. Desired = LayerRoute[look[k]]
      BY <1>5, <2>1, <2>2, TopmostRoutes DEF Ahead
    <3>4. QED
      BY <1>3, <1>4, <1>6, <3>2, <3>3 DEF FoundDesired, ScanTrue
  <2>3. CASE ~Routes(look[k]) /\ look[k] = DefaultLayer
    <3>1. goal' = [goal EXCEPT ![k] = DefaultPipeline] /\ pc' = [pc EXCEPT ![k] = "exec"]
      BY <2>3 DEF ScanLayer
    <3>2. goal'[k] = DefaultPipeline /\ pc'[k] = "exec"
      BY <3>1 DEF Typed, ThreadsOK
    <3>3. \A l \in DefaultLayer..TopLayer : ~Routes(l)
      BY <2>1, <2>3 DEF Ahead
    <3>4. Desired = DefaultPipeline
      BY <2>1, <3>3, NothingRoutes
    <3>5. QED
      BY <1>3, <1>4, <1>6, <3>2, <3>4 DEF FoundDesired, ScanTrue
  <2>4. CASE ~Routes(look[k]) /\ look[k] # DefaultLayer
    <3>1. look' = [look EXCEPT ![k] = @ - 1] /\ UNCHANGED <<goal, pc>>
      BY <2>4 DEF ScanLayer
    <3>2. look'[k] = look[k] - 1
      BY <3>1 DEF Typed, ThreadsOK
    <3>3. \A l \in DefaultLayer..TopLayer : l > look[k] - 1 => ~Routes(l)
      BY <1>5, <2>1, <2>4 DEF Ahead
    <3>4. Ahead(k)'
      BY <1>3, <3>2, <3>3 DEF Ahead
    <3>5. QED
      BY <1>1, <1>3, <1>4, <2>1, <3>1, <3>4 DEF FoundDesired, ScanTrue
  <2>5. QED
    BY <2>2, <2>3, <2>4
<1>11. QED
  BY <1>7, <1>8, <1>9, <1>10 DEF Settled, Settling

\* The switch ends on the pipeline that was found, or is refused.
LEMMA SelectSettles == ASSUME Typed, Settled, NEW k \in Callers, Select(k) PROVE Settled'
<1> USE ConstantsAre
<1>1. /\ Lock(k) /\ Core!Select(goal[k]) /\ refused' = (outcome' = "refused")
      /\ UNCHANGED <<layers, table, routeLock, now, mind, work>>
  BY DEF Select
<1>2. /\ UNCHANGED <<layers, route, newer, routeLock>>
      /\ ask' = ask /\ look' = look /\ goal' = goal
  BY <1>1 DEF table, mind
<1>3. Desired' = Desired
  BY <1>2, DesiredStays
<1>4. pc[k] = "exec" /\ pc' = [pc EXCEPT ![k] = "update"]
  BY <1>1, LockIs
<1>5. pc'[k] = "update" /\ \A j \in Callers : j # k => pc'[j] = pc[j]
  BY <1>4 DEF Typed, ThreadsOK
<1>6. routeLock = k /\ \A j \in Callers : j # k => pc[j] \notin {"scan", "exec", "update"}
  BY <1>4 DEF Settled, Locked
<1>7. Locked'
  BY <1>2, <1>5, <1>6 DEF Locked
<1>8. Refreshing' = Refreshing
  BY <1>2, <1>4, <1>5 DEF Refreshing
<1>9. FoundDesired' /\ ScanTrue'
  BY <1>5, <1>6 DEF FoundDesired, ScanTrue
<1>10. goal[k] \in Pipelines
  BY DEF Typed, ThreadsOK
<1>11. index' = goal[k] \/ outcome' = "refused"
  BY <1>1, <1>10, SelectKeeps DEF Typed
<1>12. ASSUME ~Refreshing PROVE refused' \/ index' = Desired'
  <2>1. goal[k] = Desired
    BY <1>4, <1>12 DEF Settled, Settling, FoundDesired
  <2>2. QED
    BY <1>1, <1>3, <1>11, <2>1
<1>13. QED
  BY <1>7, <1>8, <1>9, <1>12 DEF Settled, Settling

LEMMA SettledNext == ASSUME Typed, Settled, [Next]_vars PROVE Settled'
<1>1. ASSUME NEW t \in Threads, Update(t) PROVE Settled'
  BY <1>1, UpdateSettles
<1>2. CASE Expire \/ Start \/ Flush \/ Frame \/ Push \/ Tick
  BY <1>2, WorkSettles
<1>3. ASSUME NEW k \in Callers, NEW l \in Layers, ToggleLayer(k, l) PROVE Settled'
  BY <1>3, ToggleSettles
<1>4. ASSUME NEW k \in Callers, ReleaseKey(k) \/ \E i \in Pipelines : PressKey(k, i)
      PROVE  Settled'
  BY <1>4, KeySettles
<1>5. ASSUME NEW k \in Callers, Route(k) PROVE Settled'
  BY <1>5, RouteSettles
<1>6. ASSUME NEW k \in Callers, ScanLayer(k) PROVE Settled'
  BY <1>6, ScanSettles
<1>7. ASSUME NEW k \in Callers, Select(k) PROVE Settled'
  BY <1>7, SelectSettles
<1>8. CASE UNCHANGED vars
  BY <1>8, ApartSettles DEF vars, table, core, locks
<1>9. QED
  BY <1>1, <1>2, <1>3, <1>4, <1>5, <1>6, <1>7, <1>8 DEF Next

\* When every thread that changed a layer or a route key has returned, the
\* active pipeline is the one layers and held keys ask for, or the last switch
\* was refused: for any number of threads, keys, layers and pipelines.
THEOREM RouteSettledInvariant == Spec => []RouteSettled
<1>1. Init => Settled
  BY SettledInit
<1>2. Typed /\ Settled /\ [Next]_vars => Settled'
  BY SettledNext
<1>3. Settled => RouteSettled
  <2>1. ASSUME Settled, \A k \in Callers : pc[k] = "idle", ~refused PROVE index = Desired
    <3>1. ~Refreshing /\ ~Selecting
      BY <2>1 DEF Refreshing, Selecting
    <3>2. QED
      BY <2>1, <3>1 DEF Settled, Settling
  <2>2. QED
    BY <2>1 DEF RouteSettled
<1>4. QED
  BY <1>1, <1>2, <1>3, TypedAlways, PTL DEF Spec
=============================================================================
