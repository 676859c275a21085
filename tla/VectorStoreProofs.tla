-------------------------- MODULE VectorStoreProofs --------------------------
(***************************************************************************)
(* Invariance proofs for the client registry and the collections, for any  *)
(* number of processes, stores, indexes and batches.                       *)
(***************************************************************************)
EXTENDS VectorStore, FiniteSetTheorems, TLAPS

\* A store that has been started belongs to a process that read an index.
Live == \A s \in Store : pc[s] # "idle" => IndexOf(s) \in Index

TypeInv == TypeOK /\ Live

-----------------------------------------------------------------------------
(* Types.                                                                  *)

LEMMA IndexFields ==
  /\ \A i \in Index : i.chunks \in Nat /\ i.dim \in Nat /\ Fingerprint(i) \in Name
  /\ NoIndex \notin Index
BY VectorStoreAssumption DEF IndexShape, NoIndex, Name

LEMMA InitType == Init => TypeInv
BY VectorStoreAssumption, IndexFields DEF Init, TypeInv, TypeOK, Live, Holding, Syncing, Name

LEMMA StartType == ASSUME NEW p \in Process, TypeInv, Start(p) PROVE TypeInv'
<1> USE VectorStoreAssumption DEF TypeInv
<1>1. TypeOK'
  BY DEF TypeOK, Start, database
<1>2. Live'
  BY IndexFields DEF TypeOK, Start, Live, IndexOf
<1> QED BY <1>1, <1>2

LEMMA ExitType == ASSUME NEW p \in Process, TypeInv, Exit(p) PROVE TypeInv'
<1> USE VectorStoreAssumption DEF TypeInv
<1>1. TypeOK'
  BY DEF TypeOK, Exit, database, Holding, Syncing
<1>2. Live'
  BY IndexFields DEF TypeOK, Exit, Live, IndexOf
<1> QED BY <1>1, <1>2

LEMMA RegistryType ==
  ASSUME NEW p \in Process, registry \in [Process -> [open : BOOLEAN, refs : Nat]],
         Acquire(p) \/ Release(p)
  PROVE  registry' \in [Process -> [open : BOOLEAN, refs : Nat]]
<1>1. [open |-> TRUE, refs |-> registry[p].refs + 1] \in [open : BOOLEAN, refs : Nat]
  OBVIOUS
<1>2. [open |-> FALSE, refs |-> 0] \in [open : BOOLEAN, refs : Nat]
  OBVIOUS
<1>3. ASSUME ~(registry[p].refs <= 1)
      PROVE  [open |-> registry[p].open, refs |-> registry[p].refs - 1]
               \in [open : BOOLEAN, refs : Nat]
  BY <1>3
<1>4. CASE Acquire(p)
  BY <1>1, <1>4 DEF Acquire
<1>5. CASE Release(p)
  BY <1>2, <1>3, <1>5 DEF Release
<1> QED BY <1>4, <1>5

\* What a step of a store that leaves the database alone does to the types.
LEMMA QuietType ==
  ASSUME NEW s \in Store, TypeInv,
         Open(s) \/ Check(s) \/ CallFails(s) \/ List(s) \/ Constructed(s) \/ Close(s)
  PROVE  TypeInv'
<1> USE VectorStoreAssumption DEF TypeInv
<1>1. registry' \in [Process -> [open : BOOLEAN, refs : Nat]]
  <2>1. ProcessOf[s] \in Process
    OBVIOUS
  <2> QED BY <2>1, RegistryType DEF TypeOK, Open, Check, CallFails, List, Constructed, Close
<1>2. pc' \in [Store -> Holding \cup {"idle", "refused", "closed"}]
  BY DEF TypeOK, Open, Check, CallFails, List, Constructed, Close, Goto, Holding, Syncing
<1>3. listed' \in [Store -> SUBSET Name]
  BY DEF TypeOK, Open, Check, CallFails, List, Constructed, Close
<1>4. UNCHANGED <<mode, loaded, database, cursor>>
  BY DEF Open, Check, CallFails, List, Constructed, Close
<1>5. TypeOK'
  BY <1>1, <1>2, <1>3, <1>4 DEF TypeOK, database
<1>6. Live'
  BY <1>4, IndexFields DEF TypeOK, Live, IndexOf, Open, Check, CallFails, List, Constructed,
                           Close, Goto
<1> QED BY <1>5, <1>6

LEMMA WriteType ==
  ASSUME NEW s \in Store, TypeInv, Recreate(s) \/ Create(s) \/ Upsert(s) \/ Drop(s)
  PROVE  TypeInv'
<1> USE VectorStoreAssumption DEF TypeInv
<1>1. IndexOf(s) \in Index /\ Own(s) \in Name
  BY IndexFields DEF Live, Own, Recreate, Create, Upsert, Drop
<1>2. existing' \subseteq Name
  BY <1>1 DEF TypeOK, Recreate, Create, Upsert, Drop, database
<1>3. points' \in [Name -> SUBSET (Nat \X Index)]
  <2>1. {<<id, IndexOf(s)>> : id \in Batch(s)} \subseteq Nat \X Index
    BY <1>1, IndexFields DEF Batch
  <2>2. \A n \in Name : points[n] \in SUBSET (Nat \X Index)
    BY DEF TypeOK
  <2>3. CASE Recreate(s)
    BY <1>1, <2>3 DEF TypeOK, Recreate
  <2>4. CASE Create(s)
    BY <2>4 DEF TypeOK, Create, database
  <2>5. CASE Upsert(s)
    <3>1. {pt \in points[Own(s)] : pt[1] \notin Batch(s)} \subseteq points[Own(s)]
      OBVIOUS
    <3>2. {pt \in points[Own(s)] : pt[1] \notin Batch(s)}
            \cup {<<id, IndexOf(s)>> : id \in Batch(s)} \in SUBSET (Nat \X Index)
      BY <1>1, <2>1, <2>2, <3>1
    <3> QED BY <1>1, <2>5, <3>2 DEF TypeOK, Upsert, database
  <2>6. CASE Drop(s)
    BY <2>6 DEF TypeOK, Drop, database
  <2> QED BY <2>3, <2>4, <2>5, <2>6
<1>4. pc' \in [Store -> Holding \cup {"idle", "refused", "closed"}]
  BY DEF TypeOK, Recreate, Create, Upsert, Drop, Goto, Holding, Syncing
<1>5. cursor' \in [Store -> Nat] /\ listed' \in [Store -> SUBSET Name]
  BY DEF TypeOK, Recreate, Create, Upsert, Drop, database
<1>6. UNCHANGED <<mode, loaded, registry>>
  BY DEF Recreate, Create, Upsert, Drop
<1>7. TypeOK'
  BY <1>2, <1>3, <1>4, <1>5, <1>6 DEF TypeOK
<1>8. Live'
  BY <1>1, <1>6, IndexFields DEF TypeOK, Live, IndexOf, Recreate, Create, Upsert, Drop, Goto
<1> QED BY <1>7, <1>8

LEMMA NextType == TypeInv /\ [Next]_vars => TypeInv'
<1> SUFFICES ASSUME TypeInv, [Next]_vars PROVE TypeInv'
  OBVIOUS
<1>1. CASE UNCHANGED vars
  BY <1>1 DEF TypeInv, TypeOK, Live, IndexOf, vars
<1>2. CASE \E p \in Process : Start(p) \/ Exit(p)
  BY <1>2, StartType, ExitType
<1>3. CASE \E s \in Store : Construct(s) \/ Close(s)
  BY <1>3, QuietType, WriteType DEF Construct
<1> QED BY <1>1, <1>2, <1>3 DEF Next

\* The variables keep their types (vectors.py:210-427), and a store that is at work
\* has an index: the name of its collection is one of the names there are.
THEOREM TypeInvariant == Spec => []TypeOK
<1>1. TypeInv /\ [Next]_vars => TypeInv'
  BY NextType
<1>2. TypeInv => TypeOK
  BY DEF TypeInv
<1> QED BY InitType, <1>1, <1>2, PTL DEF Spec

-----------------------------------------------------------------------------
(* The client registry.                                                    *)

\* At most one constructor runs in a process.
OneSyncing ==
  \A s, t \in Store : ProcessOf[s] = ProcessOf[t] /\ pc[s] \in Syncing /\ pc[t] \in Syncing
                       => s = t

\* The storage folder of embedded mode is open in one process at most.
Exclusive ==
  mode = "embedded" => \A p, q \in Process : registry[p].open /\ registry[q].open => p = q

RegistryInv == TypeInv /\ RegistryCountsHolders /\ OneSyncing /\ Exclusive

LEMMA HoldersFinite ==
  ASSUME NEW p \in Process
  PROVE  IsFiniteSet(Holders(p)) /\ Holders(p) \subseteq Store
BY VectorStoreAssumption, FS_Subset DEF Holders

\* Who holds a client does not change when a store moves within, or outside, the
\* places where it does.
LEMMA SameHolders ==
  ASSUME NEW s \in Store, NEW step, TypeInv,
         pc' = [pc EXCEPT ![s] = step],
         pc[s] \in Holding <=> step \in Holding
  PROVE  \A p \in Process : Holders(p)' = Holders(p)
BY DEF TypeInv, TypeOK, Holders

LEMMA NewHolder ==
  ASSUME NEW s \in Store, NEW step \in Holding, TypeInv,
         pc' = [pc EXCEPT ![s] = step], pc[s] \notin Holding
  PROVE  /\ Holders(ProcessOf[s])' = Holders(ProcessOf[s]) \cup {s}
         /\ s \notin Holders(ProcessOf[s])
         /\ \A p \in Process \ {ProcessOf[s]} : Holders(p)' = Holders(p)
BY VectorStoreAssumption DEF TypeInv, TypeOK, Holders

LEMMA LostHolder ==
  ASSUME NEW s \in Store, NEW step, step \notin Holding, TypeInv,
         pc' = [pc EXCEPT ![s] = step], pc[s] \in Holding
  PROVE  /\ Holders(ProcessOf[s])' = Holders(ProcessOf[s]) \ {s}
         /\ s \in Holders(ProcessOf[s])
         /\ \A p \in Process \ {ProcessOf[s]} : Holders(p)' = Holders(p)
BY VectorStoreAssumption DEF TypeInv, TypeOK, Holders

LEMMA InitRegistry == Init => RegistryCountsHolders /\ OneSyncing /\ Exclusive
<1> SUFFICES ASSUME Init PROVE RegistryCountsHolders /\ OneSyncing /\ Exclusive
  OBVIOUS
<1>1. \A p \in Process : Holders(p) = {}
  BY DEF Init, Holders, Holding, Syncing
<1>2. RegistryCountsHolders
  BY <1>1, FS_EmptySet DEF Init, RegistryCountsHolders
<1>3. OneSyncing /\ Exclusive
  BY DEF Init, OneSyncing, Exclusive, Syncing
<1> QED BY <1>2, <1>3

LEMMA StartRegistry ==
  ASSUME NEW p \in Process, RegistryInv, Start(p)
  PROVE  RegistryCountsHolders' /\ OneSyncing' /\ Exclusive'
BY DEF RegistryInv, RegistryCountsHolders, OneSyncing, Exclusive, Start, Holders

LEMMA ExitRegistry ==
  ASSUME NEW p \in Process, RegistryInv, Exit(p)
  PROVE  RegistryCountsHolders' /\ OneSyncing' /\ Exclusive'
<1> USE VectorStoreAssumption DEF RegistryInv, TypeInv
<1>1. Holders(p)' = {}
  BY DEF Exit, Holders, Holding, Syncing
<1>2. \A q \in Process \ {p} : Holders(q)' = Holders(q)
  BY DEF Exit, Holders, TypeOK
<1>3. /\ registry'[p] = [open |-> FALSE, refs |-> 0]
      /\ \A q \in Process \ {p} : registry'[q] = registry[q]
  BY DEF Exit, TypeOK
<1>4. RegistryCountsHolders'
  BY <1>1, <1>2, <1>3, FS_EmptySet DEF RegistryCountsHolders
<1>5. OneSyncing'
  BY DEF OneSyncing, Exit, TypeOK, Syncing
<1>6. Exclusive'
  BY <1>3 DEF Exclusive, Exit
<1> QED BY <1>4, <1>5, <1>6

LEMMA OpenRegistry ==
  ASSUME NEW s \in Store, RegistryInv, Open(s)
  PROVE  RegistryCountsHolders' /\ OneSyncing' /\ Exclusive'
<1> DEFINE p == ProcessOf[s]
<1> USE VectorStoreAssumption DEF RegistryInv, TypeInv
<1>1. pc[s] = "idle" /\ pc[s] \notin Holding
  BY DEF Open, Holding, Syncing
<1>2. CASE LockedOut(p)
  <2>1. pc' = [pc EXCEPT ![s] = "refused"] /\ UNCHANGED <<registry, mode>>
    BY <1>2 DEF Open, Goto
  <2>2. "refused" \notin Holding
    BY DEF Holding, Syncing
  <2>3. \A q \in Process : Holders(q)' = Holders(q)
    BY <1>1, <2>1, <2>2, SameHolders
  <2>4. RegistryCountsHolders' /\ Exclusive'
    BY <2>1, <2>3 DEF RegistryCountsHolders, Exclusive
  <2>5. OneSyncing'
    BY <2>1 DEF OneSyncing, Syncing, TypeOK
  <2> QED BY <2>4, <2>5
<1>3. CASE ~LockedOut(p)
  <2>1. /\ pc' = [pc EXCEPT ![s] = "check"]
        /\ registry' = [registry EXCEPT ![p] = [open |-> TRUE, refs |-> @.refs + 1]]
        /\ mode' = mode
        /\ \A t \in Store : ProcessOf[t] = p => pc[t] \notin Syncing
    BY <1>3 DEF Open, Goto, Acquire
  <2>2. "check" \in Holding
    BY DEF Holding, Syncing
  <2>3. /\ Holders(p)' = Holders(p) \cup {s} /\ s \notin Holders(p)
        /\ \A q \in Process \ {p} : Holders(q)' = Holders(q)
    BY <1>1, <2>1, <2>2, NewHolder
  <2>4. /\ registry'[p].open /\ registry'[p].refs = registry[p].refs + 1
        /\ \A q \in Process \ {p} : registry'[q] = registry[q]
    BY <2>1 DEF TypeOK
  <2>5. Cardinality(Holders(p)') = Cardinality(Holders(p)) + 1
    BY <2>3, HoldersFinite, FS_AddElement
  <2>6. RegistryCountsHolders'
    BY <2>3, <2>4, <2>5 DEF RegistryCountsHolders
  <2>7. OneSyncing'
    BY <2>1 DEF OneSyncing, TypeOK
  <2>8. Exclusive'
    BY <1>3, <2>1, <2>4 DEF Exclusive, LockedOut
  <2> QED BY <2>6, <2>7, <2>8
<1> QED BY <1>2, <1>3

LEMMA CloseRegistry ==
  ASSUME NEW s \in Store, RegistryInv, Close(s)
  PROVE  RegistryCountsHolders' /\ OneSyncing' /\ Exclusive'
<1> DEFINE p == ProcessOf[s]
<1> USE VectorStoreAssumption DEF RegistryInv, TypeInv
<1>1. pc' = [pc EXCEPT ![s] = "closed"] /\ pc[s] \in Holding /\ "closed" \notin Holding
  BY DEF Close, Goto, Holding, Syncing
<1>2. /\ Holders(p)' = Holders(p) \ {s} /\ s \in Holders(p)
      /\ \A q \in Process \ {p} : Holders(q)' = Holders(q)
  BY <1>1, LostHolder
<1>3. Cardinality(Holders(p)') = Cardinality(Holders(p)) - 1
  BY <1>2, HoldersFinite, FS_RemoveElement
<1>4. /\ registry'[p] = IF registry[p].refs <= 1 THEN [open |-> FALSE, refs |-> 0]
                        ELSE [open |-> registry[p].open, refs |-> registry[p].refs - 1]
      /\ \A q \in Process \ {p} : registry'[q] = registry[q]
      /\ mode' = mode
  BY DEF Close, Release, TypeOK
<1>5. /\ IsFiniteSet(Holders(p)') /\ Cardinality(Holders(p)') \in Nat
      /\ Cardinality(Holders(p)') = 0 <=> Holders(p)' = {}
  <2>1. IsFiniteSet(Holders(p)')
    BY <1>2, HoldersFinite, FS_Subset
  <2> QED BY <2>1, FS_EmptySet, FS_CardinalityType
<1>6. /\ registry[p].refs \in Nat /\ registry[p].refs = Cardinality(Holders(p))
      /\ registry[p].open
  BY <1>2 DEF TypeOK, RegistryCountsHolders
<1>7. /\ registry'[p].refs = Cardinality(Holders(p)')
      /\ registry'[p].open <=> Holders(p)' # {}
  BY <1>3, <1>4, <1>5, <1>6
<1>8. RegistryCountsHolders'
  BY <1>2, <1>4, <1>7 DEF RegistryCountsHolders
<1>9. OneSyncing'
  BY <1>1 DEF OneSyncing, TypeOK, Holding, Syncing
<1>10. Exclusive'
  BY <1>4, <1>6 DEF Exclusive
<1> QED BY <1>8, <1>9, <1>10

\* Every other step of a store moves it within the places where it holds a client.
LEMMA StayRegistry ==
  ASSUME NEW s \in Store, RegistryInv,
         Check(s) \/ CallFails(s) \/ Recreate(s) \/ Create(s) \/ Upsert(s)
           \/ List(s) \/ Drop(s) \/ Constructed(s)
  PROVE  RegistryCountsHolders' /\ OneSyncing' /\ Exclusive'
<1> USE VectorStoreAssumption DEF RegistryInv, TypeInv
<1>1. UNCHANGED <<registry, mode>> /\ pc[s] \in Syncing
  BY DEF Check, CallFails, Recreate, Create, Upsert, List, Drop, Constructed, Syncing
<1>2. PICK step \in Holding : pc' = [pc EXCEPT ![s] = step]
  <2>1. CASE Drop(s)
    BY <2>1 DEF Drop, TypeOK, Holding, Syncing
  <2>2. CASE Check(s)
    BY <2>2 DEF Check, Goto, Holding, Syncing
  <2>3. CASE Upsert(s)
    BY <2>3 DEF Upsert, Goto, Holding, Syncing
  <2>4. CASE CallFails(s) \/ Recreate(s) \/ Create(s) \/ List(s) \/ Constructed(s)
    BY <2>4 DEF CallFails, Recreate, Create, List, Constructed, Goto, Holding, Syncing
  <2> QED BY <2>1, <2>2, <2>3, <2>4
<1>3. pc[s] \in Holding
  BY <1>1 DEF Holding
<1>4. \A q \in Process : Holders(q)' = Holders(q)
  BY <1>2, <1>3, SameHolders
<1>5. RegistryCountsHolders' /\ Exclusive'
  BY <1>1, <1>4 DEF RegistryCountsHolders, Exclusive
<1>6. OneSyncing'
  BY <1>1, <1>2 DEF OneSyncing, TypeOK
<1> QED BY <1>5, <1>6

LEMMA NextRegistry == RegistryInv /\ [Next]_vars => RegistryInv'
<1> SUFFICES ASSUME RegistryInv, [Next]_vars PROVE RegistryInv'
  OBVIOUS
<1>1. TypeInv'
  BY NextType DEF RegistryInv
<1>2. CASE UNCHANGED vars
  BY <1>1, <1>2 DEF RegistryInv, RegistryCountsHolders, OneSyncing, Exclusive, Holders, vars
<1>3. CASE \E p \in Process : Start(p) \/ Exit(p)
  BY <1>1, <1>3, StartRegistry, ExitRegistry DEF RegistryInv
<1>4. CASE \E s \in Store : Construct(s) \/ Close(s)
  BY <1>1, <1>4, OpenRegistry, CloseRegistry, StayRegistry DEF RegistryInv, Construct
<1> QED BY <1>2, <1>3, <1>4 DEF Next

LEMMA RegistryInductive == Spec => []RegistryInv
<1>1. Init => RegistryInv
  BY InitType, InitRegistry DEF RegistryInv
<1> QED BY <1>1, NextRegistry, PTL DEF Spec

\* The shared client lives exactly as long as its holders (vectors.py:135-176).
THEOREM ClientOutlivesItsHolders == Spec => []RegistryCountsHolders
<1>1. RegistryInv => RegistryCountsHolders
  BY DEF RegistryInv
<1> QED BY <1>1, RegistryInductive, PTL

-----------------------------------------------------------------------------
(* The collections.                                                        *)

\* What a collection may hold: vectors of the one index that has its name.
PointsAreOwn ==
  \A n \in Name : \A pt \in points[n] :
    Fingerprint(pt[2]) = n /\ pt[1] \in 0 .. pt[2].chunks - 1

LEMMA FingerprintIsInjective ==
  ASSUME NEW i \in Index, NEW j \in Index, Fingerprint(i) = Fingerprint(j)
  PROVE  i = j
BY VectorStoreAssumption DEF IndexShape, Fingerprint

LEMMA InitPoints == Init => PointsAreOwn
BY DEF Init, PointsAreOwn

LEMMA NextPoints ==
  ASSUME TypeInv, TypeInv', PointsAreOwn, [Next]_vars
  PROVE  PointsAreOwn'
<1> USE VectorStoreAssumption DEF TypeInv
<1>1. CASE UNCHANGED points
  BY <1>1 DEF PointsAreOwn
<1>2. ASSUME NEW s \in Store, Recreate(s) PROVE PointsAreOwn'
  BY <1>2 DEF PointsAreOwn, Recreate, TypeOK
<1>3. ASSUME NEW s \in Store, Upsert(s), ~UNCHANGED points PROVE PointsAreOwn'
  <2>1. IndexOf(s) \in Index /\ Own(s) \in Name
    BY <1>3, IndexFields DEF Live, Own, Upsert
  <2>2. points' = [points EXCEPT ![Own(s)] =
                     {pt \in @ : pt[1] \notin Batch(s)} \cup {<<id, IndexOf(s)>> : id \in Batch(s)}]
    BY <1>3 DEF Upsert, database
  <2>3. \A n \in Name \ {Own(s)} : points'[n] = points[n]
    BY <2>2 DEF TypeOK
  <2>4. \A pt \in points'[Own(s)] : pt \in points[Own(s)]
                                      \/ \E id \in Batch(s) : pt = <<id, IndexOf(s)>>
    BY <2>1, <2>2 DEF TypeOK
  <2>5. \A id \in Batch(s) : id \in 0 .. IndexOf(s).chunks - 1
    BY DEF Batch
  <2>6. \A pt \in points'[Own(s)] : Fingerprint(pt[2]) = Own(s) /\ pt[1] \in 0 .. pt[2].chunks - 1
    BY <2>1, <2>4, <2>5 DEF PointsAreOwn, Own
  <2> QED BY <2>3, <2>6 DEF PointsAreOwn
<1>4. ASSUME NEW s \in Store, Drop(s) PROVE PointsAreOwn'
  BY <1>4 DEF PointsAreOwn, Drop, TypeOK, database
<1>5. UNCHANGED points \/ \E s \in Store : Recreate(s) \/ Upsert(s) \/ Drop(s)
  BY DEF Next, vars, Start, Exit, Construct, Open, Check, CallFails, Create, List, Constructed,
         Close, database
<1> QED BY <1>1, <1>2, <1>3, <1>4, <1>5

\* What a collection holds under the name of an index is of that index.
LEMMA OwnPoints ==
  ASSUME TypeInv, PointsAreOwn, NEW i \in Index
  PROVE  points[Fingerprint(i)] \subseteq Whole(i)
<1>1. Fingerprint(i) \in Name
  BY IndexFields
<1>2. ASSUME NEW pt \in points[Fingerprint(i)] PROVE pt \in Whole(i)
  <2>1. pt \in Nat \X Index
    BY <1>1, <1>2 DEF TypeInv, TypeOK
  <2>2. Fingerprint(pt[2]) = Fingerprint(i) /\ pt[1] \in 0 .. pt[2].chunks - 1
    BY <1>1, <1>2 DEF PointsAreOwn
  <2>3. pt[2] = i
    BY <2>1, <2>2, FingerprintIsInjective
  <2> QED BY <2>1, <2>2, <2>3 DEF Whole
<1> QED BY <1>2

\* A collection never answers for an index it does not hold (vectors.py:201-207), in
\* either mode, however many processes write it: its name tells indexes apart.
THEOREM NoVectorsOfOthers == Spec => []NoForeignVectors
<1> DEFINE PointsInv == TypeInv /\ PointsAreOwn
<1>1. Init => PointsInv
  BY InitType, InitPoints
<1>2. PointsInv /\ [Next]_vars => PointsInv'
  BY NextType, NextPoints
<1>3. PointsInv => NoForeignVectors
  <2> SUFFICES ASSUME PointsInv, NEW s \in Store, pc[s] = "ready"
               PROVE  points[Own(s)] \subseteq Whole(IndexOf(s))
    BY DEF NoForeignVectors
  <2>1. IndexOf(s) \in Index
    BY DEF TypeInv, Live
  <2> QED BY <2>1, OwnPoints DEF Own
<1> QED BY <1>1, <1>2, <1>3, PTL DEF Spec

-----------------------------------------------------------------------------
(* Embedded mode: what a constructed store answers from.                   *)

\* The vectors a constructor has upserted so far.
Part(s) == {<<id, IndexOf(s)>> : id \in {k \in 0 .. IndexOf(s).chunks - 1 : k < cursor[s]}}

Writing == {"recreate", "create", "upsert"}

\* Where a constructor is says what its collection holds, and that nobody answers from
\* a collection that is being written.
ProgressOf(s) ==
  /\ pc[s] = "create" => Own(s) \notin existing /\ points[Own(s)] = {}
  /\ pc[s] = "upsert" => Own(s) \in existing /\ points[Own(s)] = Part(s)
  /\ pc[s] \in {"list", "drop", "ready"} =>
       Own(s) \in existing /\ points[Own(s)] = Whole(IndexOf(s))
  /\ pc[s] = "drop" => existing \subseteq {Own(s)} \cup listed[s] /\ Own(s) \notin listed[s]
  /\ pc[s] = "ready" => existing = {Own(s)}
  /\ pc[s] \in Writing => \A t \in Store : ProcessOf[t] = ProcessOf[s] => pc[t] # "ready"

Progress == mode = "embedded" => \A s \in Store : ProgressOf(s)

ServingInv == RegistryInv /\ PointsAreOwn /\ Progress

LEMMA WholeSize ==
  ASSUME NEW i \in Index
  PROVE  IsFiniteSet(Whole(i)) /\ Cardinality(Whole(i)) = i.chunks
<1> DEFINE ids == 0 .. i.chunks - 1
           f == [id \in ids |-> <<id, i>>]
<1>1. i.chunks \in Nat
  BY IndexFields
<1>2. IsFiniteSet(ids) /\ Cardinality(ids) = i.chunks
  BY <1>1, FS_Interval
<1>3. f \in Surjection(ids, Whole(i)) /\ f \in Injection(ids, Whole(i))
  BY DEF Whole, Surjection, Injection, IsInjective
<1> QED BY <1>2, <1>3, FS_Surjection

\* A complete collection is recognised, and only a complete one is.
LEMMA CurrentIsWhole ==
  ASSUME TypeInv, PointsAreOwn, NEW s \in Store, pc[s] # "idle"
  PROVE  Current(s) <=> Own(s) \in existing /\ points[Own(s)] = Whole(IndexOf(s))
<1>1. IndexOf(s) \in Index
  BY DEF TypeInv, Live
<1>2. points[Own(s)] \subseteq Whole(IndexOf(s))
  BY <1>1, OwnPoints DEF Own
<1> QED BY <1>1, <1>2, WholeSize, FS_Subset DEF Current

\* In embedded mode the stores that hold a client are of one process: they have one
\* index and one collection, and at most one of them is under construction.
LEMMA Together ==
  ASSUME RegistryInv, mode = "embedded",
         NEW s \in Store, NEW t \in Store, pc[s] \in Holding, pc[t] \in Holding
  PROVE  /\ ProcessOf[s] = ProcessOf[t] /\ IndexOf(s) = IndexOf(t) /\ Own(s) = Own(t)
         /\ pc[s] \in Syncing /\ pc[t] \in Syncing => s = t
<1>1. s \in Holders(ProcessOf[s]) /\ t \in Holders(ProcessOf[t])
  BY DEF Holders
<1>2. ProcessOf[s] \in Process /\ ProcessOf[t] \in Process
  BY VectorStoreAssumption
<1>3. registry[ProcessOf[s]].open /\ registry[ProcessOf[t]].open
  BY <1>1, <1>2 DEF RegistryInv, RegistryCountsHolders
<1>4. ProcessOf[s] = ProcessOf[t]
  BY <1>2, <1>3 DEF RegistryInv, Exclusive
<1> QED BY <1>4 DEF IndexOf, Own, RegistryInv, OneSyncing

LEMMA InitProgress == Init => Progress
BY DEF Init, Progress, ProgressOf, Writing

\* While one constructor writes, no other store of embedded mode is under construction
\* or answers.
LEMMA WriterAlone ==
  ASSUME ServingInv, mode = "embedded", NEW s \in Store, pc[s] \in Writing,
         NEW t \in Store \ {s}
  PROVE  pc[t] \notin Syncing \cup {"ready"}
<1>1. pc[s] \in Syncing /\ pc[s] \in Holding
  BY DEF Writing, Syncing, Holding
<1>2. pc[t] \in Syncing \cup {"ready"} => pc[t] \in Holding
  BY DEF Holding
<1>3. pc[t] \in Syncing \cup {"ready"} => ProcessOf[s] = ProcessOf[t] /\ pc[t] \notin Syncing
  BY <1>1, <1>2, Together DEF ServingInv
<1> QED BY <1>3 DEF ServingInv, Progress, ProgressOf

\* A store that is neither under construction nor ready has nothing to keep.
LEMMA AtRest ==
  ASSUME NEW t, pc[t] \notin (Syncing \ {"check"}) \cup {"ready"}
  PROVE  ProgressOf(t)
BY DEF ProgressOf, Syncing, Writing

LEMMA WriteProgress ==
  ASSUME ServingInv, mode = "embedded", NEW s \in Store,
         Recreate(s) \/ Create(s) \/ Upsert(s)
  PROVE  \A t \in Store : ProgressOf(t)'
<1> USE VectorStoreAssumption
<1>1. pc[s] \in Writing /\ UNCHANGED <<loaded, listed>>
  BY DEF Recreate, Create, Upsert, Writing
<1>2. TypeOK /\ IndexOf(s) \in Index /\ Own(s) \in Name /\ ProgressOf(s)
  BY <1>1, IndexFields DEF ServingInv, RegistryInv, TypeInv, Live, Own, Writing, Progress
<1>3. /\ \A t \in Store \ {s} : pc[t] \notin Syncing \cup {"ready"}
      /\ \A t \in Store : ProcessOf[t] = ProcessOf[s] => pc[t] # "ready"
  BY <1>1, <1>2, WriterAlone DEF ProgressOf
<1>4. ASSUME NEW t \in Store \ {s} PROVE ProgressOf(t)'
  <2>1. pc'[t] = pc[t]
    BY <1>2 DEF Recreate, Create, Upsert, Goto, TypeOK
  <2> QED BY <1>3, <2>1 DEF ProgressOf, Syncing, Writing
<1>5. Own(s)' = Own(s) /\ IndexOf(s)' = IndexOf(s)
  BY <1>1 DEF Own, IndexOf
<1>6. ASSUME Recreate(s) PROVE ProgressOf(s)'
  <2>1. /\ pc'[s] = "create" /\ \A t \in Store \ {s} : pc'[t] = pc[t]
        /\ Own(s) \notin existing' /\ points'[Own(s)] = {}
    BY <1>2, <1>6 DEF Recreate, Goto, TypeOK
  <2> QED BY <1>3, <1>5, <2>1 DEF ProgressOf
<1>7. ASSUME Create(s) PROVE ProgressOf(s)'
  <2>1. Own(s) \notin existing /\ points[Own(s)] = {}
    BY <1>2, <1>7 DEF ProgressOf, Create
  <2>2. /\ pc'[s] = "upsert" /\ \A t \in Store \ {s} : pc'[t] = pc[t]
        /\ Own(s) \in existing' /\ points'[Own(s)] = {} /\ cursor'[s] = 0
    BY <1>2, <1>7, <2>1 DEF Create, Goto, TypeOK
  <2>3. Part(s)' = {}
    BY <2>2 DEF Part
  <2> QED BY <1>3, <1>5, <2>2, <2>3 DEF ProgressOf
<1>8. ASSUME Upsert(s) PROVE ProgressOf(s)'
  <2>1. Own(s) \in existing /\ points[Own(s)] = Part(s)
    BY <1>2, <1>8 DEF ProgressOf, Upsert
  <2>2. /\ existing' = existing /\ cursor'[s] = cursor[s] + BatchSize
        /\ points'[Own(s)] = {pt \in Part(s) : pt[1] \notin Batch(s)}
                               \cup {<<id, IndexOf(s)>> : id \in Batch(s)}
        /\ pc'[s] = IF cursor'[s] < IndexOf(s).chunks THEN "upsert" ELSE "list"
        /\ \A t \in Store \ {s} : pc'[t] = pc[t]
    BY <1>2, <1>8, <2>1 DEF Upsert, Goto, TypeOK
  <2>3. cursor[s] \in Nat /\ IndexOf(s).chunks \in Nat /\ BatchSize \in Nat
    BY <1>2, IndexFields DEF TypeOK
  <2>4. points'[Own(s)] = Part(s)'
    <3>1. \A pt : pt \in points'[Own(s)] <=>
            \E id \in 0 .. IndexOf(s).chunks - 1 :
              id < cursor[s] + BatchSize /\ pt = <<id, IndexOf(s)>>
      BY <2>2, <2>3 DEF Part, Batch
    <3>2. \A pt : pt \in Part(s)' <=>
            \E id \in 0 .. IndexOf(s).chunks - 1 :
              id < cursor[s] + BatchSize /\ pt = <<id, IndexOf(s)>>
      BY <1>5, <2>2 DEF Part
    <3> QED BY <3>1, <3>2
  <2>5. pc'[s] = "list" => Part(s)' = Whole(IndexOf(s))
    BY <1>5, <2>2, <2>3 DEF Part, Whole
  <2> QED BY <1>3, <1>5, <2>1, <2>2, <2>4, <2>5 DEF ProgressOf, Whole
<1> QED BY <1>4, <1>6, <1>7, <1>8

LEMMA TidyProgress ==
  ASSUME ServingInv, mode = "embedded", NEW s \in Store,
         List(s) \/ Drop(s) \/ Constructed(s)
  PROVE  \A t \in Store : ProgressOf(t)'
<1> USE VectorStoreAssumption
<1>1. /\ pc[s] \in {"list", "drop"} /\ UNCHANGED <<mode, loaded, cursor>> /\ ~MayFail
      /\ pc[s] \in Syncing /\ pc[s] \in Holding
  BY DEF List, Drop, Constructed, Syncing, Holding, MayFail
<1>2. TypeOK /\ IndexOf(s) \in Index /\ Own(s) \in Name /\ \A t \in Store : ProgressOf(t)
  BY <1>1, IndexFields DEF ServingInv, RegistryInv, TypeInv, Live, Own, Progress
<1>3. Own(s) \in existing /\ points[Own(s)] = Whole(IndexOf(s))
  BY <1>1, <1>2 DEF ProgressOf
<1>4. \A t \in Store : Own(t)' = Own(t) /\ IndexOf(t)' = IndexOf(t) /\ Part(t)' = Part(t)
  BY <1>1 DEF Own, IndexOf, Part
<1>5. /\ Own(s) \in existing' /\ points'[Own(s)] = points[Own(s)]
      /\ existing' \subseteq existing
  <2>1. CASE Drop(s)
    <3>1. Own(s) \notin listed[s]
      BY <1>2, <2>1 DEF ProgressOf, Drop
    <3> QED BY <1>1, <1>2, <1>3, <2>1, <3>1 DEF Drop, TypeOK, database
  <2>2. CASE List(s) \/ Constructed(s)
    BY <1>3, <2>2 DEF List, Constructed, database
  <2> QED BY <2>1, <2>2
<1>6. ASSUME NEW t \in Store \ {s}, pc[t] \in Syncing \cup {"ready"}
      PROVE  pc[t] = "ready" /\ Own(t) = Own(s) /\ IndexOf(t) = IndexOf(s)
  BY <1>1, <1>6, Together DEF ServingInv, Holding
<1>7. ASSUME NEW t \in Store \ {s} PROVE ProgressOf(t)'
  <2>1. pc'[t] = pc[t]
    BY <1>2 DEF List, Drop, Constructed, Goto, TypeOK
  <2>2. CASE pc[t] \in Syncing \cup {"ready"}
    <3>1. pc'[t] = "ready" /\ existing = {Own(s)} /\ Own(t)' = Own(s) /\ IndexOf(t)' = IndexOf(s)
      BY <1>2, <1>4, <1>6, <2>1, <2>2 DEF ProgressOf
    <3>2. existing' = {Own(s)}
      BY <1>5, <3>1
    <3> QED BY <1>3, <1>5, <3>1, <3>2 DEF ProgressOf, Writing, Whole
  <2>3. CASE pc[t] \notin Syncing \cup {"ready"}
    BY <2>1, <2>3 DEF ProgressOf, Syncing, Writing
  <2> QED BY <2>2, <2>3
<1>8. ProgressOf(s)'
  <2>1. CASE List(s)
    <3>1. pc'[s] = "drop" /\ listed'[s] = existing \ {Own(s)} /\ existing' = existing
      BY <1>1, <1>2, <2>1 DEF List, Goto, TypeOK, database
    <3> QED BY <1>3, <1>4, <1>5, <3>1 DEF ProgressOf, Writing, Whole
  <2>2. CASE Drop(s)
    <3>1. /\ pc'[s] = "drop" /\ Own(s) \notin listed[s]
          /\ existing \subseteq {Own(s)} \cup listed[s]
      BY <1>2, <2>2 DEF Drop, ProgressOf
    <3>2. PICK n \in listed[s] : listed'[s] = listed[s] \ {n} /\ existing' = existing \ {n}
      BY <1>1, <1>2, <2>2 DEF Drop, TypeOK
    <3> QED BY <1>3, <1>4, <1>5, <3>1, <3>2 DEF ProgressOf, Writing, Whole
  <2>3. CASE Constructed(s)
    <3>1. pc'[s] = "ready" /\ existing' = {Own(s)}
      BY <1>2, <1>5, <2>3 DEF Constructed, Goto, TypeOK, ProgressOf
    <3> QED BY <1>3, <1>4, <1>5, <3>1 DEF ProgressOf, Writing, Whole
  <2> QED BY <2>1, <2>2, <2>3
<1> QED BY <1>7, <1>8

LEMMA CheckProgress ==
  ASSUME ServingInv, mode = "embedded", NEW s \in Store, Check(s)
  PROVE  \A t \in Store : ProgressOf(t)'
<1> USE VectorStoreAssumption
<1>1. /\ pc[s] = "check" /\ pc[s] \in Syncing /\ pc[s] \in Holding /\ pc[s] # "idle" /\ ~MayFail
      /\ UNCHANGED <<mode, loaded, registry, database, cursor, listed>>
  BY DEF Check, Syncing, Holding, MayFail
<1>2. TypeOK /\ TypeInv /\ PointsAreOwn /\ \A t \in Store : ProgressOf(t)
  BY DEF ServingInv, RegistryInv, TypeInv, Progress
<1>3. \A t \in Store : Own(t)' = Own(t) /\ IndexOf(t)' = IndexOf(t) /\ Part(t)' = Part(t)
  BY <1>1 DEF Own, IndexOf, Part
<1>4. pc' = [pc EXCEPT ![s] = "leaked"] \/ pc' = [pc EXCEPT ![s] = IF Current(s) THEN "list" ELSE "recreate"]
  BY <1>1 DEF Check, Goto
<1>5. ASSUME NEW t \in Store \ {s}, pc[t] \in Syncing \cup {"ready"}
      PROVE  pc[t] = "ready" /\ Current(s)
  <2>1. pc[t] = "ready" /\ Own(t) = Own(s) /\ IndexOf(t) = IndexOf(s)
    BY <1>1, <1>5, Together DEF ServingInv, Holding
  <2>2. Own(s) \in existing /\ points[Own(s)] = Whole(IndexOf(s))
    BY <1>2, <2>1 DEF ProgressOf
  <2> QED BY <1>1, <1>2, <2>1, <2>2, CurrentIsWhole
<1>6. ASSUME NEW t \in Store \ {s} PROVE ProgressOf(t)'
  <2>1. pc'[t] = pc[t]
    BY <1>2, <1>4 DEF TypeOK
  <2>2. CASE pc[t] = "ready"
    BY <1>1, <1>2, <1>3, <2>1, <2>2 DEF ProgressOf, Writing, database, Whole
  <2>3. CASE pc[t] # "ready"
    BY <1>5, <2>1, <2>3 DEF ProgressOf, Syncing, Writing
  <2> QED BY <2>2, <2>3
<1>7. ProgressOf(s)'
  <2>1. CASE pc' = [pc EXCEPT ![s] = "leaked"]
    BY <1>2, <2>1 DEF ProgressOf, TypeOK, Writing
  <2>2. CASE pc' = [pc EXCEPT ![s] = "list"] /\ Current(s)
    <3>1. Own(s) \in existing /\ points[Own(s)] = Whole(IndexOf(s))
      BY <1>1, <1>2, <2>2, CurrentIsWhole
    <3> QED BY <1>1, <1>2, <1>3, <2>2, <3>1 DEF ProgressOf, TypeOK, Writing, database, Whole
  <2>3. CASE pc' = [pc EXCEPT ![s] = "recreate"] /\ ~Current(s)
    <3>1. \A t \in Store \ {s} : pc[t] # "ready" /\ pc'[t] = pc[t]
      BY <1>2, <1>5, <2>3 DEF TypeOK
    <3>2. pc'[s] = "recreate"
      BY <1>2, <2>3 DEF TypeOK
    <3> QED BY <3>1, <3>2 DEF ProgressOf, Writing
  <2> QED BY <1>4, <2>1, <2>2, <2>3
<1> QED BY <1>6, <1>7

LEMMA OpenProgress ==
  ASSUME ServingInv, mode = "embedded", NEW s \in Store, Open(s) \/ Close(s)
  PROVE  \A t \in Store : ProgressOf(t)'
<1> USE VectorStoreAssumption
<1>1. UNCHANGED <<mode, loaded, database, cursor, listed>>
  BY DEF Open, Close
<1>2. TypeOK /\ \A t \in Store : ProgressOf(t)
  BY DEF ServingInv, RegistryInv, TypeInv, Progress
<1>3. PICK step \in {"refused", "check", "closed"} : pc' = [pc EXCEPT ![s] = step]
  BY DEF Open, Close, Goto
<1>4. ASSUME NEW t \in Store PROVE ProgressOf(t)'
  <2>1. Own(t)' = Own(t) /\ IndexOf(t)' = IndexOf(t) /\ Part(t)' = Part(t)
    BY <1>1 DEF Own, IndexOf, Part
  <2>2. CASE t = s
    BY <1>2, <1>3, <2>2 DEF ProgressOf, TypeOK, Writing
  <2>3. CASE t # s
    <3>1. pc'[t] = pc[t] /\ ProgressOf(t)
      BY <1>2, <1>3, <2>3 DEF TypeOK
    <3>2. \A u \in Store : pc'[u] = "ready" => pc[u] = "ready"
      BY <1>2, <1>3 DEF TypeOK
    <3> QED BY <1>1, <2>1, <3>1, <3>2 DEF ProgressOf, database, Whole
  <2> QED BY <2>2, <2>3
<1> QED BY <1>4

LEMMA ProcessProgress ==
  ASSUME ServingInv, mode = "embedded", NEW p \in Process, Start(p) \/ Exit(p)
  PROVE  \A t \in Store : ProgressOf(t)'
<1> USE VectorStoreAssumption
<1>1. UNCHANGED database
  BY DEF Start, Exit
<1>2. TypeOK /\ Live /\ \A t \in Store : ProgressOf(t)
  BY DEF ServingInv, RegistryInv, TypeInv, Progress
<1>3. \A t \in Store : ProcessOf[t] = p => pc'[t] = "idle"
  <2>1. CASE Start(p)
    BY <1>2, <2>1, IndexFields DEF Start, Live, IndexOf
  <2>2. CASE Exit(p)
    BY <2>2 DEF Exit
  <2> QED BY <2>1, <2>2
<1>4. \A t \in Store : ProcessOf[t] # p =>
        /\ loaded'[ProcessOf[t]] = loaded[ProcessOf[t]]
        /\ pc'[t] = pc[t] /\ cursor'[t] = cursor[t] /\ listed'[t] = listed[t]
  BY <1>2 DEF Start, Exit, TypeOK
<1>5. ASSUME NEW t \in Store PROVE ProgressOf(t)'
  <2>1. CASE ProcessOf[t] = p
    BY <1>3, <2>1 DEF ProgressOf, Writing
  <2>2. CASE ProcessOf[t] # p
    <3>1. Own(t)' = Own(t) /\ IndexOf(t)' = IndexOf(t) /\ Part(t)' = Part(t)
      BY <1>4, <2>2 DEF Own, IndexOf, Part
    <3> QED BY <1>1, <1>2, <1>3, <1>4, <2>2, <3>1 DEF ProgressOf, database, Whole
  <2> QED BY <2>1, <2>2
<1> QED BY <1>5

LEMMA NextProgress == ServingInv /\ [Next]_vars => Progress'
<1> SUFFICES ASSUME ServingInv, [Next]_vars, mode' = "embedded"
             PROVE  \A t \in Store : ProgressOf(t)'
  BY DEF Progress
<1>1. CASE UNCHANGED vars
  BY <1>1 DEF ServingInv, Progress, ProgressOf, Own, IndexOf, Part, Whole, vars
<1>2. CASE Next
  <2>1. mode = "embedded"
    BY <1>2 DEF Next, Start, Exit, Construct, Open, Check, CallFails, Recreate, Create, Upsert,
                List, Drop, Constructed, Close
  <2>2. \A s \in Store : ~CallFails(s)
    BY <2>1 DEF CallFails, MayFail
  <2> QED BY <1>2, <2>1, <2>2, ProcessProgress, OpenProgress, CheckProgress, WriteProgress,
             TidyProgress DEF Next, Construct
<1> QED BY <1>1, <1>2

LEMMA ServingInductive == Spec => []ServingInv
<1>1. Init => ServingInv
  BY InitType, InitRegistry, InitPoints, InitProgress DEF ServingInv, RegistryInv
<1>2. ServingInv /\ [Next]_vars => ServingInv'
  <2>1. RegistryInv /\ [Next]_vars => RegistryInv'
    BY NextRegistry
  <2>2. TypeInv /\ TypeInv' /\ PointsAreOwn /\ [Next]_vars => PointsAreOwn'
    BY NextPoints
  <2> QED BY <2>1, <2>2, NextProgress DEF ServingInv, RegistryInv
<1> QED BY <1>1, <1>2, PTL DEF Spec

\* In embedded mode a store that was constructed answers from a complete collection of
\* the index its process read (vectors.py:197-199), whatever was left half-written by
\* the processes before it and whatever the other stores of its process do.
THEOREM StoresServeTheirIndex == Spec => []ServesItsIndex
<1>1. ServingInv => ServesItsIndex
  <2> SUFFICES ASSUME ServingInv, NEW s \in Store, mode = "embedded", pc[s] = "ready"
               PROVE  /\ registry[ProcessOf[s]].open
                      /\ Own(s) \in existing
                      /\ points[Own(s)] = Whole(IndexOf(s))
    BY DEF ServesItsIndex
  <2>1. s \in Holders(ProcessOf[s]) /\ ProcessOf[s] \in Process
    BY VectorStoreAssumption DEF Holders, Holding
  <2> QED BY <2>1 DEF ServingInv, RegistryInv, RegistryCountsHolders, Progress, ProgressOf
<1> QED BY <1>1, ServingInductive, PTL

\* In embedded mode the collection of a constructed store is the only one there is
\* (vectors.py:285-291).
THEOREM NothingSupersededRemains == Spec => []Tidy
<1>1. ServingInv => Tidy
  BY DEF ServingInv, Progress, ProgressOf, Tidy
<1> QED BY <1>1, ServingInductive, PTL
=============================================================================
