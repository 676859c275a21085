----------------------------- MODULE VectorStore -----------------------------
(***************************************************************************)
(* The Qdrant vector store (autopsy/store/vectors.py): the client that the *)
(* stores of one process share by counting references, and the collection  *)
(* that a store brings up to date when it is constructed.                  *)
(*                                                                         *)
(* Processes (the API server, a command line) come and go at any time.     *)
(* Each reads one index when it starts and builds its stores over it one   *)
(* after the other, as every caller in the repository does.  In "embedded" *)
(* mode the collections are files behind an exclusive lock; in "server"    *)
(* mode any number of processes reach them and any call may fail.          *)
(***************************************************************************)
EXTENDS Integers, FiniteSets

CONSTANTS Process,
          Store,      \* the QdrantVectorStore objects
          ProcessOf,  \* store -> the process that constructs it
          Index,      \* the indexes ingest may have written
          BatchSize   \* points in one upsert: 256 in the code

\* What tells two indexes apart; dim is 0 for the concept bags of the offline
\* embedder.
IndexShape == [corpus : Nat, model : Nat, dim : Nat, chunks : Nat]

ASSUME VectorStoreAssumption ==
  /\ ProcessOf \in [Store -> Process]
  /\ Index \subseteq IndexShape
  /\ BatchSize \in Nat \ {0}
  /\ IsFiniteSet(Store)

VARIABLES
  mode,      \* QDRANT_URL or QDRANT_PATH: "server" or "embedded"
  loaded,    \* process -> the index it read, or NoIndex when it is not running
  registry,  \* _CLIENTS: process -> is its client open, and how many hold it
  existing,  \* the collections that exist
  points,    \* collection -> the points in it: <<id, index the vector is from>>
  pc,        \* store -> where its constructor or its life is
  cursor,    \* store -> the points its constructor has upserted
  listed     \* store -> the collections it still means to delete

vars == <<mode, loaded, registry, existing, points, pc, cursor, listed>>
database == <<existing, points>>

NoIndex == [corpus |-> -1, model |-> -1, dim |-> -1, chunks |-> -1]

\* Slip: a collection is named after the shape of what it holds.
FingerprintOfShape(i) == <<0, 0, i.dim, i.chunks>>

\* _fingerprint: the name of an index's collection.
Fingerprint(i) == <<i.corpus, i.model, i.dim, i.chunks>>

Name == {Fingerprint(i) : i \in Index}

IndexOf(s) == loaded[ProcessOf[s]]
Own(s)     == Fingerprint(IndexOf(s))

\* Every vector of an index, at the id of its chunk.
Whole(i) == {<<id, i>> : id \in 0 .. i.chunks - 1}

\* A constructor is running, or has been stopped by an exception in _sync.
Syncing == {"check", "recreate", "create", "upsert", "list", "drop"}
Holding == Syncing \cup {"ready", "leaked"}
Holders(p) == {s \in Store : ProcessOf[s] = p /\ pc[s] \in Holding}

MayFail == mode = "server"

-----------------------------------------------------------------------------
(* The client registry.                                                    *)

\* Another process has the storage folder open.
LockedOut(p) == mode = "embedded" /\ \E q \in Process \ {p} : registry[q].open

\* _acquire_client: the first holder opens the client.
Acquire(p) ==
  registry' = [registry EXCEPT ![p] = [open |-> TRUE, refs |-> @.refs + 1]]

\* Slip: whoever closes first closes for all.
ReleaseForAll(p) ==
  registry' = [registry EXCEPT ![p] = [open |-> FALSE, refs |-> @.refs - 1]]

\* Slip: one close gives two references back.
ReleaseTwice(p) ==
  registry' = [registry EXCEPT ![p] =
                 IF @.refs = 0 THEN @ ELSE [open |-> @.refs > 2, refs |-> @.refs - 2]]

\* _release_client: the last holder closes it.
Release(p) ==
  registry' = [registry EXCEPT ![p] =
                 IF @.refs <= 1 THEN [open |-> FALSE, refs |-> 0]
                 ELSE [open |-> @.open, refs |-> @.refs - 1]]

\* A process starts and reads the index.
Start(p) ==
  /\ loaded[p] = NoIndex
  /\ \E i \in Index : loaded' = [loaded EXCEPT ![p] = i]
  /\ UNCHANGED <<mode, registry, database, pc, cursor, listed>>

\* It ends, or crashes: what it held is gone, what it wrote stays.
Exit(p) ==
  /\ loaded[p] # NoIndex
  /\ loaded' = [loaded EXCEPT ![p] = NoIndex]
  /\ registry' = [registry EXCEPT ![p] = [open |-> FALSE, refs |-> 0]]
  /\ pc' = [s \in Store |-> IF ProcessOf[s] = p THEN "idle" ELSE pc[s]]
  /\ cursor' = [s \in Store |-> IF ProcessOf[s] = p THEN 0 ELSE cursor[s]]
  /\ listed' = [s \in Store |-> IF ProcessOf[s] = p THEN {} ELSE listed[s]]
  /\ UNCHANGED <<mode, database>>

-----------------------------------------------------------------------------
(* The constructor.                                                        *)

Goto(s, step) == pc' = [pc EXCEPT ![s] = step]

\* __init__ up to _sync: the client, or "locked by another process".
Open(s) ==
  /\ pc[s] = "idle"
  /\ loaded[ProcessOf[s]] # NoIndex
  /\ \A t \in Store : ProcessOf[t] = ProcessOf[s] => pc[t] \notin Syncing
  /\ IF LockedOut(ProcessOf[s])
     THEN Goto(s, "refused") /\ UNCHANGED registry
     ELSE Goto(s, "check") /\ Acquire(ProcessOf[s])
  /\ UNCHANGED <<mode, loaded, database, cursor, listed>>

\* Slip: a collection with the right name is taken for a complete one.
CurrentByName(s) == Own(s) \in existing

\* The collection is there and holds as many points as the index has chunks.
Current(s) ==
  /\ Own(s) \in existing
  /\ Cardinality(points[Own(s)]) = IndexOf(s).chunks

\* Slip: an up-to-date collection is served at once, without the clean-up.
CheckUntidy(s) ==
  /\ pc[s] = "check"
  /\ IF IndexOf(s).chunks = 0 \/ IndexOf(s).dim = 0
     THEN Goto(s, "leaked")
     ELSE Goto(s, IF Current(s) THEN "ready" ELSE "recreate")
  /\ UNCHANGED <<mode, loaded, registry, database, cursor, listed>>

\* _sync up to recreate_collection.  An index it cannot hold raises; an exception
\* of get_collection counts as "missing".
Check(s) ==
  /\ pc[s] = "check"
  /\ IF IndexOf(s).chunks = 0 \/ IndexOf(s).dim = 0
     THEN Goto(s, "leaked")
     ELSE \/ Goto(s, IF Current(s) THEN "list" ELSE "recreate")
          \/ MayFail /\ Goto(s, "recreate")
  /\ UNCHANGED <<mode, loaded, registry, database, cursor, listed>>

\* A call of _sync that raises leaves the constructor; the client stays acquired.
CallFails(s) ==
  /\ pc[s] \in {"recreate", "create", "upsert"}
  /\ MayFail
  /\ Goto(s, "leaked")
  /\ UNCHANGED <<mode, loaded, registry, database, cursor, listed>>

\* recreate_collection: delete, whether or not it is there, ...
Recreate(s) ==
  /\ pc[s] = "recreate"
  /\ Goto(s, "create")
  /\ existing' = existing \ {Own(s)}
  /\ points' = [points EXCEPT ![Own(s)] = {}]
  /\ UNCHANGED <<mode, loaded, registry, cursor, listed>>

\* ... and create, which fails if somebody else has just done so.
Create(s) ==
  /\ pc[s] = "create"
  /\ IF Own(s) \in existing
     THEN Goto(s, "leaked") /\ UNCHANGED <<database, cursor>>
     ELSE /\ Goto(s, "upsert")
          /\ existing' = existing \cup {Own(s)}
          /\ cursor' = [cursor EXCEPT ![s] = 0]
          /\ UNCHANGED points
  /\ UNCHANGED <<mode, loaded, registry, listed>>

\* The ids of the next batch.
Batch(s) == {id \in 0 .. IndexOf(s).chunks - 1 :
               cursor[s] <= id /\ id < cursor[s] + BatchSize}

\* One upsert: it replaces the points with the same ids.
Upsert(s) ==
  /\ pc[s] = "upsert"
  /\ IF Own(s) \notin existing
     THEN Goto(s, "leaked") /\ UNCHANGED <<database, cursor>>
     ELSE /\ points' = [points EXCEPT ![Own(s)] =
                          {pt \in @ : pt[1] \notin Batch(s)}
                            \cup {<<id, IndexOf(s)>> : id \in Batch(s)}]
          /\ cursor' = [cursor EXCEPT ![s] = @ + BatchSize]
          /\ Goto(s, IF cursor'[s] < IndexOf(s).chunks THEN "upsert" ELSE "list")
          /\ UNCHANGED existing
  /\ UNCHANGED <<mode, loaded, registry, listed>>

\* _drop_superseded: the other collections of the program, unless the call fails.
List(s) ==
  /\ pc[s] = "list"
  /\ Goto(s, "drop")
  /\ \/ listed' = [listed EXCEPT ![s] = existing \ {Own(s)}]
     \/ MayFail /\ listed' = [listed EXCEPT ![s] = {}]
  /\ UNCHANGED <<mode, loaded, registry, database, cursor>>

\* One delete_collection; a failure is swallowed.
Drop(s) ==
  /\ pc[s] = "drop"
  /\ \E n \in listed[s] :
       /\ listed' = [listed EXCEPT ![s] = @ \ {n}]
       /\ \/ existing' = existing \ {n} /\ points' = [points EXCEPT ![n] = {}]
          \/ MayFail /\ UNCHANGED database
  /\ UNCHANGED <<mode, loaded, registry, pc, cursor>>

Constructed(s) ==
  /\ pc[s] = "drop"
  /\ listed[s] = {}
  /\ Goto(s, "ready")
  /\ UNCHANGED <<mode, loaded, registry, database, cursor, listed>>

\* close, by the thread that owns the store; a second close does nothing.
Close(s) ==
  /\ pc[s] = "ready"
  /\ Goto(s, "closed")
  /\ Release(ProcessOf[s])
  /\ UNCHANGED <<mode, loaded, database, cursor, listed>>

-----------------------------------------------------------------------------
Init ==
  /\ mode \in {"embedded", "server"}
  /\ loaded = [p \in Process |-> NoIndex]
  /\ registry = [p \in Process |-> [open |-> FALSE, refs |-> 0]]
  /\ existing = {}
  /\ points = [n \in Name |-> {}]
  /\ pc = [s \in Store |-> "idle"]
  /\ cursor = [s \in Store |-> 0]
  /\ listed = [s \in Store |-> {}]

Construct(s) == \/ Open(s) \/ Check(s) \/ CallFails(s) \/ Recreate(s) \/ Create(s)
                \/ Upsert(s) \/ List(s) \/ Drop(s) \/ Constructed(s)

Next == \/ \E p \in Process : Start(p) \/ Exit(p)
        \/ \E s \in Store : Construct(s) \/ Close(s)

Spec == Init /\ [][Next]_vars

-----------------------------------------------------------------------------
(* Properties.                                                             *)

\* The types of the variables.
TypeOK ==
  /\ mode \in {"embedded", "server"}
  /\ loaded \in [Process -> Index \cup {NoIndex}]
  /\ registry \in [Process -> [open : BOOLEAN, refs : Nat]]
  /\ existing \subseteq Name
  /\ points \in [Name -> SUBSET (Nat \X Index)]
  /\ pc \in [Store -> Holding \cup {"idle", "refused", "closed"}]
  /\ cursor \in [Store -> Nat]
  /\ listed \in [Store -> SUBSET Name]

\* The registry counts exactly the stores that hold the client, those whose
\* constructor raised included, and the client is open while there is one
\* (vectors.py:135-176): nobody closes it under another holder, and the last close
\* does close it.
RegistryCountsHolders ==
  \A p \in Process :
    /\ registry[p].refs = Cardinality(Holders(p))
    /\ registry[p].open <=> Holders(p) # {}

\* A store that was constructed serves its whole index (vectors.py:197-199): whatever
\* crashed half way through a sync before, and whatever the other stores of the
\* process do, the client is open and the collection holds every vector of the
\* index the process read, and no other.  Embedded mode only: see StaleIsUnreachable.
ServesItsIndex ==
  \A s \in Store :
    mode = "embedded" /\ pc[s] = "ready" =>
      /\ registry[ProcessOf[s]].open
      /\ Own(s) \in existing
      /\ points[Own(s)] = Whole(IndexOf(s))

\* A collection never answers for an index it does not hold (vectors.py:201-207), in
\* either mode, and though any number of processes write the same server.
NoForeignVectors ==
  \A s \in Store : pc[s] = "ready" => points[Own(s)] \subseteq Whole(IndexOf(s))

\* The storage folder does not grow by one copy of the corpus per ingest
\* (vectors.py:285-291): once a store is constructed, its collection is the only one,
\* even when an earlier process was stopped between its sync and its clean-up.
Tidy ==
  \A s \in Store : mode = "embedded" /\ pc[s] = "ready" => existing = {Own(s)}

\* "Not required for correctness -- a stale collection is unreachable once the name
\* has changed" (vectors.py:288-289): no store is about to delete the collection that
\* another one, still running over the index of an earlier ingest, answers from.
StaleIsUnreachable ==
  \A s, t \in Store : pc[t] = "ready" => Own(t) \notin listed[s]
=============================================================================
