--------------------------- MODULE StreamingProofs ---------------------------
(***************************************************************************)
(* Invariance proofs for the sockets, for any number of sockets, threads   *)
(* and events: the pipeline outlives its runs, and a client receives the   *)
(* events of its own run, numbered one after the other.                    *)
(***************************************************************************)
EXTENDS Streaming, SequenceTheorems, FiniteSetTheorems, TLAPS

-----------------------------------------------------------------------------
(* Types.                                                                  *)

LEMMA MessageType ==
  ASSUME NEW s \in Socket, run \in [Socket -> {0, 1}], NEW what \in What, NEW n \in Nat
  PROVE  Message(s, what, n) \in Msg
BY DEF Message, Msg

\* The queues of the system only ever grow at one end and shrink at the other.
LEMMA QueueType ==
  ASSUME NEW S, NEW q \in Seq(S)
  PROVE  /\ \A m \in S : Append(q, m) \in Seq(S)
         /\ q # <<>> => Head(q) \in S /\ Tail(q) \in Seq(S)
BY HeadTailProperties, AppendProperties

LEMMA InitType == Init => TypeOK
BY StreamingAssumption DEF Init, TypeOK

\* The sockets' types, and the rest of the types, apart.
LEMMA HandlerType ==
  ASSUME TypeOK, NEW s \in Socket,
         Connect(s) \/ Disconnect(s) \/ Leave(s) \/ Reply(s) \/ Die(s) \/ Join(s)
  PROVE  TypeOK'
<1>1. \A what \in What : <<Message(s, what, 0)>> \in Seq(Msg)
  <2>1. run \in [Socket -> {0, 1}]
    BY DEF TypeOK
  <2>2. ASSUME NEW what \in What PROVE Message(s, what, 0) \in Msg
    BY <2>1, MessageType
  <2>3. ASSUME NEW m \in Msg PROVE <<m>> \in Seq(Msg)
    OBVIOUS
  <2> QED BY <2>2, <2>3
<1>2. <<>> \in Seq(Msg)
  OBVIOUS
<1>3. sent' \in [Socket -> Seq(Msg)]
  BY <1>1, <1>2 DEF TypeOK, What, Connect, Disconnect, Leave, Reply, Die, Join, Cut
<1>4. connected' \in [Socket -> BOOLEAN]
  BY DEF TypeOK, Connect, Disconnect, Leave, Reply, Die, Join, Cut
<1>5. handler' \in [Socket -> {"waiting", "sending", "joining", "abandoning", "gone"}]
  BY DEF TypeOK, Connect, Disconnect, Leave, Reply, Die, Join
<1>6. UNCHANGED <<server, run, thread, loop, queue>>
  BY DEF Connect, Disconnect, Leave, Reply, Die, Join
<1> QED BY <1>3, <1>4, <1>5, <1>6 DEF TypeOK, server, thread

LEMMA AcceptType == ASSUME TypeOK, NEW s \in Socket, Accept(s) PROVE TypeOK'
<1>1. run' \in [Socket -> {0, 1}]
  <2>1. run \in [Socket -> {0, 1}] /\ run' = [run EXCEPT ![s] = 1 - @]
    BY DEF TypeOK, Accept
  <2>2. run[s] = 0 \/ run[s] = 1
    BY <2>1
  <2>3. 1 - run[s] \in {0, 1}
    BY <2>2
  <2> QED BY <2>1, <2>3
<1>2. <<>> \in Seq(Msg)
  OBVIOUS
<1>3. [Message(s, "started", 0) EXCEPT !.run = run'[s]] \in Msg
  BY <1>1 DEF Message, Msg, What, TypeOK
<1>4. sent' \in [Socket -> Seq(Msg)]
  BY <1>2, <1>3 DEF TypeOK, Accept
<1>5. queue' \in [Socket -> Seq(Msg)]
  BY <1>2 DEF TypeOK, Accept
<1>6. pool' \in Seq(Socket)
  BY QueueType DEF TypeOK, Accept
<1> QED BY <1>1, <1>4, <1>5, <1>6 DEF TypeOK, Accept, server

LEMMA WorkType == ASSUME TypeOK, NEW s \in Socket, Work(s) PROVE TypeOK'
<1> USE StreamingAssumption
<1>1. loop' \in Seq(Msg)
  <2>1. ASSUME NEW what \in What, NEW n \in Nat, Post(s, what, n) PROVE loop' \in Seq(Msg)
    BY <2>1, MessageType, QueueType DEF Post, TypeOK
  <2>2. count[s] + 1 \in Nat
    BY DEF TypeOK
  <2> QED BY <2>1, <2>2 DEF Work, Emit, Raise, Conclude, Last, End, What
<1>2. count' \in [Socket -> Nat] /\ \A t \in Socket : count'[t] <= MaxEvents[t]
  <2>1. count[s] \in Nat /\ MaxEvents[s] \in Nat
    BY DEF TypeOK
  <2>2. CASE Emit(s)
    BY <2>1, <2>2 DEF Emit, TypeOK
  <2>3. CASE Raise(s) \/ Conclude(s)
    BY <2>3 DEF Raise, Conclude, Last, TypeOK
  <2>4. CASE End(s)
    BY <2>1, <2>4 DEF End, TypeOK
  <2> QED BY <2>2, <2>3, <2>4 DEF Work
<1>3. worker' \in [Socket -> {"waiting", "running", "ending", "finished"}]
  BY DEF TypeOK, Work, Emit, Raise, Conclude, Last, End
<1>4. UNCHANGED <<server, connected, handler, run, queue, sent, pool>>
  BY DEF Work, Emit, Raise, Conclude, Last, End
<1> QED BY <1>1, <1>2, <1>3, <1>4 DEF TypeOK, server

LEMMA ForwardType == ASSUME TypeOK, NEW s \in Socket, Forward(s) PROVE TypeOK'
<1> DEFINE m == Head(queue[s])
<1>1. queue[s] \in Seq(Msg) /\ queue[s] # <<>>
  BY DEF TypeOK, Forward
<1>2. m \in Msg /\ queue' \in [Socket -> Seq(Msg)]
  BY <1>1, QueueType DEF TypeOK, Forward
<1>3. [m EXCEPT !.what = "done"] \in Msg
  BY <1>2 DEF Msg, What
<1>4. ASSUME NEW x \in Msg, NEW next \in {"sending", "joining"}, Send(s, x, next)
      PROVE  /\ sent' \in [Socket -> Seq(Msg)]
             /\ handler' \in [Socket -> {"waiting", "sending", "joining", "abandoning", "gone"}]
  <2>1. sent \in [Socket -> Seq(Msg)] /\ sent[s] \in Seq(Msg)
    BY DEF TypeOK
  <2>2. Append(sent[s], x) \in Seq(Msg)
    BY <2>1, QueueType
  <2>3. sent' = sent \/ sent' = [sent EXCEPT ![s] = Append(@, x)]
    BY <1>4 DEF Send
  <2>4. \E where \in {"sending", "joining", "abandoning"} :
          handler' = [handler EXCEPT ![s] = where]
    BY <1>4 DEF Send
  <2> QED BY <2>1, <2>2, <2>3, <2>4 DEF TypeOK
<1>5. /\ sent' \in [Socket -> Seq(Msg)]
      /\ handler' \in [Socket -> {"waiting", "sending", "joining", "abandoning", "gone"}]
  <2>1. CASE m.what # END
    BY <1>2, <1>4, <2>1 DEF Forward
  <2>2. CASE m.what = END /\ Kind[s] = "eval"
    BY <1>3, <1>4, <2>2 DEF Forward
  <2>3. CASE m.what = END /\ Kind[s] # "eval"
    BY <2>3 DEF Forward, TypeOK
  <2> QED BY <2>1, <2>2, <2>3
<1> QED BY <1>2, <1>5 DEF TypeOK, Forward, server, thread

LEMMA SystemType == ASSUME TypeOK, StartWork \/ Deliver \/ Stop \/ Down \/ Up PROVE TypeOK'
<1>1. CASE StartWork
  <2>1. Head(pool) \in Socket /\ Tail(pool) \in Seq(Socket)
    BY <1>1, QueueType DEF StartWork, TypeOK
  <2> QED BY <1>1, <2>1 DEF StartWork, TypeOK, server
<1>2. CASE Deliver
  <2>1. Head(loop) \in Msg /\ Tail(loop) \in Seq(Msg)
    BY <1>2, QueueType DEF Deliver, TypeOK
  <2>2. Head(loop).of \in Socket
    BY <2>1 DEF Msg
  <2>3. queue' \in [Socket -> Seq(Msg)]
    BY <1>2, <2>1, <2>2, QueueType DEF Deliver, TypeOK
  <2> QED BY <1>2, <2>1, <2>3 DEF Deliver, TypeOK, server, thread
<1>3. CASE Stop
  <2>1. <<>> \in Seq(Msg)
    OBVIOUS
  <2> QED BY <1>3, <2>1 DEF Stop, Cut, TypeOK, thread
<1>4. CASE Down \/ Up
  BY <1>4 DEF Down, Up, TypeOK, thread
<1> QED BY <1>1, <1>2, <1>3, <1>4

LEMMA NextType == TypeOK /\ [Next]_vars => TypeOK'
<1>1. TypeOK /\ UNCHANGED vars => TypeOK'
  BY DEF TypeOK, vars, server, thread
<1> QED BY <1>1, HandlerType, AcceptType, WorkType, ForwardType, SystemType DEF Next, Handle

\* The variables keep their types: every message on its way is one of a run of a socket.
THEOREM TypeInvariant == Spec => []TypeOK
BY InitType, NextType, PTL DEF Spec

-----------------------------------------------------------------------------
(* The pipeline of the process.                                            *)

\* A run has a handler that will wait for its thread, ...
Tended ==
  \A s \in Socket : worker[s] # "finished" => handler[s] \in {"sending", "joining", "abandoning"}

\* ... what waits for a thread is a run that waits, once, ...
Pooled ==
  /\ \A i \in DOMAIN pool : worker[pool[i]] = "waiting"
  /\ \A i, j \in DOMAIN pool : pool[i] = pool[j] => i = j

\* ... and the server is down only without handlers.
Served ==
  /\ pipeline = (app # "down")
  /\ app = "down" => \A s \in Socket : handler[s] = "gone"

LifeInv == TypeOK /\ Tended /\ Pooled /\ Served

LEMMA InitLife == Init => Tended /\ Pooled /\ Served
<1> SUFFICES ASSUME Init PROVE Tended /\ Pooled /\ Served
  OBVIOUS
<1>1. DOMAIN pool = {}
  BY DEF Init
<1>2. Tended /\ Pooled
  BY <1>1 DEF Init, Tended, Pooled
<1>3. Served
  BY DEF Init, Served
<1> QED BY <1>2, <1>3

\* A handler that waits for the next request, or has gone, left no thread behind.
LEMMA HandlerLife ==
  ASSUME LifeInv, NEW s \in Socket,
         Connect(s) \/ Disconnect(s) \/ Leave(s) \/ Reply(s) \/ Die(s) \/ Join(s)
  PROVE  Tended' /\ Pooled' /\ Served'
<1> USE DEF LifeInv
<1>1. UNCHANGED <<server, worker, pool>>
  BY DEF Connect, Disconnect, Leave, Reply, Die, Join, thread
<1>2. /\ \A t \in Socket \ {s} : handler'[t] = handler[t]
      /\ handler'[s] # handler[s] => worker[s] = "finished"
  BY DEF Connect, Disconnect, Leave, Reply, Die, Join, Tended, TypeOK
<1>3. Tended'
  BY <1>1, <1>2 DEF Tended
<1>4. Pooled'
  BY <1>1 DEF Pooled
<1>5. Served'
  <2>1. app = "down" => handler[s] = "gone" /\ handler'[s] = "gone"
    BY DEF Served, Connect, Disconnect, Leave, Reply, Die, Join
  <2> QED BY <1>1, <1>2, <2>1 DEF Served, server
<1> QED BY <1>3, <1>4, <1>5

LEMMA AcceptLife ==
  ASSUME LifeInv, NEW s \in Socket, Accept(s)
  PROVE  Tended' /\ Pooled' /\ Served'
<1> USE DEF LifeInv
<1>1. /\ handler[s] = "waiting" /\ UNCHANGED server /\ pool' = Append(pool, s)
      /\ handler' = [handler EXCEPT ![s] = "sending"]
      /\ worker' = [worker EXCEPT ![s] = "waiting"]
  BY DEF Accept
<1>2. worker[s] = "finished"
  BY <1>1 DEF Tended, TypeOK
<1>3. Tended'
  BY <1>1 DEF Tended, TypeOK
<1>4. Pooled'
  <2>1. /\ DOMAIN pool' = 1 .. Len(pool) + 1 /\ DOMAIN pool = 1 .. Len(pool)
        /\ \A i \in DOMAIN pool : pool'[i] = pool[i] /\ pool[i] \in Socket
        /\ pool'[Len(pool) + 1] = s /\ Len(pool) \in Nat
    BY <1>1, AppendProperties, LenProperties DEF TypeOK
  <2>2. \A i \in DOMAIN pool : pool[i] # s
    BY <1>2 DEF Pooled
  <2>3. \A i \in DOMAIN pool' : i \in DOMAIN pool \/ i = Len(pool) + 1
    BY <2>1
  <2>4. \A i \in DOMAIN pool' : worker'[pool'[i]] = "waiting"
    BY <1>1, <2>1, <2>2, <2>3 DEF Pooled, TypeOK
  <2>5. \A i, j \in DOMAIN pool' : pool'[i] = pool'[j] => i = j
    BY <2>1, <2>2, <2>3 DEF Pooled
  <2> QED BY <2>4, <2>5 DEF Pooled
<1>5. Served'
  BY <1>1 DEF Served, server
<1> QED BY <1>3, <1>4, <1>5

LEMMA WorkLife ==
  ASSUME LifeInv, NEW s \in Socket, Work(s)
  PROVE  Tended' /\ Pooled' /\ Served'
<1> USE DEF LifeInv
<1>1. /\ UNCHANGED <<server, handler, pool>> /\ worker[s] \in {"running", "ending"}
      /\ \A t \in Socket \ {s} : worker'[t] = worker[t]
  BY DEF Work, Emit, Raise, Conclude, Last, End, TypeOK
<1>2. Tended'
  BY <1>1 DEF Tended
<1>3. Pooled'
  <2>1. \A i \in DOMAIN pool : pool[i] \in Socket
    BY DEF TypeOK
  <2> QED BY <1>1, <2>1 DEF Pooled
<1>4. Served'
  BY <1>1 DEF Served, server
<1> QED BY <1>2, <1>3, <1>4

LEMMA ForwardLife ==
  ASSUME LifeInv, NEW s \in Socket, Forward(s)
  PROVE  Tended' /\ Pooled' /\ Served'
<1> USE DEF LifeInv
<1>1. /\ handler[s] = "sending" /\ UNCHANGED <<server, thread>>
      /\ \E where \in {"sending", "joining", "abandoning"} :
           handler' = [handler EXCEPT ![s] = where]
  BY DEF Forward, Send
<1>2. Tended'
  BY <1>1 DEF Tended, TypeOK, thread
<1>3. Pooled' /\ Served'
  BY <1>1 DEF Pooled, Served, server, thread
<1> QED BY <1>2, <1>3

LEMMA StartWorkLife ==
  ASSUME LifeInv, StartWork
  PROVE  Tended' /\ Pooled' /\ Served'
<1> USE DEF LifeInv
<1>1. /\ pool # <<>> /\ UNCHANGED <<server, handler>> /\ pool' = Tail(pool)
      /\ worker' = [worker EXCEPT ![Head(pool)] = "running"]
  BY DEF StartWork
<1>2. /\ Head(pool) = pool[1] /\ 1 \in DOMAIN pool
      /\ \A i \in DOMAIN pool' : /\ i + 1 \in DOMAIN pool /\ pool'[i] = pool[i + 1] /\ i + 1 # 1
                                  /\ pool[i + 1] \in Socket /\ i \in Nat
      /\ pool[1] \in Socket
  BY <1>1, HeadTailProperties, LenProperties DEF TypeOK
<1>3. Tended'
  BY <1>1, <1>2 DEF Tended, Pooled, TypeOK
<1>4. Pooled'
  <2>1. ASSUME NEW i \in DOMAIN pool' PROVE worker'[pool'[i]] = "waiting"
    <3>1. pool[i + 1] # pool[1] /\ worker[pool[i + 1]] = "waiting"
      BY <1>2 DEF Pooled
    <3> QED BY <1>1, <1>2, <3>1 DEF TypeOK
  <2>2. ASSUME NEW i \in DOMAIN pool', NEW j \in DOMAIN pool', pool'[i] = pool'[j] PROVE i = j
    BY <1>2, <2>2 DEF Pooled
  <2> QED BY <2>1, <2>2 DEF Pooled
<1>5. Served'
  BY <1>1 DEF Served, server
<1> QED BY <1>3, <1>4, <1>5

LEMMA ServerLife ==
  ASSUME LifeInv, Deliver \/ Stop \/ Down \/ Up
  PROVE  Tended' /\ Pooled' /\ Served'
<1>1. UNCHANGED <<worker, pool, handler>>
  BY DEF Deliver, Stop, Down, Up, thread
<1>2. Tended' /\ Pooled'
  BY <1>1 DEF LifeInv, Tended, Pooled
<1>3. Served'
  BY <1>1 DEF LifeInv, Served, Deliver, Stop, Down, Up, server
<1> QED BY <1>2, <1>3

LEMMA NextLife == LifeInv /\ [Next]_vars => LifeInv'
<1> SUFFICES ASSUME LifeInv, [Next]_vars PROVE LifeInv'
  OBVIOUS
<1>1. TypeOK'
  BY NextType DEF LifeInv
<1>2. CASE UNCHANGED vars
  BY <1>1, <1>2 DEF LifeInv, Tended, Pooled, Served, vars, server, thread
<1>3. CASE Next
  BY <1>1, <1>3, HandlerLife, AcceptLife, WorkLife, ForwardLife, StartWorkLife, ServerLife
     DEF Next, Handle, LifeInv
<1> QED BY <1>2, <1>3

\* close_state never closes the pipeline under a run (state.py:54-65): the handler of a
\* client that left, or of a server that stops, awaits its thread first.
THEOREM PipelineIsKept == Spec => []PipelineOutlivesRuns
<1>1. Init => LifeInv
  BY InitType, InitLife DEF LifeInv
<1>2. LifeInv => PipelineOutlivesRuns
  BY DEF LifeInv, Tended, Served, PipelineOutlivesRuns
<1> QED BY <1>1, <1>2, NextLife, PTL DEF Spec

-----------------------------------------------------------------------------
(* Events: what is counted in a list of messages.                          *)

Events(f, i) == Cardinality({j \in 1 .. i : f[j].what = "event"})

LEMMA NoEvents ==
  /\ Len(<<>>) = 0 /\ Events(<<>>, 0) = 0
  /\ \A m : m.what # "event" => Len(<<m>>) = 1 /\ Events(<<m>>, 1) = 0
<1>1. ASSUME NEW f, NEW i \in Nat, \A j \in 1 .. i : f[j].what # "event"
      PROVE  Events(f, i) = 0
  <2>1. {j \in 1 .. i : f[j].what = "event"} = {}
    BY <1>1
  <2> QED BY <2>1, FS_EmptySet DEF Events
<1>2. Events(<<>>, 0) = 0
  BY <1>1
<1>3. ASSUME NEW m, m.what # "event" PROVE Events(<<m>>, 1) = 0
  <2>1. \A j \in 1 .. 1 : <<m>>[j].what # "event"
    BY <1>3
  <2> QED BY <1>1, <2>1
<1> QED BY <1>2, <1>3

LEMMA EventsType ==
  ASSUME NEW f, NEW i \in Nat
  PROVE  Events(f, i) \in Nat
<1>1. IsFiniteSet(1 .. i) /\ {j \in 1 .. i : f[j].what = "event"} \subseteq 1 .. i
  BY FS_Interval
<1>2. IsFiniteSet({j \in 1 .. i : f[j].what = "event"})
  BY <1>1, FS_Subset
<1> QED BY <1>2, FS_CardinalityType DEF Events

LEMMA EventsAppend ==
  ASSUME NEW f \in Seq(Msg), NEW m \in Msg
  PROVE  /\ \A i \in 0 .. Len(f) : Events(Append(f, m), i) = Events(f, i)
         /\ Events(Append(f, m), Len(f) + 1) =
              Events(f, Len(f)) + IF m.what = "event" THEN 1 ELSE 0
<1> DEFINE g == Append(f, m)
           n == Len(f)
           E == {j \in 1 .. n : f[j].what = "event"}
<1>1. n \in Nat /\ \A i \in 1 .. n : g[i] = f[i]
  BY AppendProperties, LenProperties
<1>2. g[n + 1] = m
  BY AppendProperties
<1> HIDE DEF g, n
<1>3. ASSUME NEW i \in 0 .. n PROVE Events(g, i) = Events(f, i)
  <2>1. {j \in 1 .. i : g[j].what = "event"} = {j \in 1 .. i : f[j].what = "event"}
    BY <1>1
  <2> QED BY <2>1 DEF Events
<1>4. {j \in 1 .. n + 1 : g[j].what = "event"} =
        E \cup IF m.what = "event" THEN {n + 1} ELSE {}
  BY <1>1, <1>2
<1>5. IsFiniteSet(E) /\ n + 1 \notin E /\ Cardinality(E) \in Nat
  <2>1. IsFiniteSet(1 .. n) /\ E \subseteq 1 .. n
    BY <1>1, FS_Interval
  <2>2. IsFiniteSet(E)
    BY <2>1, FS_Subset
  <2>3. n + 1 \notin E
    BY <1>1
  <2> QED BY <2>2, <2>3, FS_CardinalityType
<1>6. CASE m.what = "event"
  <2>1. Cardinality(E \cup {n + 1}) = Cardinality(E) + 1
    BY <1>5, FS_AddElement
  <2>2. Events(g, n + 1) = Events(f, n) + 1
    BY <1>4, <1>6, <2>1 DEF Events
  <2> QED BY <1>3, <1>6, <2>2 DEF g, n
<1>7. CASE m.what # "event"
  <2>1. {j \in 1 .. n + 1 : g[j].what = "event"} = E
    BY <1>4, <1>7
  <2>2. Events(g, n + 1) = Cardinality(E) /\ Events(f, n) = Cardinality(E)
    BY <2>1 DEF Events
  <2>3. Events(g, n + 1) = Events(f, n) + 0
    BY <1>5, <2>2
  <2> QED BY <1>3, <1>7, <2>3 DEF g, n
<1> QED BY <1>6, <1>7

\* What ClientSeesItsRun says of a list of messages.
Seen(s, r, f) ==
  \A i \in DOMAIN f :
    /\ f[i].of = s /\ f[i].run = r
    /\ f[i].what = "event" => f[i].n = Events(f, i)

LEMMA SeenAppend ==
  ASSUME NEW s, NEW r, NEW f \in Seq(Msg), Seen(s, r, f), NEW m \in Msg,
         m.of = s, m.run = r, m.what = "event" => m.n = Events(f, Len(f)) + 1
  PROVE  Seen(s, r, Append(f, m))
<1> DEFINE g == Append(f, m)
           n == Len(f)
<1>1. /\ n \in Nat /\ DOMAIN g = 1 .. n + 1 /\ DOMAIN f = 1 .. n
      /\ \A i \in 1 .. n : g[i] = f[i]
      /\ g[n + 1] = m
  BY AppendProperties, LenProperties
<1>2. /\ \A i \in 0 .. n : Events(g, i) = Events(f, i)
      /\ m.what = "event" => Events(g, n + 1) = Events(f, n) + 1
  BY EventsAppend
<1> HIDE DEF g
<1>3. ASSUME NEW i \in 1 .. n + 1
      PROVE  /\ g[i].of = s /\ g[i].run = r
             /\ g[i].what = "event" => g[i].n = Events(g, i)
  <2>1. CASE i = n + 1
    BY <1>1, <1>2, <2>1
  <2>2. CASE i \in 1 .. n
    BY <1>1, <1>2, <2>2 DEF Seen
  <2> QED BY <1>1, <2>1, <2>2
<1> QED BY <1>1, <1>3 DEF Seen, g

-----------------------------------------------------------------------------
(* The events of a run on their way to the client.                         *)

\* An event of run r of s, among the messages of everybody.
In(s, r, m) == m.of = s /\ m.run = r /\ m.what = "event"

\* The events in a list are t + 1, t + 2, ... in this order.
Counts(s, r, f, t) ==
  /\ \A i \in DOMAIN f : In(s, r, f[i]) =>
       /\ f[i].n > t
       /\ f[i].n = t + 1 \/ \E j \in 1 .. i - 1 : In(s, r, f[j]) /\ f[j].n + 1 = f[i].n
  /\ \A i, j \in DOMAIN f : i < j /\ In(s, r, f[i]) /\ In(s, r, f[j]) => f[i].n < f[j].n

\* The last of them, or t if there are none, is the one the thread emitted last.
UpTo(s, r, f, t, last) ==
  /\ t <= last
  /\ \A i \in DOMAIN f : In(s, r, f[i]) => f[i].n <= last
  /\ last = t \/ \E i \in DOMAIN f : In(s, r, f[i]) /\ f[i].n = last

\* Another's message may leave the list, ...
LEMMA CountsWithout ==
  ASSUME NEW s, NEW r, NEW f \in Seq(Msg), NEW g \in Seq(Msg), NEW t \in Nat, NEW last \in Nat,
         NEW p \in DOMAIN f, ~In(s, r, f[p]),
         Len(g) + 1 = Len(f),
         \A i \in DOMAIN g : g[i] = IF i < p THEN f[i] ELSE f[i + 1]
  PROVE  /\ Counts(s, r, f, t) => Counts(s, r, g, t)
         /\ UpTo(s, r, f, t, last) => UpTo(s, r, g, t, last)
<1>1. /\ DOMAIN f = 1 .. Len(f) /\ DOMAIN g = 1 .. Len(g) /\ Len(f) \in Nat /\ Len(g) \in Nat
      /\ p \in Nat
  BY LenProperties
<1> DEFINE old(i) == IF i < p THEN i ELSE i + 1
           new(i) == IF i < p THEN i ELSE i - 1
<1>2. /\ \A i \in DOMAIN g : old(i) \in DOMAIN f /\ g[i] = f[old(i)]
      /\ \A i, j \in DOMAIN g : i < j => old(i) < old(j)
  BY <1>1
<1>3. \A i \in DOMAIN f : i # p => new(i) \in DOMAIN g /\ g[new(i)] = f[i]
  BY <1>1
<1>4. \A i \in DOMAIN g, j \in DOMAIN f : j # p /\ j < old(i) => new(j) \in 1 .. i - 1
  BY <1>1
<1>5. ASSUME Counts(s, r, f, t) PROVE Counts(s, r, g, t)
  <2>1. ASSUME NEW i \in DOMAIN g, In(s, r, g[i])
        PROVE  /\ g[i].n > t
               /\ g[i].n = t + 1 \/ \E j \in 1 .. i - 1 : In(s, r, g[j]) /\ g[j].n + 1 = g[i].n
    <3>1. PICK k \in DOMAIN f : k = old(i) /\ g[i] = f[k]
      BY <1>2
    <3>2. g[i].n > t
      BY <1>5, <2>1, <3>1 DEF Counts
    <3>3. CASE g[i].n = t + 1
      BY <3>2, <3>3
    <3>4. CASE \E j \in 1 .. k - 1 : In(s, r, f[j]) /\ f[j].n + 1 = f[k].n
      <4>1. PICK j \in 1 .. k - 1 : In(s, r, f[j]) /\ f[j].n + 1 = f[k].n
        BY <3>4
      <4>2. j \in DOMAIN f /\ j # p /\ j < old(i)
        BY <1>1, <3>1, <4>1
      <4>3. new(j) \in 1 .. i - 1 /\ g[new(j)] = f[j]
        BY <1>3, <1>4, <4>2
      <4> QED BY <3>1, <3>2, <4>1, <4>3
    <3> QED BY <1>5, <2>1, <3>1, <3>3, <3>4 DEF Counts
  <2>2. \A i, j \in DOMAIN g : i < j /\ In(s, r, g[i]) /\ In(s, r, g[j]) => g[i].n < g[j].n
    <3> HIDE DEF old, new
    <3> QED BY <1>2, <1>5 DEF Counts
  <2> HIDE DEF old, new
  <2> QED BY <2>1, <2>2 DEF Counts
<1>6. ASSUME UpTo(s, r, f, t, last) PROVE UpTo(s, r, g, t, last)
  <2> HIDE DEF old, new
  <2>1. \A i \in DOMAIN g : In(s, r, g[i]) => g[i].n <= last
    BY <1>2, <1>6 DEF UpTo
  <2>2. last = t \/ \E i \in DOMAIN g : In(s, r, g[i]) /\ g[i].n = last
    <3>1. CASE last = t
      BY <3>1
    <3>2. CASE \E i \in DOMAIN f : In(s, r, f[i]) /\ f[i].n = last
      <4>1. PICK i \in DOMAIN f : In(s, r, f[i]) /\ f[i].n = last
        BY <3>2
      <4>2. new(i) \in DOMAIN g /\ g[new(i)] = f[i]
        BY <1>3, <4>1
      <4> QED BY <4>1, <4>2
    <3> QED BY <1>6, <3>1, <3>2 DEF UpTo
  <2> QED BY <1>6, <2>1, <2>2 DEF UpTo
<1> QED BY <1>5, <1>6

\* ... or join it, and so may the next event.
LEMMA CountsAppend ==
  ASSUME NEW s, NEW r, NEW f \in Seq(Msg), NEW t \in Nat, NEW last \in Nat, NEW m \in Msg
  PROVE  /\ ~In(s, r, m) =>
              /\ Counts(s, r, f, t) => Counts(s, r, Append(f, m), t)
              /\ UpTo(s, r, f, t, last) => UpTo(s, r, Append(f, m), t, last)
         /\ In(s, r, m) /\ m.n = last + 1 /\ Counts(s, r, f, t) /\ UpTo(s, r, f, t, last) =>
              Counts(s, r, Append(f, m), t) /\ UpTo(s, r, Append(f, m), t, last + 1)
<1> DEFINE n == Len(f)
           ap == Append(f, m)
<1>1. PICK g : g = ap
  OBVIOUS
<1>2. /\ n \in Nat /\ DOMAIN g = 1 .. n + 1 /\ DOMAIN f = 1 .. n
      /\ \A i \in 1 .. n : g[i] = f[i] /\ f[i].n \in Nat
      /\ g[n + 1] = m
  <2>1. \A i \in 1 .. n : f[i] \in Msg
    BY ElementOfSeq
  <2>2. \A x \in Msg : x.n \in Nat
    BY DEF Msg
  <2> QED BY <1>1, <2>1, <2>2, AppendProperties, LenProperties
<1> HIDE DEF ap, n
<1>3. \A i \in 1 .. n + 1 : i \in 1 .. n \/ i = n + 1
  BY <1>2
<1>4. ASSUME ~In(s, r, m), Counts(s, r, f, t) PROVE Counts(s, r, g, t)
  <2>1. ASSUME NEW i \in 1 .. n, In(s, r, f[i])
        PROVE  /\ g[i].n > t
               /\ g[i].n = t + 1 \/ \E j \in 1 .. i - 1 : In(s, r, g[j]) /\ g[j].n + 1 = g[i].n
    <3>1. /\ f[i].n > t
          /\ f[i].n = t + 1 \/ \E j \in 1 .. i - 1 : In(s, r, f[j]) /\ f[j].n + 1 = f[i].n
      BY <1>2, <1>4, <2>1 DEF Counts
    <3>2. \A j \in 1 .. i - 1 : j \in 1 .. n
      BY <1>2
    <3> QED BY <1>2, <3>1, <3>2
  <2> QED BY <1>2, <1>3, <1>4, <2>1 DEF Counts
<1>5. ASSUME ~In(s, r, m), UpTo(s, r, f, t, last) PROVE UpTo(s, r, g, t, last)
  <2>1. \A i \in 1 .. n : i \in 1 .. n + 1
    BY <1>2
  <2> QED BY <1>2, <1>3, <1>5, <2>1 DEF UpTo
<1>6. ASSUME In(s, r, m), m.n = last + 1, Counts(s, r, f, t), UpTo(s, r, f, t, last)
      PROVE  Counts(s, r, g, t) /\ UpTo(s, r, g, t, last + 1)
  <2>1. ASSUME NEW i \in 1 .. n, In(s, r, f[i])
        PROVE  /\ g[i].n > t
               /\ g[i].n = t + 1 \/ \E j \in 1 .. i - 1 : In(s, r, g[j]) /\ g[j].n + 1 = g[i].n
    <3>1. /\ f[i].n > t
          /\ f[i].n = t + 1 \/ \E j \in 1 .. i - 1 : In(s, r, f[j]) /\ f[j].n + 1 = f[i].n
      BY <1>2, <1>6, <2>1 DEF Counts
    <3>2. \A j \in 1 .. i - 1 : j \in 1 .. n
      BY <1>2
    <3> QED BY <1>2, <3>1, <3>2
  <2>2. /\ g[n + 1].n > t
        /\ \/ g[n + 1].n = t + 1
           \/ \E j \in 1 .. (n + 1) - 1 : In(s, r, g[j]) /\ g[j].n + 1 = g[n + 1].n
    <3>1. CASE last = t
      BY <1>2, <1>6, <3>1
    <3>2. CASE \E i \in 1 .. n : In(s, r, f[i]) /\ f[i].n = last
      <4>1. PICK i \in 1 .. n : In(s, r, f[i]) /\ f[i].n = last
        BY <3>2
      <4>2. i \in 1 .. (n + 1) - 1 /\ In(s, r, g[i]) /\ g[i].n + 1 = g[n + 1].n
        BY <1>2, <1>6, <4>1
      <4>3. g[n + 1].n > t
        BY <1>2, <1>6 DEF UpTo
      <4> QED BY <4>2, <4>3
    <3> QED BY <1>2, <1>6, <3>1, <3>2 DEF UpTo
  <2>3. \A i \in 1 .. n : In(s, r, f[i]) => f[i].n < g[n + 1].n
    BY <1>2, <1>6 DEF UpTo
  <2>4. \A i \in 1 .. n + 1 : In(s, r, g[i]) =>
          /\ g[i].n > t
          /\ g[i].n = t + 1 \/ \E j \in 1 .. i - 1 : In(s, r, g[j]) /\ g[j].n + 1 = g[i].n
    BY <1>2, <1>3, <2>1, <2>2
  <2>5. \A i, j \in 1 .. n + 1 : i < j /\ In(s, r, g[i]) /\ In(s, r, g[j]) => g[i].n < g[j].n
    <3> SUFFICES ASSUME NEW i \in 1 .. n + 1, NEW j \in 1 .. n + 1,
                        i < j, In(s, r, g[i]), In(s, r, g[j])
                 PROVE  g[i].n < g[j].n
      OBVIOUS
    <3>1. i \in 1 .. n
      BY <1>2
    <3>2. CASE j = n + 1
      BY <1>2, <2>3, <3>1, <3>2
    <3>3. CASE j \in 1 .. n
      BY <1>2, <1>6, <3>1, <3>3 DEF Counts
    <3> QED BY <1>3, <3>2, <3>3
  <2>6. UpTo(s, r, g, t, last + 1)
    <3>1. \A i \in 1 .. n + 1 : In(s, r, g[i]) => g[i].n <= last + 1
      BY <1>2, <1>3, <1>6 DEF UpTo
    <3>2. n + 1 \in 1 .. n + 1 /\ In(s, r, g[n + 1]) /\ g[n + 1].n = last + 1
      BY <1>2, <1>6
    <3>3. t <= last + 1
      BY <1>6 DEF UpTo
    <3> QED BY <1>2, <3>1, <3>2, <3>3 DEF UpTo
  <2> QED BY <1>2, <2>4, <2>5, <2>6 DEF Counts
<1> QED BY <1>1, <1>4, <1>5, <1>6 DEF ap

\* The first event of the list is the next one, and may be told.
LEMMA CountsTail ==
  ASSUME NEW s, NEW r, NEW f \in Seq(Msg), f # <<>>, NEW t \in Nat, NEW last \in Nat,
         Counts(s, r, f, t)
  PROVE  /\ In(s, r, Head(f)) =>
              /\ Head(f).n = t + 1
              /\ Counts(s, r, Tail(f), t + 1)
              /\ UpTo(s, r, f, t, last) => UpTo(s, r, Tail(f), t + 1, last)
         /\ ~In(s, r, Head(f)) =>
              /\ Counts(s, r, Tail(f), t)
              /\ UpTo(s, r, f, t, last) => UpTo(s, r, Tail(f), t, last)
<1> DEFINE tl == Tail(f)
<1>1. PICK g : g = tl
  OBVIOUS
<1>2. /\ g \in Seq(Msg) /\ Len(g) + 1 = Len(f) /\ Len(g) \in Nat
      /\ DOMAIN g = 1 .. Len(g) /\ DOMAIN f = 1 .. Len(f) /\ 1 \in DOMAIN f
      /\ \A i \in 1 .. Len(g) : i + 1 \in DOMAIN f /\ g[i] = f[i + 1]
      /\ Head(f) = f[1]
  <2>1. /\ g \in Seq(Msg) /\ Len(g) = Len(f) - 1
        /\ \A i \in 1 .. Len(g) : g[i] = f[i + 1]
    BY <1>1, HeadTailProperties
  <2>2. Len(f) \in Nat /\ DOMAIN f = 1 .. Len(f) /\ DOMAIN g = 1 .. Len(g) /\ Len(g) \in Nat
    BY <2>1, LenProperties
  <2> QED BY <2>1, <2>2
<1> HIDE DEF tl
<1>3. ASSUME ~In(s, r, Head(f))
      PROVE  /\ Counts(s, r, g, t)
             /\ UpTo(s, r, f, t, last) => UpTo(s, r, g, t, last)
  <2>1. \A i \in DOMAIN g : g[i] = IF i < 1 THEN f[i] ELSE f[i + 1]
    BY <1>2
  <2> QED BY <1>2, <1>3, <2>1, CountsWithout
<1>4. ASSUME In(s, r, Head(f))
      PROVE  /\ Head(f).n = t + 1
             /\ Counts(s, r, g, t + 1)
             /\ UpTo(s, r, f, t, last) => UpTo(s, r, g, t + 1, last)
  <2>1. f[1].n = t + 1
    BY <1>2, <1>4 DEF Counts
  <2>2. \A i \in 1 .. Len(g) : In(s, r, g[i]) => g[i].n > t + 1
    BY <1>2, <1>4, <2>1 DEF Counts
  <2>3. ASSUME NEW i \in 1 .. Len(g), In(s, r, g[i]), g[i].n # (t + 1) + 1
        PROVE  \E j \in 1 .. i - 1 : In(s, r, g[j]) /\ g[j].n + 1 = g[i].n
    <3>1. PICK j \in 1 .. (i + 1) - 1 : In(s, r, f[j]) /\ f[j].n + 1 = f[i + 1].n
      <4>1. i + 1 \in DOMAIN f /\ In(s, r, f[i + 1]) /\ f[i + 1].n # t + 1
        BY <1>2, <2>2, <2>3
      <4> QED BY <4>1 DEF Counts
    <3>2. j # 1
      BY <1>2, <2>1, <2>3, <3>1
    <3>3. j - 1 \in 1 .. i - 1 /\ g[j - 1] = f[j]
      BY <1>2, <3>1, <3>2
    <3> QED BY <1>2, <3>1, <3>3
  <2>4. \A i, j \in 1 .. Len(g) : i < j /\ In(s, r, g[i]) /\ In(s, r, g[j]) => g[i].n < g[j].n
    BY <1>2 DEF Counts
  <2>5. Counts(s, r, g, t + 1)
    BY <1>2, <2>2, <2>3, <2>4 DEF Counts
  <2>6. ASSUME UpTo(s, r, f, t, last) PROVE UpTo(s, r, g, t + 1, last)
    <3>1. t + 1 <= last
      BY <1>2, <1>4, <2>1, <2>6 DEF UpTo
    <3>2. \A i \in 1 .. Len(g) : In(s, r, g[i]) => g[i].n <= last
      BY <1>2, <2>6 DEF UpTo
    <3>3. last = t + 1 \/ \E i \in 1 .. Len(g) : In(s, r, g[i]) /\ g[i].n = last
      <4>1. PICK i \in DOMAIN f : In(s, r, f[i]) /\ f[i].n = last
        BY <2>6, <3>1 DEF UpTo
      <4>2. CASE i = 1
        BY <2>1, <4>1, <4>2
      <4>3. CASE i # 1
        <5>1. i - 1 \in 1 .. Len(g) /\ g[i - 1] = f[i]
          BY <1>2, <4>3
        <5> QED BY <4>1, <5>1
      <4> QED BY <4>2, <4>3
    <3> QED BY <1>2, <3>1, <3>2, <3>3 DEF UpTo
  <2> QED BY <1>2, <2>1, <2>5, <2>6
<1> QED BY <1>1, <1>3, <1>4 DEF tl
-----------------------------------------------------------------------------
(* What is on the way belongs to whom.                                     *)

\* A message of the current run of s.
Current(s, m) == m.of = s /\ m.run = run[s]

\* The queue of s holds messages of its current run only.
Queued == \A s \in Socket : \A i \in DOMAIN queue[s] : Current(s, queue[s][i])

\* Once one of them came, or the handler gave the run up, nothing of the run before it is
\* left on the loop: the next run may take its number.
Drained ==
  \A s \in Socket :
    queue[s] # <<>> \/ handler[s] # "sending" =>
      \A i \in DOMAIN loop : loop[i].of = s => loop[i].run = run[s]

\* On the loop the messages of the run before come first.
InOrder ==
  \A s \in Socket : \A i, j \in DOMAIN loop :
    i < j /\ Current(s, loop[i]) /\ loop[j].of = s => loop[j].run = run[s]

Ordered == Queued /\ Drained /\ InOrder

\* A loop that gets a message, and one that gives one.
LEMMA LoopGrows ==
  ASSUME NEW f \in Seq(Msg), NEW m \in Msg
  PROVE  /\ DOMAIN f = 1 .. Len(f) /\ Len(f) \in Nat
         /\ DOMAIN Append(f, m) = 1 .. Len(f) + 1
         /\ \A i \in DOMAIN f : Append(f, m)[i] = f[i]
         /\ Append(f, m)[Len(f) + 1] = m
         /\ \A i \in DOMAIN Append(f, m) : i \in DOMAIN f \/ i = Len(f) + 1
BY AppendProperties, LenProperties

LEMMA LoopShrinks ==
  ASSUME NEW f \in Seq(Msg), f # <<>>
  PROVE  /\ DOMAIN f = 1 .. Len(f) /\ Len(f) \in Nat
         /\ 1 \in DOMAIN f /\ Head(f) = f[1] /\ Head(f) \in Msg
         /\ Tail(f) \in Seq(Msg) /\ DOMAIN Tail(f) = 1 .. Len(f) - 1
         /\ \A i \in DOMAIN Tail(f) : /\ i + 1 \in DOMAIN f /\ Tail(f)[i] = f[i + 1]
                                      /\ i \in Nat /\ 1 < i + 1
<1>1. /\ Head(f) = f[1] /\ Head(f) \in Msg /\ Tail(f) \in Seq(Msg) /\ Len(Tail(f)) = Len(f) - 1
      /\ \A i \in 1 .. Len(Tail(f)) : Tail(f)[i] = f[i + 1]
  BY HeadTailProperties
<1>2. /\ DOMAIN f = 1 .. Len(f) /\ Len(f) \in Nat /\ Len(f) # 0
      /\ DOMAIN Tail(f) = 1 .. Len(Tail(f))
  BY <1>1, LenProperties, EmptySeq
<1> QED BY <1>1, <1>2

LEMMA InitOrdered == Init => Ordered
<1> SUFFICES ASSUME Init PROVE Ordered
  OBVIOUS
<1>1. DOMAIN loop = {} /\ \A s \in Socket : DOMAIN queue[s] = {}
  BY DEF Init
<1> QED BY <1>1 DEF Ordered, Queued, Drained, InOrder

\* Steps that leave the messages where they are.
Quiet == /\ UNCHANGED <<run, loop, queue>>
         /\ \A t \in Socket : handler'[t] = "sending" <=> handler[t] = "sending"

LEMMA QuietSteps ==
  ASSUME TypeOK,
         \/ \E s \in Socket : \/ Connect(s) \/ Disconnect(s) \/ Reply(s)
                              \/ Die(s) \/ Leave(s) \/ Join(s)
         \/ StartWork \/ Stop \/ Down \/ Up
  PROVE  Quiet
<1>1. CASE StartWork \/ Stop \/ Down \/ Up
  BY <1>1 DEF StartWork, Stop, Down, Up, Quiet
<1>2. ASSUME NEW s \in Socket,
             Connect(s) \/ Disconnect(s) \/ Reply(s) \/ Die(s) \/ Leave(s) \/ Join(s)
      PROVE  Quiet
  BY <1>2 DEF TypeOK, Connect, Disconnect, Reply, Die, Leave, Join, Quiet
<1> QED BY <1>1, <1>2

LEMMA QuietOrdered == Ordered /\ Quiet => Ordered'
BY DEF Ordered, Queued, Drained, InOrder, Current, Quiet

\* What is left of the last run is now of the run before.
LEMMA AcceptOrdered ==
  ASSUME LifeInv, Ordered, NEW s \in Socket, Accept(s)
  PROVE  /\ \A i \in DOMAIN loop : ~Current(s, loop[i])'
         /\ Ordered'
<1>1. /\ UNCHANGED loop /\ run' = [run EXCEPT ![s] = 1 - @]
      /\ queue' = [queue EXCEPT ![s] = <<>>]
      /\ handler[s] = "waiting" /\ handler' = [handler EXCEPT ![s] = "sending"]
      /\ run \in [Socket -> {0, 1}] /\ queue \in [Socket -> Seq(Msg)]
      /\ handler \in [Socket -> {"waiting", "sending", "joining", "abandoning", "gone"}]
  BY DEF Accept, LifeInv, TypeOK
<1>2. run'[s] # run[s] /\ queue'[s] = <<>> /\ handler'[s] = "sending"
  <2>1. run[s] = 0 \/ run[s] = 1
    BY <1>1
  <2> QED BY <1>1, <2>1
<1>3. \A t \in Socket \ {s} : run'[t] = run[t] /\ queue'[t] = queue[t] /\ handler'[t] = handler[t]
  BY <1>1
<1>4. \A i \in DOMAIN loop : loop[i].of = s => loop[i].run = run[s]
  BY <1>1 DEF Ordered, Drained
<1>5. \A i \in DOMAIN loop : ~Current(s, loop[i])'
  BY <1>1, <1>2, <1>4 DEF Current
<1>6. Queued'
  <2>1. DOMAIN queue'[s] = {}
    BY <1>2
  <2> QED BY <1>3, <2>1 DEF Ordered, Queued, Current
<1>7. Drained'
  BY <1>1, <1>2, <1>3 DEF Ordered, Drained
<1>8. InOrder'
  <2>1. ASSUME NEW t \in Socket, NEW i \in DOMAIN loop, NEW j \in DOMAIN loop,
               i < j, Current(t, loop[i])', loop[j].of = t
        PROVE  loop[j].run = run'[t]
    <3>1. t # s
      BY <1>5, <2>1
    <3>2. Current(t, loop[i]) /\ run'[t] = run[t]
      BY <1>1, <1>3, <2>1, <3>1 DEF Current
    <3> QED BY <2>1, <3>2 DEF Ordered, InOrder
  <2> QED BY <1>1, <2>1 DEF InOrder, Current
<1> QED BY <1>5, <1>6, <1>7, <1>8 DEF Ordered

\* What a thread posts.
LEMMA WorkPosts ==
  ASSUME TypeOK, NEW s \in Socket, Work(s)
  PROVE  /\ UNCHANGED <<connected, handler, run, queue, sent>>
         /\ \E m \in Msg :
              /\ loop' = Append(loop, m) /\ Current(s, m)
              /\ \/ m.what = "event" /\ m.n = count[s] + 1 /\ Emit(s)
                 \/ m.what # "event" /\ (Raise(s) \/ Conclude(s) \/ End(s))
<1>1. \A what \in What, n \in Nat :
        Message(s, what, n) \in Msg /\ Current(s, Message(s, what, n))
  BY MessageType DEF TypeOK, Message, Current
<1>2. count[s] + 1 \in Nat
  BY DEF TypeOK
<1>3. CASE Emit(s)
  <2>1. loop' = Append(loop, Message(s, "event", count[s] + 1))
    BY <1>3 DEF Emit, Post
  <2> QED BY <1>1, <1>2, <1>3, <2>1 DEF Work, What, Message
<1>4. CASE Raise(s) \/ Conclude(s)
  <2>1. \E what \in {"error", "done", "summary"} : loop' = Append(loop, Message(s, what, 0))
    BY <1>4 DEF Raise, Conclude, Last, Post
  <2> QED BY <1>1, <1>4, <2>1 DEF Work, What, Message
<1>5. CASE End(s)
  <2>1. loop' = Append(loop, Message(s, END, 0))
    BY <1>5 DEF End, Post
  <2>2. END # "event"
    BY DEF END
  <2> QED BY <1>1, <1>5, <2>1, <2>2 DEF Work, What, Message
<1> QED BY <1>3, <1>4, <1>5 DEF Work

LEMMA WorkOrdered ==
  ASSUME TypeOK, Ordered, NEW s \in Socket, Work(s)
  PROVE  Ordered'
<1>1. PICK m \in Msg : loop' = Append(loop, m) /\ Current(s, m)
  BY WorkPosts
<1>2. UNCHANGED <<handler, run, queue>>
  BY WorkPosts
<1>3. /\ \A i \in DOMAIN loop : loop'[i] = loop[i]
      /\ \A i \in DOMAIN loop' : i \in DOMAIN loop \/ loop'[i] = m
      /\ \A i, j \in DOMAIN loop' : i < j => i \in DOMAIN loop
  <2>1. loop \in Seq(Msg)
    BY DEF TypeOK
  <2>2. /\ DOMAIN loop = 1 .. Len(loop) /\ Len(loop) \in Nat
        /\ DOMAIN loop' = 1 .. Len(loop) + 1
        /\ \A i \in DOMAIN loop : loop'[i] = loop[i]
        /\ loop'[Len(loop) + 1] = m
        /\ \A i \in DOMAIN loop' : i \in DOMAIN loop \/ i = Len(loop) + 1
    BY <1>1, <2>1, LoopGrows
  <2> QED BY <2>2
<1>4. Queued'
  BY <1>2 DEF Ordered, Queued, Current
<1>5. Drained'
  BY <1>1, <1>2, <1>3 DEF Ordered, Drained, Current
<1>6. InOrder'
  BY <1>1, <1>2, <1>3 DEF Ordered, InOrder, Current
<1> QED BY <1>4, <1>5, <1>6 DEF Ordered

LEMMA DeliverOrdered ==
  ASSUME TypeOK, Ordered, Deliver
  PROVE  Ordered'
<1> DEFINE m == Head(loop)
<1>1. /\ loop # <<>> /\ loop' = Tail(loop) /\ UNCHANGED <<handler, run>>
      /\ queue' = IF ForTheQueueOf(m) THEN [queue EXCEPT ![m.of] = Append(@, m)] ELSE queue
  BY DEF Deliver
<1>2. /\ 1 \in DOMAIN loop /\ m = loop[1] /\ m \in Msg /\ m.of \in Socket
      /\ \A i \in DOMAIN loop' : /\ i + 1 \in DOMAIN loop /\ loop'[i] = loop[i + 1]
                                /\ i \in Nat /\ 1 < i + 1
  <2>1. loop \in Seq(Msg)
    BY DEF TypeOK
  <2>2. \A x \in Msg : x.of \in Socket
    BY DEF Msg
  <2> QED BY <1>1, <2>1, <2>2, LoopShrinks
<1>3. InOrder'
  <2>1. ASSUME NEW t \in Socket, NEW i \in DOMAIN loop', NEW j \in DOMAIN loop',
               i < j, loop'[i].of = t, loop'[i].run = run'[t], loop'[j].of = t
        PROVE  loop'[j].run = run'[t]
    <3>1. /\ i + 1 \in DOMAIN loop /\ j + 1 \in DOMAIN loop /\ i + 1 < j + 1
          /\ loop'[i] = loop[i + 1] /\ loop'[j] = loop[j + 1]
      BY <1>2, <2>1
    <3>2. Current(t, loop[i + 1]) /\ loop[j + 1].of = t
      BY <1>1, <2>1, <3>1 DEF Current
    <3> QED BY <1>1, <3>1, <3>2 DEF Ordered, InOrder
  <2> QED BY <2>1 DEF InOrder, Current
<1>4. CASE ForTheQueueOf(m)
  <2>1. /\ \A t \in Socket \ {m.of} : queue'[t] = queue[t]
        /\ queue'[m.of] = Append(queue[m.of], m)
        /\ queue[m.of] \in Seq(Msg)
    BY <1>1, <1>2, <1>4 DEF TypeOK
  <2>2. /\ \A i \in DOMAIN queue[m.of] : queue'[m.of][i] = queue[m.of][i]
        /\ \A i \in DOMAIN queue'[m.of] : i \in DOMAIN queue[m.of] \/ queue'[m.of][i] = m
    BY <1>2, <2>1, LoopGrows
  <2>3. Current(m.of, m)
    BY <1>4 DEF ForTheQueueOf, Current
  <2>4. Queued'
    <3>1. ASSUME NEW t \in Socket, NEW i \in DOMAIN queue'[t]
          PROVE  queue'[t][i].of = t /\ queue'[t][i].run = run'[t]
      <4>1. CASE t = m.of
        BY <1>1, <2>2, <2>3, <3>1, <4>1 DEF Ordered, Queued, Current
      <4>2. CASE t # m.of
        BY <1>1, <2>1, <3>1, <4>2 DEF Ordered, Queued, Current
      <4> QED BY <4>1, <4>2
    <3> QED BY <3>1 DEF Queued, Current
  <2>5. Drained'
    <3>1. ASSUME NEW t \in Socket, queue'[t] # <<>> \/ handler'[t] # "sending",
                 NEW i \in DOMAIN loop', loop'[i].of = t
          PROVE  loop'[i].run = run'[t]
      <4>1. CASE t = m.of
        BY <1>1, <1>2, <2>3, <3>1, <4>1 DEF Ordered, InOrder
      <4>2. CASE t # m.of
        BY <1>1, <1>2, <2>1, <3>1, <4>2 DEF Ordered, Drained
      <4> QED BY <4>1, <4>2
    <3> QED BY <3>1 DEF Drained
  <2> QED BY <1>3, <2>4, <2>5 DEF Ordered
<1>5. CASE ~ForTheQueueOf(m)
  <2>1. UNCHANGED queue
    BY <1>1, <1>5
  <2>2. Queued'
    BY <1>1, <2>1 DEF Ordered, Queued, Current
  <2>3. Drained'
    BY <1>1, <1>2, <2>1 DEF Ordered, Drained
  <2> QED BY <1>3, <2>2, <2>3 DEF Ordered
<1> QED BY <1>4, <1>5

LEMMA ForwardOrdered ==
  ASSUME TypeOK, Ordered, NEW s \in Socket, Forward(s)
  PROVE  Ordered'
<1>1. /\ UNCHANGED <<loop, run>> /\ queue[s] # <<>>
      /\ queue' = [queue EXCEPT ![s] = Tail(@)] /\ queue \in [Socket -> Seq(Msg)]
  BY DEF Forward, TypeOK
<1>2. /\ \A t \in Socket \ {s} : queue'[t] = queue[t] /\ handler'[t] = handler[t]
      /\ queue'[s] = Tail(queue[s])
  BY <1>1 DEF Forward, Send, TypeOK
<1>3. Queued'
  <2>1. \A i \in DOMAIN queue'[s] : i + 1 \in DOMAIN queue[s] /\ queue'[s][i] = queue[s][i + 1]
    BY <1>1, <1>2, LoopShrinks
  <2>2. \A i \in DOMAIN queue'[s] : Current(s, queue'[s][i])
    BY <2>1 DEF Ordered, Queued
  <2> QED BY <1>1, <1>2, <2>2 DEF Ordered, Queued, Current
<1>4. Drained'
  BY <1>1, <1>2 DEF Ordered, Drained
<1>5. InOrder'
  BY <1>1 DEF Ordered, InOrder, Current
<1> QED BY <1>3, <1>4, <1>5 DEF Ordered
-----------------------------------------------------------------------------
(* What the client has, what is on its way, what is still to be emitted.   *)

\* Who is not there has nothing, ...
Forgotten == \A s \in Socket : ~connected[s] => sent[s] = <<>>

\* ... a run that has not begun has emitted nothing, ...
Fresh == \A s \in Socket : worker[s] \in {"waiting", "finished"} => count[s] = 0

\* ... what a client has is numbered 1, 2, ..., ...
Shown == \A s \in Socket : handler[s] \in {"sending", "joining"} => Seen(s, run[s], sent[s])

\* ... and its queue, then the loop, go on from there up to the thread of its run.
OnTheWay(s) == queue[s] \o loop
Received(s) == Events(sent[s], Len(sent[s]))

GoesOn(s) ==
  handler[s] = "sending" /\ connected[s] =>
    /\ Counts(s, run[s], OnTheWay(s), Received(s))
    /\ worker[s] \in {"waiting", "running"} =>
         UpTo(s, run[s], OnTheWay(s), Received(s), count[s])

Numbered == Forgotten /\ Fresh /\ Shown /\ \A s \in Socket : GoesOn(s)

ClientInv == LifeInv /\ Ordered /\ Numbered

LEMMA OnTheWayType ==
  ASSUME TypeOK, NEW s \in Socket
  PROVE  /\ queue[s] \in Seq(Msg) /\ loop \in Seq(Msg) /\ OnTheWay(s) \in Seq(Msg)
         /\ sent[s] \in Seq(Msg) /\ Received(s) \in Nat /\ count[s] \in Nat
<1>1. /\ queue[s] \in Seq(Msg) /\ loop \in Seq(Msg) /\ sent[s] \in Seq(Msg) /\ count[s] \in Nat
  BY DEF TypeOK
<1>2. OnTheWay(s) \in Seq(Msg)
  BY <1>1, ConcatProperties DEF OnTheWay
<1>3. Len(sent[s]) \in Nat
  BY <1>1, LenProperties
<1> QED BY <1>1, <1>2, <1>3, EventsType DEF Received

LEMMA EmptySeen ==
  ASSUME NEW s, NEW r, NEW f, f = <<>>
  PROVE  Seen(s, r, f)
<1>1. DOMAIN f = {}
  OBVIOUS
<1> QED BY <1>1 DEF Seen

LEMMA InitNumbered == Init => Numbered
BY DEF Init, Numbered, Forgotten, Fresh, Shown, GoesOn

\* Steps that neither emit nor carry a message.
LEMMA QuietNumbered ==
  ASSUME TypeOK, Numbered, Quiet, UNCHANGED count,
         \A t \in Socket :
           /\ ~connected'[t] => sent'[t] = <<>>
           /\ handler'[t] = "sending" /\ connected'[t] => connected[t] /\ sent'[t] = sent[t]
           /\ handler'[t] \in {"sending", "joining"} =>
                handler[t] \in {"sending", "joining"} /\ sent'[t] \in {sent[t], <<>>}
           /\ worker'[t] \in {"waiting", "finished"} => worker[t] = worker'[t]
           /\ worker'[t] \in {"waiting", "running"} => worker[t] \in {"waiting", "running"}
  PROVE  Numbered'
<1>1. Forgotten'
  BY DEF Forgotten
<1>2. Fresh'
  BY DEF Fresh, Numbered
<1>3. Shown'
  <2>1. ASSUME NEW t \in Socket, handler'[t] \in {"sending", "joining"}
        PROVE  Seen(t, run'[t], sent'[t])
    <3>1. run'[t] = run[t] /\ Seen(t, run[t], sent[t])
      BY <2>1 DEF Numbered, Shown, Quiet
    <3>2. CASE sent'[t] = <<>>
      BY <3>2, EmptySeen
    <3>3. CASE sent'[t] = sent[t]
      BY <3>1, <3>3
    <3> QED BY <2>1, <3>2, <3>3
  <2> QED BY <2>1 DEF Shown
<1>4. ASSUME NEW t \in Socket PROVE GoesOn(t)'
  BY DEF Numbered, GoesOn, OnTheWay, Received, Quiet
<1> QED BY <1>1, <1>2, <1>3, <1>4 DEF Numbered

LEMMA QuietStepsNumbered ==
  ASSUME LifeInv, Numbered,
         \/ \E s \in Socket : \/ Connect(s) \/ Disconnect(s) \/ Reply(s)
                              \/ Die(s) \/ Leave(s) \/ Join(s)
         \/ StartWork \/ Stop \/ Down \/ Up
  PROVE  Numbered'
<1>0. TypeOK /\ Pooled
  BY DEF LifeInv
<1>1. Quiet
  BY <1>0, QuietSteps
<1>2. CASE StartWork
  <2>1. /\ worker' = [worker EXCEPT ![Head(pool)] = "running"]
        /\ UNCHANGED <<connected, handler, count, sent>>
    BY <1>2 DEF StartWork
  <2>2. PICK h : h = Head(pool)
    OBVIOUS
  <2>3. \A t \in Socket : worker'[t] = IF t = h THEN "running" ELSE worker[t]
    BY <1>0, <2>1, <2>2 DEF TypeOK
  <2>4. h \in Socket /\ worker[h] = "waiting"
    <3>1. pool # <<>> /\ pool \in Seq(Socket)
      BY <1>0, <1>2 DEF StartWork, TypeOK
    <3>2. h = pool[1] /\ 1 \in DOMAIN pool /\ h \in Socket
      BY <2>2, <3>1, HeadTailProperties, LenProperties
    <3> QED BY <1>0, <3>2 DEF Pooled
  <2> QED BY <1>0, <1>1, <2>1, <2>3, <2>4, QuietNumbered DEF Numbered, Forgotten
<1>3. CASE Stop
  <2>1. \A t \in Socket : connected'[t] = FALSE /\ sent'[t] = <<>>
    BY <1>3 DEF Stop, Cut
  <2>2. UNCHANGED <<handler, worker, count>>
    BY <1>3 DEF Stop, thread
  <2> QED BY <1>0, <1>1, <2>1, <2>2, QuietNumbered
<1>4. CASE Down \/ Up
  <2>1. UNCHANGED <<connected, handler, worker, count, sent>>
    BY <1>4 DEF Down, Up, thread
  <2> QED BY <1>0, <1>1, <2>1, QuietNumbered DEF Numbered, Forgotten
<1>5. ASSUME NEW s \in Socket,
             Connect(s) \/ Disconnect(s) \/ Reply(s) \/ Die(s) \/ Leave(s) \/ Join(s)
      PROVE  Numbered'
  <2>1. UNCHANGED <<worker, count>>
    BY <1>5 DEF Connect, Disconnect, Reply, Die, Leave, Join, thread
  <2>2. \A t \in Socket \ {s} :
          connected'[t] = connected[t] /\ handler'[t] = handler[t] /\ sent'[t] = sent[t]
    BY <1>0, <1>5 DEF TypeOK, Connect, Disconnect, Reply, Die, Leave, Join, Cut
  <2>3. /\ ~connected'[s] => sent'[s] = <<>>
        /\ handler'[s] = "sending" /\ connected'[s] => connected[s] /\ sent'[s] = sent[s]
        /\ handler'[s] \in {"sending", "joining"} =>
             handler[s] \in {"sending", "joining"} /\ sent'[s] \in {sent[s], <<>>}
    BY <1>0, <1>5 DEF TypeOK, Numbered, Forgotten, Connect, Disconnect, Reply, Die, Leave, Join, Cut
  <2> QED BY <1>0, <1>1, <2>1, <2>2, <2>3, QuietNumbered DEF Numbered, Forgotten
<1> QED BY <1>2, <1>3, <1>4, <1>5

\* Nothing on the loop is of the new run.
LEMMA AcceptNumbered ==
  ASSUME LifeInv, Ordered, Numbered, NEW s \in Socket, Accept(s)
  PROVE  Numbered'
<1>1. /\ UNCHANGED <<connected, count, loop>>
      /\ \A t \in Socket \ {s} :
           /\ run'[t] = run[t] /\ queue'[t] = queue[t] /\ handler'[t] = handler[t]
           /\ sent'[t] = sent[t] /\ worker'[t] = worker[t]
      /\ connected[s] /\ queue'[s] = <<>> /\ worker[s] = "finished" /\ worker'[s] = "waiting"
  <2>1. TypeOK /\ (worker[s] # "finished" => handler[s] # "waiting")
    BY DEF LifeInv, Tended
  <2> QED BY <2>1 DEF Accept, TypeOK
<1>2. sent'[s] = <<>> \/ \E m \in Msg : /\ sent'[s] = <<m>> /\ m.of = s /\ m.run = run'[s]
                                        /\ m.what # "event"
  <2>1. [Message(s, "started", 0) EXCEPT !.run = run'[s]] \in Msg
    <3>1. run'[s] \in {0, 1}
      BY AcceptType DEF TypeOK, LifeInv
    <3> QED BY <3>1 DEF Message, Msg, What
  <2>2. \/ sent'[s] = <<>>
        \/ sent'[s] = <<[Message(s, "started", 0) EXCEPT !.run = run'[s]]>>
    BY DEF Accept, LifeInv, TypeOK
  <2> QED BY <2>1, <2>2 DEF Message
<1>3. Seen(s, run'[s], sent'[s]) /\ Events(sent'[s], Len(sent'[s])) = 0
  <2>1. CASE sent'[s] = <<>>
    BY <2>1, EmptySeen, NoEvents
  <2>2. ASSUME NEW m \in Msg, sent'[s] = <<m>>, m.of = s, m.run = run'[s], m.what # "event"
        PROVE  Seen(s, run'[s], sent'[s]) /\ Events(sent'[s], Len(sent'[s])) = 0
    <3>1. \A i \in DOMAIN <<m>> : <<m>>[i] = m
      OBVIOUS
    <3>2. Seen(s, run'[s], sent'[s])
      BY <2>2, <3>1 DEF Seen
    <3> QED BY <2>2, <3>2, NoEvents
  <2> QED BY <1>2, <2>1, <2>2
<1>4. count[s] = 0
  BY <1>1 DEF Numbered, Fresh
<1>5. Forgotten' /\ Fresh' /\ Shown'
  BY <1>1, <1>3, <1>4 DEF Numbered, Forgotten, Fresh, Shown
<1>6. GoesOn(s)'
  <2>1. queue'[s] \o loop' = loop
    <3>1. loop \in Seq(Msg)
      BY DEF LifeInv, TypeOK
    <3> QED BY <1>1, <3>1, ConcatEmptySeq
  <2>2. \A i \in DOMAIN loop : ~In(s, run'[s], loop[i])
    <3>1. \A i \in DOMAIN loop : ~Current(s, loop[i])'
      BY AcceptOrdered
    <3> QED BY <1>1, <3>1 DEF In, Current
  <2>3. Counts(s, run'[s], loop, 0) /\ UpTo(s, run'[s], loop, 0, 0)
    BY <2>2 DEF Counts, UpTo
  <2> QED BY <1>1, <1>3, <1>4, <2>1, <2>3 DEF GoesOn, OnTheWay, Received
<1>7. ASSUME NEW t \in Socket \ {s} PROVE GoesOn(t)'
  BY <1>1 DEF Numbered, GoesOn, OnTheWay, Received
<1> QED BY <1>5, <1>6, <1>7 DEF Numbered
-----------------------------------------------------------------------------
(* A queue in front of the loop.                                           *)

LEMMA ConcatAppend ==
  ASSUME NEW q \in Seq(Msg), NEW l \in Seq(Msg), NEW m \in Msg
  PROVE  q \o Append(l, m) = Append(q \o l, m)
<1>1. <<m>> \in Seq(Msg) /\ q \o l \in Seq(Msg)
  BY ConcatProperties
<1>2. q \o Append(l, m) = q \o (l \o <<m>>)
  BY AppendIsConcat
<1>3. q \o (l \o <<m>>) = (q \o l) \o <<m>>
  BY <1>1, ConcatAssociative
<1>4. (q \o l) \o <<m>> = Append(q \o l, m)
  BY <1>1, AppendIsConcat
<1> QED BY <1>2, <1>3, <1>4

LEMMA ConcatMove ==
  ASSUME NEW q \in Seq(Msg), NEW l \in Seq(Msg), l # <<>>
  PROVE  Append(q, Head(l)) \o Tail(l) = q \o l
<1>1. PICK h \in Msg, u \in Seq(Msg) : h = Head(l) /\ u = Tail(l) /\ l = <<h>> \o u
  <2>1. Head(l) \in Msg /\ Tail(l) \in Seq(Msg) /\ l = <<Head(l)>> \o Tail(l)
    BY HeadTailProperties
  <2> QED BY <2>1
<1>2. <<h>> \in Seq(Msg)
  OBVIOUS
<1>3. Append(q, h) \o u = (q \o <<h>>) \o u
  BY AppendIsConcat
<1>4. (q \o <<h>>) \o u = q \o (<<h>> \o u)
  BY <1>2, ConcatAssociative
<1> QED BY <1>1, <1>3, <1>4

LEMMA ConcatDrop ==
  ASSUME NEW q \in Seq(Msg), NEW l \in Seq(Msg), l # <<>>
  PROVE  \E g \in Seq(Msg), p \in DOMAIN (q \o l) :
         /\ g = q \o Tail(l) /\ (q \o l)[p] = Head(l)
         /\ Len(g) + 1 = Len(q \o l)
         /\ \A i \in DOMAIN g : g[i] = IF i < p THEN (q \o l)[i] ELSE (q \o l)[i + 1]
<1>0. PICK g, p : g = q \o Tail(l) /\ p = Len(q) + 1
  OBVIOUS
<1>1. PICK u \in Seq(Msg) : u = Tail(l)
  BY HeadTailProperties
<1>2. /\ Len(u) = Len(l) - 1 /\ \A i \in 1 .. Len(u) : u[i] = l[i + 1]
      /\ Head(l) = l[1]
  BY <1>1, HeadTailProperties
<1>3. Len(q) \in Nat /\ Len(l) \in Nat /\ Len(u) \in Nat
  BY LenProperties
<1>4. PICK f \in Seq(Msg) : f = q \o l
  BY ConcatProperties
<1>5. /\ Len(f) = Len(q) + Len(l) /\ DOMAIN f = 1 .. Len(f)
      /\ \A i \in 1 .. Len(q) + Len(l) : f[i] = IF i <= Len(q) THEN q[i] ELSE l[i - Len(q)]
  BY <1>4, ConcatProperties, LenProperties
<1>6. /\ g \in Seq(Msg) /\ Len(g) = Len(q) + Len(u)
      /\ \A i \in 1 .. Len(q) + Len(u) : g[i] = IF i <= Len(q) THEN q[i] ELSE u[i - Len(q)]
  BY <1>0, <1>1, ConcatProperties
<1>7. DOMAIN g = 1 .. Len(q) + Len(u)
  BY <1>6, LenProperties
<1>8. p \in DOMAIN f /\ f[p] = Head(l) /\ Len(g) + 1 = Len(f)
  BY <1>0, <1>2, <1>3, <1>5, <1>6
<1>9. ASSUME NEW i \in 1 .. Len(q) + Len(u)
      PROVE  g[i] = IF i < p THEN f[i] ELSE f[i + 1]
  <2>1. CASE i < p
    BY <1>0, <1>2, <1>3, <1>5, <1>6, <2>1
  <2>2. CASE ~(i < p)
    <3>1. /\ i - Len(q) \in 1 .. Len(u) /\ i + 1 \in 1 .. Len(q) + Len(l)
          /\ (i + 1) - Len(q) = (i - Len(q)) + 1 /\ ~(i <= Len(q)) /\ ~(i + 1 <= Len(q))
      BY <1>0, <1>2, <1>3, <2>2
    <3>2. g[i] = u[i - Len(q)]
      BY <1>6, <3>1
    <3>3. f[i + 1] = l[(i + 1) - Len(q)]
      BY <1>5, <3>1
    <3>4. u[i - Len(q)] = l[(i - Len(q)) + 1]
      BY <1>2, <3>1
    <3> QED BY <2>2, <3>1, <3>2, <3>3, <3>4
  <2> QED BY <2>1, <2>2
<1> QED BY <1>0, <1>4, <1>6, <1>7, <1>8, <1>9

LEMMA ConcatTail ==
  ASSUME NEW q \in Seq(Msg), NEW l \in Seq(Msg), q # <<>>
  PROVE  q \o l # <<>> /\ Head(q \o l) = Head(q) /\ Tail(q \o l) = Tail(q) \o l
<1>1. PICK h \in Msg, u \in Seq(Msg) : h = Head(q) /\ u = Tail(q) /\ q = <<h>> \o u
  <2>1. Head(q) \in Msg /\ Tail(q) \in Seq(Msg) /\ q = <<Head(q)>> \o Tail(q)
    BY HeadTailProperties
  <2> QED BY <2>1
<1>2. PICK w \in Seq(Msg) : w = u \o l
  BY ConcatProperties
<1>3. <<h>> \in Seq(Msg)
  OBVIOUS
<1>4. q \o l = <<h>> \o w
  BY <1>1, <1>2, <1>3, ConcatAssociative
<1>5. <<h>> \o w # <<>> /\ Head(<<h>> \o w) = h /\ Tail(<<h>> \o w) = w
  OBVIOUS
<1> QED BY <1>1, <1>2, <1>4, <1>5
\* What a thread posts is the next of its run, and nothing to the others.
LEMMA WorkNumbered ==
  ASSUME LifeInv, Numbered, NEW s \in Socket, Work(s)
  PROVE  Numbered'
<1>0. TypeOK /\ Tended
  BY DEF LifeInv
<1>1. UNCHANGED <<connected, handler, run, queue, sent>>
  BY <1>0, WorkPosts
<1>2. PICK m \in Msg :
        /\ loop' = Append(loop, m) /\ Current(s, m)
        /\ \/ m.what = "event" /\ m.n = count[s] + 1 /\ Emit(s)
           \/ m.what # "event" /\ (Raise(s) \/ Conclude(s) \/ End(s))
  BY <1>0, WorkPosts
<1>3. \A t \in Socket \ {s} : worker'[t] = worker[t] /\ count'[t] = count[t]
  BY <1>0 DEF Work, Emit, Raise, Conclude, Last, End, TypeOK
<1>4. /\ Emit(s) => worker[s] = "running" /\ worker'[s] = "running" /\ count'[s] = count[s] + 1
      /\ Raise(s) \/ Conclude(s) => worker'[s] = "ending"
      /\ End(s) => worker'[s] = "finished" /\ count'[s] = 0
  BY <1>0 DEF Emit, Raise, Conclude, Last, End, TypeOK
<1>5. Forgotten' /\ Fresh' /\ Shown'
  <2>1. Fresh'
    BY <1>2, <1>3, <1>4 DEF Numbered, Fresh
  <2> QED BY <1>1, <2>1 DEF Numbered, Forgotten, Shown
<1>6. ASSUME NEW t \in Socket PROVE OnTheWay(t)' = Append(OnTheWay(t), m)
  BY <1>0, <1>1, <1>2, OnTheWayType, ConcatAppend DEF OnTheWay
<1>7. ASSUME NEW t \in Socket PROVE Received(t)' = Received(t)
  BY <1>1 DEF Received
<1>8. ASSUME NEW t \in Socket \ {s} PROVE GoesOn(t)'
  <2>1. SUFFICES ASSUME handler[t] = "sending", connected[t] PROVE GoesOn(t)'
    BY <1>1 DEF GoesOn
  <2>2. ~In(t, run[t], m)
    BY <1>2 DEF Current, In
  <2>3. /\ Counts(t, run[t], OnTheWay(t), Received(t))
        /\ worker[t] \in {"waiting", "running"} =>
             UpTo(t, run[t], OnTheWay(t), Received(t), count[t])
    BY <2>1 DEF Numbered, GoesOn
  <2>4. OnTheWay(t) \in Seq(Msg) /\ Received(t) \in Nat /\ count[t] \in Nat
    BY <1>0, OnTheWayType
  <2>5. /\ Counts(t, run[t], Append(OnTheWay(t), m), Received(t))
        /\ worker[t] \in {"waiting", "running"} =>
             UpTo(t, run[t], Append(OnTheWay(t), m), Received(t), count[t])
    BY <2>2, <2>3, <2>4, CountsAppend
  <2> QED BY <1>1, <1>3, <1>6, <1>7, <2>5 DEF GoesOn
<1>9. GoesOn(s)'
  <2>1. SUFFICES ASSUME handler[s] = "sending", connected[s] PROVE GoesOn(s)'
    BY <1>1 DEF GoesOn
  <2>2. /\ Counts(s, run[s], OnTheWay(s), Received(s))
        /\ worker[s] \in {"waiting", "running"} =>
             UpTo(s, run[s], OnTheWay(s), Received(s), count[s])
    BY <2>1 DEF Numbered, GoesOn
  <2>3. OnTheWay(s) \in Seq(Msg) /\ Received(s) \in Nat /\ count[s] \in Nat
    BY <1>0, OnTheWayType
  <2>4. CASE m.what = "event"
    <3>1. /\ In(s, run[s], m) /\ m.n = count[s] + 1
          /\ worker[s] = "running" /\ count'[s] = count[s] + 1
      BY <1>2, <1>4, <2>4 DEF Current, In
    <3>2. /\ Counts(s, run[s], Append(OnTheWay(s), m), Received(s))
          /\ UpTo(s, run[s], Append(OnTheWay(s), m), Received(s), count[s] + 1)
      BY <2>2, <2>3, <3>1, CountsAppend
    <3> QED BY <1>1, <1>6, <1>7, <3>1, <3>2 DEF GoesOn
  <2>5. CASE m.what # "event"
    <3>1. ~In(s, run[s], m) /\ worker'[s] \notin {"waiting", "running"}
      BY <1>2, <1>4, <2>5 DEF In
    <3>2. Counts(s, run[s], Append(OnTheWay(s), m), Received(s))
      BY <2>2, <2>3, <3>1, CountsAppend
    <3> QED BY <1>1, <1>6, <1>7, <3>1, <3>2 DEF GoesOn
  <2> QED BY <2>4, <2>5
<1> QED BY <1>5, <1>8, <1>9 DEF Numbered

\* From the loop to the queue nothing changes its place; what is of no current run goes.
LEMMA DeliverNumbered ==
  ASSUME LifeInv, Numbered, Deliver
  PROVE  Numbered'
<1>0. TypeOK
  BY DEF LifeInv
<1>1. /\ loop # <<>> /\ loop' = Tail(loop)
      /\ UNCHANGED <<connected, handler, run, worker, count, sent>>
  BY DEF Deliver, thread
<1>2. PICK m \in Msg : m = Head(loop)
  BY <1>0, <1>1, LoopShrinks DEF TypeOK
<1>3. Forgotten' /\ Fresh' /\ Shown'
  BY <1>1 DEF Numbered, Forgotten, Fresh, Shown
<1>4. ASSUME NEW t \in Socket
      PROVE  \/ Current(t, m) /\ queue'[t] = Append(queue[t], m)
             \/ ~Current(t, m) /\ queue'[t] = queue[t]
  <2>1. queue' = IF m.run = run[m.of] THEN [queue EXCEPT ![m.of] = Append(@, m)] ELSE queue
    BY <1>2 DEF Deliver, ForTheQueueOf
  <2>2. queue \in [Socket -> Seq(Msg)]
    BY <1>0 DEF TypeOK
  <2> QED BY <2>1, <2>2 DEF Current
<1>5. ASSUME NEW t \in Socket PROVE GoesOn(t)'
  <2>1. SUFFICES ASSUME handler[t] = "sending", connected[t] PROVE GoesOn(t)'
    BY <1>1 DEF GoesOn
  <2>2. /\ Counts(t, run[t], OnTheWay(t), Received(t))
        /\ worker[t] \in {"waiting", "running"} =>
             UpTo(t, run[t], OnTheWay(t), Received(t), count[t])
    BY <2>1 DEF Numbered, GoesOn
  <2>3. /\ queue[t] \in Seq(Msg) /\ loop \in Seq(Msg)
        /\ OnTheWay(t) \in Seq(Msg) /\ Received(t) \in Nat /\ count[t] \in Nat
    BY <1>0, OnTheWayType
  <2>4. Received(t)' = Received(t)
    BY <1>1 DEF Received
  <2>5. CASE Current(t, m) /\ queue'[t] = Append(queue[t], m)
    <3>1. OnTheWay(t)' = OnTheWay(t)
      BY <1>1, <1>2, <2>3, <2>5, ConcatMove DEF OnTheWay
    <3> QED BY <1>1, <2>2, <2>4, <3>1 DEF GoesOn
  <2>6. CASE ~Current(t, m) /\ queue'[t] = queue[t]
    <3>1. PICK q \in Seq(Msg), l \in Seq(Msg) : q = queue[t] /\ l = loop /\ l # <<>>
      BY <1>1, <2>3
    <3>2. PICK g \in Seq(Msg), p \in DOMAIN (q \o l) :
            /\ g = q \o Tail(l) /\ (q \o l)[p] = Head(l)
            /\ Len(g) + 1 = Len(q \o l)
            /\ \A i \in DOMAIN g : g[i] = IF i < p THEN (q \o l)[i] ELSE (q \o l)[i + 1]
      BY <3>1, ConcatDrop
    <3>3. OnTheWay(t) = q \o l /\ m = Head(l)
      BY <1>2, <3>1 DEF OnTheWay
    <3>4. ~In(t, run[t], OnTheWay(t)[p])
      BY <2>6, <3>2, <3>3 DEF Current, In
    <3>5. /\ Counts(t, run[t], OnTheWay(t), Received(t)) => Counts(t, run[t], g, Received(t))
          /\ UpTo(t, run[t], OnTheWay(t), Received(t), count[t]) =>
               UpTo(t, run[t], g, Received(t), count[t])
      BY <2>3, <3>2, <3>3, <3>4, CountsWithout
    <3>6. OnTheWay(t)' = g
      BY <1>1, <2>6, <3>1, <3>2 DEF OnTheWay
    <3> QED BY <1>1, <2>2, <2>4, <3>5, <3>6 DEF GoesOn
  <2> QED BY <1>4, <2>5, <2>6
<1> QED BY <1>3, <1>5 DEF Numbered

\* The handler takes the first of the queue and gives it to its client, if it is there.
LEMMA ForwardNumbered ==
  ASSUME LifeInv, Ordered, Numbered, NEW s \in Socket, Forward(s)
  PROVE  Numbered'
<1>0. TypeOK
  BY DEF LifeInv
<1>1. /\ UNCHANGED <<connected, run, worker, count, loop>>
      /\ handler[s] = "sending" /\ queue[s] # <<>>
      /\ queue'[s] = Tail(queue[s])
      /\ \A t \in Socket \ {s} :
           queue'[t] = queue[t] /\ handler'[t] = handler[t] /\ sent'[t] = sent[t]
  BY <1>0 DEF Forward, Send, TypeOK, thread
<1>2. PICK m \in Msg : m = Head(queue[s])
  BY <1>0, <1>1, LoopShrinks DEF TypeOK
<1>3. Current(s, m)
  <2>1. 1 \in DOMAIN queue[s] /\ m = queue[s][1]
    BY <1>0, <1>1, <1>2, LoopShrinks DEF TypeOK
  <2> QED BY <2>1 DEF Ordered, Queued
<1>4. /\ ~connected[s] => sent'[s] = sent[s]
      /\ connected[s] => \/ /\ m.what # END
                            /\ sent'[s] = Append(sent[s], m)
                            /\ handler'[s] = "sending"
                         \/ /\ m.what = END
                            /\ handler'[s] = "joining"
                            /\ sent'[s] \in {sent[s], Append(sent[s], [m EXCEPT !.what = "done"])}
  BY <1>0, <1>2 DEF Forward, Send, TypeOK
<1>5. Forgotten' /\ Fresh'
  BY <1>1, <1>4 DEF Numbered, Forgotten, Fresh
<1>6. Seen(s, run[s], sent[s])
  BY <1>1 DEF Numbered, Shown
<1>7. /\ queue[s] \in Seq(Msg) /\ loop \in Seq(Msg) /\ OnTheWay(s) \in Seq(Msg)
      /\ sent[s] \in Seq(Msg) /\ Received(s) \in Nat /\ count[s] \in Nat
  BY <1>0, OnTheWayType
<1>8. ASSUME NEW t \in Socket \ {s}
      PROVE  /\ GoesOn(t)'
             /\ handler'[t] \in {"sending", "joining"} => Seen(t, run'[t], sent'[t])
  BY <1>1 DEF Numbered, Shown, GoesOn, OnTheWay, Received
<1>9. CASE ~connected[s]
  <2>1. Seen(s, run'[s], sent'[s])
    BY <1>1, <1>4, <1>6, <1>9
  <2>2. GoesOn(s)'
    BY <1>1, <1>9 DEF GoesOn
  <2> QED BY <1>5, <1>8, <2>1, <2>2 DEF Numbered, Shown
<1>10. CASE connected[s] /\ m.what = END
  <2>1. PICK x : x = [m EXCEPT !.what = "done"]
    OBVIOUS
  <2>2. x \in Msg /\ x.of = s /\ x.run = run[s] /\ x.what # "event"
    BY <1>3, <2>1 DEF Msg, What, Current
  <2>3. Seen(s, run[s], Append(sent[s], x))
    BY <1>6, <1>7, <2>2, SeenAppend
  <2>4. Seen(s, run'[s], sent'[s]) /\ handler'[s] = "joining"
    BY <1>1, <1>4, <1>6, <1>10, <2>1, <2>3
  <2>5. GoesOn(s)'
    BY <2>4 DEF GoesOn
  <2> QED BY <1>5, <1>8, <2>4, <2>5 DEF Numbered, Shown
<1>11. CASE connected[s] /\ m.what # END
  <2>1. sent'[s] = Append(sent[s], m)
    BY <1>4, <1>11
  <2>2. /\ Counts(s, run[s], OnTheWay(s), Received(s))
        /\ worker[s] \in {"waiting", "running"} =>
             UpTo(s, run[s], OnTheWay(s), Received(s), count[s])
    BY <1>1, <1>11 DEF Numbered, GoesOn
  <2>3. OnTheWay(s) # <<>> /\ Head(OnTheWay(s)) = m /\ Tail(OnTheWay(s)) = OnTheWay(s)'
    BY <1>1, <1>2, <1>7, ConcatTail DEF OnTheWay
  <2>4. Received(s)' = Received(s) + IF m.what = "event" THEN 1 ELSE 0
    BY <1>7, <2>1, EventsAppend, LoopGrows DEF Received
  <2>5. PICK f \in Seq(Msg), c \in Nat, n \in Nat :
          /\ f = OnTheWay(s) /\ f # <<>> /\ Head(f) = m /\ Tail(f) = OnTheWay(s)'
          /\ n = Received(s) /\ c = count[s]
    BY <1>7, <2>3
  <2>6. /\ Counts(s, run[s], f, n)
        /\ worker[s] \in {"waiting", "running"} => UpTo(s, run[s], f, n, c)
    BY <2>2, <2>5
  <2>7. CASE m.what = "event"
    <3>1. In(s, run[s], m)
      BY <1>3, <2>7 DEF Current, In
    <3>2. /\ m.n = Received(s) + 1
          /\ Counts(s, run[s], OnTheWay(s)', Received(s) + 1)
          /\ worker[s] \in {"waiting", "running"} =>
               UpTo(s, run[s], OnTheWay(s)', Received(s) + 1, count[s])
      <4>1. In(s, run[s], Head(f))
        BY <2>5, <3>1
      <4>2. /\ Head(f).n = n + 1 /\ Counts(s, run[s], Tail(f), n + 1)
            /\ UpTo(s, run[s], f, n, c) => UpTo(s, run[s], Tail(f), n + 1, c)
        BY <2>5, <2>6, <4>1, CountsTail
      <4> QED BY <2>5, <2>6, <4>2
    <3>3. Seen(s, run[s], Append(sent[s], m))
      BY <1>3, <1>6, <1>7, <3>2, SeenAppend DEF Current, Received
    <3>4. Received(s)' = Received(s) + 1
      BY <2>4, <2>7
    <3>5. GoesOn(s)'
      BY <1>1, <3>2, <3>4 DEF GoesOn
    <3>6. Seen(s, run'[s], sent'[s])
      BY <1>1, <2>1, <3>3
    <3> QED BY <1>5, <1>8, <3>5, <3>6 DEF Numbered, Shown
  <2>8. CASE m.what # "event"
    <3>1. ~In(s, run[s], m)
      BY <2>8 DEF In
    <3>2. /\ Counts(s, run[s], OnTheWay(s)', Received(s))
          /\ worker[s] \in {"waiting", "running"} =>
               UpTo(s, run[s], OnTheWay(s)', Received(s), count[s])
      <4>1. ~In(s, run[s], Head(f))
        BY <2>5, <3>1
      <4>2. /\ Counts(s, run[s], Tail(f), n)
            /\ UpTo(s, run[s], f, n, c) => UpTo(s, run[s], Tail(f), n, c)
        BY <2>5, <2>6, <4>1, CountsTail
      <4> QED BY <2>5, <2>6, <4>2
    <3>3. Seen(s, run[s], Append(sent[s], m))
      BY <1>3, <1>6, <1>7, <2>8, SeenAppend DEF Current
    <3>4. Received(s)' = Received(s)
      BY <1>7, <2>4, <2>8
    <3>5. GoesOn(s)'
      BY <1>1, <3>2, <3>4 DEF GoesOn
    <3>6. Seen(s, run'[s], sent'[s])
      BY <1>1, <2>1, <3>3
    <3> QED BY <1>5, <1>8, <3>5, <3>6 DEF Numbered, Shown
  <2> QED BY <2>7, <2>8
<1> QED BY <1>9, <1>10, <1>11

LEMMA NextClient == ClientInv /\ [Next]_vars => ClientInv'
<1> SUFFICES ASSUME ClientInv, [Next]_vars PROVE ClientInv'
  OBVIOUS
<1>0. LifeInv /\ TypeOK /\ Ordered /\ Numbered
  BY DEF ClientInv, LifeInv
<1>1. LifeInv'
  BY <1>0, NextLife
<1>2. CASE UNCHANGED vars
  <2>1. UNCHANGED <<connected, handler, run, worker, count, loop, queue, sent>>
    BY <1>2 DEF vars, thread
  <2>2. Quiet
    BY <2>1 DEF Quiet
  <2>3. Numbered'
    BY <1>0, <2>1, <2>2, QuietNumbered DEF Numbered, Forgotten
  <2> QED BY <1>0, <1>1, <2>2, <2>3, QuietOrdered DEF ClientInv
<1>3. CASE \/ \E s \in Socket : \/ Connect(s) \/ Disconnect(s) \/ Reply(s)
                                \/ Die(s) \/ Leave(s) \/ Join(s)
           \/ StartWork \/ Stop \/ Down \/ Up
  <2>1. Ordered'
    BY <1>0, <1>3, QuietSteps, QuietOrdered
  <2>2. Numbered'
    BY <1>0, <1>3, QuietStepsNumbered
  <2> QED BY <1>1, <2>1, <2>2 DEF ClientInv
<1>4. ASSUME NEW s \in Socket, Accept(s) PROVE ClientInv'
  BY <1>0, <1>1, <1>4, AcceptOrdered, AcceptNumbered DEF ClientInv
<1>5. ASSUME NEW s \in Socket, Work(s) PROVE ClientInv'
  BY <1>0, <1>1, <1>5, WorkOrdered, WorkNumbered DEF ClientInv
<1>6. ASSUME NEW s \in Socket, Forward(s) PROVE ClientInv'
  BY <1>0, <1>1, <1>6, ForwardOrdered, ForwardNumbered DEF ClientInv
<1>7. CASE Deliver
  BY <1>0, <1>1, <1>7, DeliverOrdered, DeliverNumbered DEF ClientInv
<1> QED BY <1>2, <1>3, <1>4, <1>5, <1>6, <1>7 DEF Next, Handle

\* A client receives the events of the run it asked for, each once and in order
\* (ws_stream.py:62-70): the queue of a run takes nothing of the run before it, and the
\* loop and the queue keep the order in which the thread posted.
THEOREM ClientSees == Spec => []ClientSeesItsRun
<1>1. Init => ClientInv
  BY InitType, InitLife, InitOrdered, InitNumbered DEF ClientInv, LifeInv
<1>2. ClientInv => ClientSeesItsRun
  BY DEF ClientInv, Numbered, Shown, Seen, ClientSeesItsRun, Told, Events
<1> QED BY <1>1, <1>2, NextClient, PTL DEF Spec

-----------------------------------------------------------------------------
(* The promise, step by step.                                              *)

\* No message of a list is the last one of a request.
Unanswered(s, f) == \A i \in DOMAIN f : f[i].what \notin LastOf(s)

LEMMA AskedIs == \A s \in Socket : Asked(s) <=> connected[s] /\ Unanswered(s, sent[s])
BY DEF Asked, Unanswered

LEMMA UnansweredCases ==
  ASSUME NEW s \in Socket
  PROVE  /\ Unanswered(s, <<>>)
         /\ \A m : Unanswered(s, <<m>>) <=> m.what \notin LastOf(s)
         /\ \A f \in Seq(Msg), m \in Msg :
              Unanswered(s, Append(f, m)) <=> Unanswered(s, f) /\ m.what \notin LastOf(s)
<1>1. Unanswered(s, <<>>)
  BY EmptySeq DEF Unanswered
<1>2. ASSUME NEW m PROVE Unanswered(s, <<m>>) <=> m.what \notin LastOf(s)
  <2>1. DOMAIN <<m>> = {1} /\ <<m>>[1] = m
    OBVIOUS
  <2> QED BY <2>1 DEF Unanswered
<1>3. ASSUME NEW f \in Seq(Msg), NEW m \in Msg
      PROVE  Unanswered(s, Append(f, m)) <=> Unanswered(s, f) /\ m.what \notin LastOf(s)
  <2>1. PICK g : g = Append(f, m)
    OBVIOUS
  <2>2. /\ \A i \in DOMAIN f : i \in DOMAIN g /\ g[i] = f[i]
        /\ \A i \in DOMAIN g : i \in DOMAIN f \/ g[i] = m
        /\ \E i \in DOMAIN g : g[i] = m
    BY <2>1, LoopGrows
  <2>3. Unanswered(s, g) <=> Unanswered(s, f) /\ m.what \notin LastOf(s)
    BY <2>2 DEF Unanswered
  <2> QED BY <2>1, <2>3
<1> QED BY <1>1, <1>2, <1>3

\* The end of run r of s, and what must come before it.
Finishes(s, r, m) == m.of = s /\ m.run = r /\ m.what = END
Answers(s, r, m)  == m.of = s /\ m.run = r /\ m.what \in {"done", "error"}

Concluding(s, r, f) == \E i \in DOMAIN f : Answers(s, r, f[i])
EndsLast(s, r, f) ==
  \A i \in DOMAIN f : Finishes(s, r, f[i]) => \E j \in 1 .. i - 1 : Answers(s, r, f[j])

LEMMA EndsAppend ==
  ASSUME NEW s, NEW r, NEW f \in Seq(Msg), NEW m \in Msg
  PROVE  /\ Concluding(s, r, f) \/ Answers(s, r, m) => Concluding(s, r, Append(f, m))
         /\ EndsLast(s, r, f) /\ (Finishes(s, r, m) => Concluding(s, r, f))
              => EndsLast(s, r, Append(f, m))
<1>1. PICK g : g = Append(f, m)
  OBVIOUS
<1>2. PICK n \in Nat : n = Len(f)
  BY LenProperties
<1>3. /\ DOMAIN f = 1 .. n /\ DOMAIN g = 1 .. n + 1
      /\ \A i \in 1 .. n : g[i] = f[i]
      /\ g[n + 1] = m
  BY <1>1, <1>2, LoopGrows
<1>4. ASSUME Concluding(s, r, f) \/ Answers(s, r, m) PROVE Concluding(s, r, g)
  <2>1. CASE Answers(s, r, m)
    <3>1. n + 1 \in DOMAIN g /\ Answers(s, r, g[n + 1])
      BY <1>3, <2>1
    <3> QED BY <3>1 DEF Concluding
  <2>2. CASE Concluding(s, r, f)
    <3>1. PICK i \in 1 .. n : Answers(s, r, f[i])
      BY <1>3, <2>2 DEF Concluding
    <3>2. i \in DOMAIN g /\ g[i] = f[i]
      BY <1>3
    <3> QED BY <3>1, <3>2 DEF Concluding
  <2> QED BY <1>4, <2>1, <2>2
<1>5. ASSUME EndsLast(s, r, f), Finishes(s, r, m) => Concluding(s, r, f)
      PROVE  EndsLast(s, r, g)
  <2> SUFFICES ASSUME NEW i \in 1 .. n + 1, Finishes(s, r, g[i])
               PROVE  \E j \in 1 .. i - 1 : Answers(s, r, g[j])
    BY <1>3 DEF EndsLast
  <2>1. CASE i = n + 1
    <3>1. PICK j \in 1 .. n : Answers(s, r, f[j])
      BY <1>3, <1>5, <2>1 DEF Concluding
    <3>2. j \in 1 .. i - 1 /\ g[j] = f[j]
      BY <1>3, <2>1
    <3> QED BY <3>1, <3>2
  <2>2. CASE i \in 1 .. n
    <3>1. PICK j \in 1 .. i - 1 : Answers(s, r, f[j])
      BY <1>3, <1>5, <2>2 DEF EndsLast
    <3>2. j \in 1 .. n
      BY <2>2
    <3> QED BY <1>3, <3>1, <3>2
  <2> QED BY <2>1, <2>2
<1> QED BY <1>1, <1>4, <1>5

LEMMA EndsWithout ==
  ASSUME NEW s, NEW r, NEW f \in Seq(Msg), NEW g \in Seq(Msg),
         NEW p \in DOMAIN f, ~Answers(s, r, f[p]),
         Len(g) + 1 = Len(f),
         \A i \in DOMAIN g : g[i] = IF i < p THEN f[i] ELSE f[i + 1]
  PROVE  /\ Concluding(s, r, f) => Concluding(s, r, g)
         /\ EndsLast(s, r, f) => EndsLast(s, r, g)
<1>1. /\ DOMAIN f = 1 .. Len(f) /\ DOMAIN g = 1 .. Len(g) /\ Len(f) \in Nat /\ Len(g) \in Nat
      /\ p \in Nat
  BY LenProperties
<1> DEFINE old(i) == IF i < p THEN i ELSE i + 1
           new(i) == IF i < p THEN i ELSE i - 1
<1>2. \A i \in DOMAIN g : old(i) \in DOMAIN f /\ g[i] = f[old(i)]
  BY <1>1
<1>3. \A i \in DOMAIN f : i # p => new(i) \in DOMAIN g /\ g[new(i)] = f[i]
  BY <1>1
<1>4. \A i \in DOMAIN g, j \in DOMAIN f : j # p /\ j < old(i) => new(j) \in 1 .. i - 1
  BY <1>1
<1>5. \A i \in DOMAIN g : \A j \in 1 .. old(i) - 1 : j \in DOMAIN f /\ j < old(i)
  BY <1>1
<1> HIDE DEF old, new
<1>6. ASSUME Concluding(s, r, f) PROVE Concluding(s, r, g)
  <2>1. PICK i \in DOMAIN f : Answers(s, r, f[i])
    BY <1>6 DEF Concluding
  <2>2. new(i) \in DOMAIN g /\ g[new(i)] = f[i]
    BY <1>3, <2>1
  <2> QED BY <2>1, <2>2 DEF Concluding
<1>7. ASSUME EndsLast(s, r, f) PROVE EndsLast(s, r, g)
  <2> SUFFICES ASSUME NEW i \in DOMAIN g, Finishes(s, r, g[i])
               PROVE  \E j \in 1 .. i - 1 : Answers(s, r, g[j])
    BY DEF EndsLast
  <2>1. old(i) \in DOMAIN f /\ Finishes(s, r, f[old(i)])
    BY <1>2
  <2>2. PICK j \in 1 .. old(i) - 1 : Answers(s, r, f[j])
    BY <1>7, <2>1 DEF EndsLast
  <2>3. j \in DOMAIN f /\ j # p /\ j < old(i)
    BY <1>5, <2>2
  <2>4. new(j) \in 1 .. i - 1 /\ g[new(j)] = f[j]
    BY <1>3, <1>4, <2>3
  <2> QED BY <2>2, <2>4
<1> QED BY <1>6, <1>7

LEMMA EndsTail ==
  ASSUME NEW s, NEW r, NEW f \in Seq(Msg), f # <<>>, EndsLast(s, r, f)
  PROVE  /\ ~Finishes(s, r, Head(f))
         /\ ~Answers(s, r, Head(f)) =>
              /\ Concluding(s, r, f) => Concluding(s, r, Tail(f))
              /\ EndsLast(s, r, Tail(f))
<1>1. PICK g : g = Tail(f)
  OBVIOUS
<1>2. /\ g \in Seq(Msg) /\ 1 \in DOMAIN f /\ Head(f) = f[1]
      /\ Len(f) \in Nat /\ DOMAIN g = 1 .. Len(f) - 1
      /\ \A i \in DOMAIN g : g[i] = f[i + 1]
  BY <1>1, LoopShrinks
<1>3. Len(g) + 1 = Len(f)
  BY <1>1, HeadTailProperties, LenProperties
<1>4. ~Finishes(s, r, Head(f))
  <2>1. 1 .. 1 - 1 = {}
    OBVIOUS
  <2> QED BY <1>2, <2>1 DEF EndsLast
<1>5. \A i \in DOMAIN g : g[i] = IF i < 1 THEN f[i] ELSE f[i + 1]
  BY <1>2
<1>6. ~Answers(s, r, f[1]) =>
        /\ Concluding(s, r, f) => Concluding(s, r, g)
        /\ EndsLast(s, r, g)
  BY <1>2, <1>3, <1>5, EndsWithout
<1> QED BY <1>1, <1>2, <1>4, <1>6

\* A handler that has gone, or gives its run up, lost its client, ...
Away == \A s \in Socket : handler[s] \in {"gone", "abandoning"} => ~connected[s]

\* ... one that is done with a run has answered it, ...
Settled == \A s \in Socket : handler[s] \in {"waiting", "joining"} => ~Asked(s)

\* ... no event has a number above its run's, ...
Numbers(m) == m.what = "event" => m.n <= MaxEvents[m.of]

Bounded ==
  /\ \A i \in DOMAIN loop : Numbers(loop[i])
  /\ \A s \in Socket : \A i \in DOMAIN queue[s] : Numbers(queue[s][i])

\* ... and a query that is not answered yet has its answer on the way, before its end,
\* once its thread has come to the end.
Concludes(s) ==
  handler[s] = "sending" /\ Kind[s] = "stream" /\ Asked(s) =>
    /\ worker[s] \in {"ending", "finished"} => Concluding(s, run[s], OnTheWay(s))
    /\ EndsLast(s, run[s], OnTheWay(s))

Answering == Away /\ Settled /\ Bounded /\ \A s \in Socket : Concludes(s)

LEMMA InitAnswering == Init => Answering
<1> SUFFICES ASSUME Init PROVE Answering
  OBVIOUS
<1>1. \A s \in Socket : connected[s] = FALSE /\ handler[s] = "gone" /\ queue[s] = <<>>
  BY DEF Init
<1>2. DOMAIN loop = {} /\ \A s \in Socket : DOMAIN queue[s] = {}
  BY <1>1 DEF Init
<1> QED BY <1>1, <1>2 DEF Answering, Away, Settled, Bounded, Concludes

\* Steps that neither emit nor carry a message.
LEMMA QuietAnswering ==
  ASSUME TypeOK, Answering, Quiet,
         \A t \in Socket :
           /\ handler'[t] \in {"gone", "abandoning"} => ~connected'[t]
           /\ handler'[t] \in {"waiting", "joining"} =>
                ~connected'[t] \/ ~Unanswered(t, sent'[t])
           /\ handler'[t] = "sending" /\ connected'[t] => connected[t] /\ sent'[t] = sent[t]
           /\ worker'[t] \in {"ending", "finished"} => worker[t] = worker'[t]
  PROVE  Answering'
<1>1. \A t \in Socket : Asked(t)' <=> connected'[t] /\ Unanswered(t, sent'[t])
  BY DEF Asked, Unanswered, LastOf
<1>2. Away' /\ Settled'
  BY <1>1 DEF Away, Settled
<1>3. Bounded'
  BY DEF Answering, Bounded, Numbers, Quiet
<1>4. ASSUME NEW t \in Socket PROVE Concludes(t)'
  <2> SUFFICES ASSUME (handler[t] = "sending" /\ Kind[t] = "stream" /\ Asked(t))'
               PROVE  /\ worker'[t] \in {"ending", "finished"} =>
                           Concluding(t, run'[t], OnTheWay(t)')
                      /\ EndsLast(t, run'[t], OnTheWay(t)')
    BY DEF Concludes
  <2>1. handler[t] = "sending" /\ Kind[t] = "stream" /\ Asked(t)
    BY <1>1, AskedIs DEF Quiet
  <2>2. run'[t] = run[t] /\ OnTheWay(t)' = OnTheWay(t)
    BY DEF Quiet, OnTheWay
  <2> QED BY <2>1, <2>2 DEF Answering, Concludes
<1> QED BY <1>2, <1>3, <1>4 DEF Answering

LEMMA QuietStepsAnswering ==
  ASSUME LifeInv, Answering,
         \/ \E s \in Socket : \/ Connect(s) \/ Disconnect(s) \/ Reply(s)
                              \/ Die(s) \/ Leave(s) \/ Join(s)
         \/ StartWork \/ Stop \/ Down \/ Up
  PROVE  Answering'
<1>0. TypeOK /\ Quiet
  BY QuietSteps DEF LifeInv
<1>1. \A t \in Socket :
        /\ handler[t] \in {"gone", "abandoning"} => ~connected[t]
        /\ handler[t] \in {"waiting", "joining"} => ~connected[t] \/ ~Unanswered(t, sent[t])
  BY AskedIs DEF Answering, Away, Settled
<1>2. CASE StartWork \/ Down \/ Up
  <2>1. /\ UNCHANGED <<connected, handler, sent>>
        /\ \A t \in Socket : worker'[t] \in {"ending", "finished"} => worker[t] = worker'[t]
    BY <1>0, <1>2 DEF StartWork, Down, Up, thread, TypeOK
  <2> QED BY <1>0, <1>1, <2>1, QuietAnswering
<1>3. CASE Stop
  <2>1. UNCHANGED <<handler, worker>> /\ \A t \in Socket : connected'[t] = FALSE
    BY <1>3 DEF Stop, Cut, thread
  <2> QED BY <1>0, <2>1, QuietAnswering
<1>4. ASSUME NEW s \in Socket,
             Connect(s) \/ Disconnect(s) \/ Reply(s) \/ Die(s) \/ Leave(s) \/ Join(s)
      PROVE  Answering'
  <2>1. UNCHANGED worker
    BY <1>4 DEF Connect, Disconnect, Reply, Die, Leave, Join, thread
  <2>2. \A t \in Socket \ {s} :
          connected'[t] = connected[t] /\ handler'[t] = handler[t] /\ sent'[t] = sent[t]
    BY <1>0, <1>4 DEF TypeOK, Connect, Disconnect, Reply, Die, Leave, Join, Cut
  <2>3. CASE Connect(s) \/ Reply(s)
    <3>1. PICK m : sent'[s] = <<m>> /\ m.what \in {"accept", "reply"}
      BY <1>0, <2>3 DEF Connect, Reply, Message, TypeOK
    <3>2. ~Unanswered(s, sent'[s])
      BY <3>1, UnansweredCases DEF LastOf
    <3>3. handler'[s] = "waiting"
      BY <1>0, <2>3 DEF Connect, Reply, TypeOK
    <3> QED BY <1>0, <1>1, <2>1, <2>2, <3>2, <3>3, QuietAnswering
  <2>4. CASE Disconnect(s) \/ Die(s)
    <3>1. connected'[s] = FALSE
      BY <2>4 DEF Disconnect, Die, Cut
    <3> QED BY <1>0, <1>1, <2>1, <2>2, <3>1, QuietAnswering
  <2>5. CASE Leave(s)
    <3>1. handler'[s] = "gone" /\ connected'[s] = connected[s] /\ ~connected[s]
      BY <1>0, <2>5 DEF Leave, TypeOK
    <3> QED BY <1>0, <1>1, <2>1, <2>2, <3>1, QuietAnswering
  <2>6. CASE Join(s)
    <3>1. /\ connected'[s] = connected[s] /\ sent'[s] = sent[s]
          /\ \/ handler[s] = "joining" /\ handler'[s] = "waiting"
             \/ handler[s] = "abandoning" /\ handler'[s] = "gone"
      BY <1>0, <2>6 DEF Join, TypeOK
    <3> QED BY <1>0, <1>1, <2>1, <2>2, <3>1, QuietAnswering
  <2> QED BY <1>4, <2>3, <2>4, <2>5, <2>6
<1> QED BY <1>2, <1>3, <1>4

\* Nothing on the loop is of the new run.
LEMMA AcceptAnswering ==
  ASSUME LifeInv, Ordered, Answering, NEW s \in Socket, Accept(s)
  PROVE  Answering'
<1>1. /\ UNCHANGED <<connected, loop>>
      /\ \A t \in Socket \ {s} :
           /\ run'[t] = run[t] /\ queue'[t] = queue[t] /\ handler'[t] = handler[t]
           /\ sent'[t] = sent[t] /\ worker'[t] = worker[t]
      /\ handler'[s] = "sending" /\ queue'[s] = <<>> /\ worker'[s] = "waiting"
      /\ connected[s] = TRUE
  BY DEF Accept, LifeInv, TypeOK
<1>2. Away'
  BY <1>1 DEF Answering, Away
<1>3. Settled'
  BY <1>1 DEF Answering, Settled, Asked, LastOf
<1>4. Bounded'
  <2>1. DOMAIN queue'[s] = {}
    BY <1>1
  <2> QED BY <1>1, <2>1 DEF Answering, Bounded, Numbers
<1>5. Concludes(s)'
  <2>1. queue'[s] \o loop' = loop
    <3>1. loop \in Seq(Msg)
      BY DEF LifeInv, TypeOK
    <3> QED BY <1>1, <3>1, ConcatEmptySeq
  <2>2. \A i \in DOMAIN loop : ~Finishes(s, run'[s], loop[i])
    <3>1. \A i \in DOMAIN loop : ~Current(s, loop[i])'
      BY AcceptOrdered
    <3> QED BY <1>1, <3>1 DEF Finishes, Current
  <2>3. EndsLast(s, run'[s], loop)
    BY <2>2 DEF EndsLast
  <2> QED BY <1>1, <2>1, <2>3 DEF Concludes, OnTheWay
<1>6. ASSUME NEW t \in Socket \ {s} PROVE Concludes(t)'
  BY <1>1 DEF Answering, Concludes, OnTheWay, Asked, LastOf
<1> QED BY <1>2, <1>3, <1>4, <1>5, <1>6 DEF Answering

\* A thread numbers its events up to the bound, and posts an answer before its end.
LEMMA WorkAnswering ==
  ASSUME LifeInv, Answering, NEW s \in Socket, Work(s)
  PROVE  Answering'
<1>0. TypeOK
  BY DEF LifeInv
<1>1. UNCHANGED <<connected, handler, run, queue, sent>>
  BY <1>0, WorkPosts
<1>2. \A t \in Socket \ {s} : worker'[t] = worker[t]
  BY <1>0 DEF Work, Emit, Raise, Conclude, Last, End, TypeOK
<1>3. PICK m \in Msg :
        /\ loop' = Append(loop, m) /\ Current(s, m) /\ Numbers(m)
        /\ \/ m.what = "event" /\ worker[s] = "running" /\ worker'[s] = "running"
           \/ /\ m.what \in {"error", IF Kind[s] = "stream" THEN "done" ELSE "summary"}
              /\ worker[s] = "running" /\ worker'[s] = "ending"
           \/ m.what = END /\ worker[s] = "ending"
  <2>1. \A what \in What, n \in Nat :
          /\ Message(s, what, n) \in Msg /\ Current(s, Message(s, what, n))
          /\ Message(s, what, n).what = what /\ Message(s, what, n).n = n
          /\ Message(s, what, n).of = s
    BY <1>0, MessageType DEF TypeOK, Message, Current
  <2>2. count[s] \in Nat /\ MaxEvents[s] \in Nat
    BY <1>0, StreamingAssumption DEF TypeOK
  <2>3. CASE Emit(s)
    <3>1. PICK n \in Nat : n = count[s] + 1 /\ n <= MaxEvents[s]
      BY <2>2, <2>3 DEF Emit
    <3>2. loop' = Append(loop, Message(s, "event", n))
      BY <2>3, <3>1 DEF Emit, Post
    <3>3. worker[s] = "running" /\ worker'[s] = "running"
      BY <2>3 DEF Emit
    <3>4. PICK m : m = Message(s, "event", n)
      OBVIOUS
    <3>5. m \in Msg /\ Current(s, m) /\ m.what = "event" /\ m.n = n /\ m.of = s
      BY <2>1, <3>4 DEF What
    <3>6. Numbers(m)
      BY <3>1, <3>5 DEF Numbers
    <3> QED BY <3>2, <3>3, <3>4, <3>5, <3>6
  <2>4. CASE Raise(s) \/ Conclude(s)
    <3>1. PICK what \in {"error", IF Kind[s] = "stream" THEN "done" ELSE "summary"} :
            loop' = Append(loop, Message(s, what, 0))
      BY <2>4 DEF Raise, Conclude, Last, Post
    <3>2. worker[s] = "running" /\ worker'[s] = "ending"
      BY <1>0, <2>4 DEF Raise, Conclude, Last, TypeOK
    <3>3. what \in What /\ what # "event"
      BY DEF What
    <3>4. PICK m : m = Message(s, what, 0)
      OBVIOUS
    <3>5. m \in Msg /\ Current(s, m) /\ m.what = what
      BY <2>1, <3>3, <3>4
    <3>6. Numbers(m)
      BY <3>3, <3>5 DEF Numbers
    <3> QED BY <3>1, <3>2, <3>4, <3>5, <3>6
  <2>5. CASE End(s)
    <3>1. loop' = Append(loop, Message(s, END, 0)) /\ worker[s] = "ending"
      BY <2>5 DEF End, Post
    <3>2. END \in What /\ END # "event"
      BY DEF What, END
    <3>3. PICK m : m = Message(s, END, 0)
      OBVIOUS
    <3>4. m \in Msg /\ Current(s, m) /\ m.what = END
      BY <2>1, <3>2, <3>3
    <3>5. Numbers(m)
      BY <3>2, <3>4 DEF Numbers
    <3> QED BY <3>1, <3>3, <3>4, <3>5
  <2> QED BY <2>3, <2>4, <2>5 DEF Work
<1>4. Away' /\ Settled'
  BY <1>1 DEF Answering, Away, Settled, Asked, LastOf
<1>5. Bounded'
  <2>1. /\ \A i \in DOMAIN loop : loop'[i] = loop[i]
        /\ \A i \in DOMAIN loop' : i \in DOMAIN loop \/ loop'[i] = m
    BY <1>0, <1>3, LoopGrows DEF TypeOK
  <2>2. \A i \in DOMAIN loop' : Numbers(loop'[i])
    BY <1>3, <2>1 DEF Answering, Bounded
  <2> QED BY <1>1, <2>2 DEF Answering, Bounded, Numbers
<1>6. ASSUME NEW t \in Socket
      PROVE  OnTheWay(t)' = Append(OnTheWay(t), m) /\ OnTheWay(t) \in Seq(Msg)
  BY <1>0, <1>1, <1>3, OnTheWayType, ConcatAppend DEF OnTheWay
<1>7. ASSUME NEW t \in Socket \ {s} PROVE Concludes(t)'
  <2>1. SUFFICES ASSUME handler[t] = "sending", Kind[t] = "stream", Asked(t)
                 PROVE  Concludes(t)'
    BY <1>1 DEF Concludes, Asked, LastOf
  <2>2. ~Finishes(t, run[t], m)
    BY <1>3 DEF Current, Finishes
  <2>3. /\ worker[t] \in {"ending", "finished"} => Concluding(t, run[t], OnTheWay(t))
        /\ EndsLast(t, run[t], OnTheWay(t))
    BY <2>1 DEF Answering, Concludes
  <2>4. /\ worker[t] \in {"ending", "finished"} => Concluding(t, run[t], Append(OnTheWay(t), m))
        /\ EndsLast(t, run[t], Append(OnTheWay(t), m))
    BY <1>6, <2>2, <2>3, EndsAppend
  <2> QED BY <1>1, <1>2, <1>6, <2>4 DEF Concludes
<1>8. Concludes(s)'
  <2>1. SUFFICES ASSUME handler[s] = "sending", Kind[s] = "stream", Asked(s)
                 PROVE  Concludes(s)'
    BY <1>1 DEF Concludes, Asked, LastOf
  <2>2. /\ worker[s] \in {"ending", "finished"} => Concluding(s, run[s], OnTheWay(s))
        /\ EndsLast(s, run[s], OnTheWay(s))
    BY <2>1 DEF Answering, Concludes
  <2>3. Finishes(s, run[s], m) => worker[s] = "ending"
    BY <1>3 DEF Finishes, END
  <2>4. EndsLast(s, run[s], Append(OnTheWay(s), m))
    BY <1>6, <2>2, <2>3, EndsAppend
  <2>5. worker'[s] \in {"ending", "finished"} =>
          worker[s] \in {"ending", "finished"} \/ Answers(s, run[s], m)
    BY <1>3, <2>1 DEF Answers, Current
  <2>6. worker'[s] \in {"ending", "finished"} => Concluding(s, run[s], Append(OnTheWay(s), m))
    BY <1>6, <2>2, <2>5, EndsAppend
  <2> QED BY <1>1, <1>6, <2>4, <2>6 DEF Concludes
<1> QED BY <1>4, <1>5, <1>7, <1>8 DEF Answering

LEMMA DeliverAnswering ==
  ASSUME LifeInv, Answering, Deliver
  PROVE  Answering'
<1>0. TypeOK
  BY DEF LifeInv
<1>1. loop # <<>> /\ loop' = Tail(loop) /\ UNCHANGED <<connected, handler, run, worker, sent>>
  BY DEF Deliver, thread
<1>2. PICK m \in Msg : m = Head(loop)
  BY <1>0, <1>1, LoopShrinks DEF TypeOK
<1>3. Away' /\ Settled'
  BY <1>1 DEF Answering, Away, Settled, Asked, LastOf
<1>4. ASSUME NEW t \in Socket
      PROVE  \/ Current(t, m) /\ queue'[t] = Append(queue[t], m)
             \/ ~Current(t, m) /\ queue'[t] = queue[t]
  <2>1. queue' = IF m.run = run[m.of] THEN [queue EXCEPT ![m.of] = Append(@, m)] ELSE queue
    BY <1>2 DEF Deliver, ForTheQueueOf
  <2>2. queue \in [Socket -> Seq(Msg)]
    BY <1>0 DEF TypeOK
  <2> QED BY <2>1, <2>2 DEF Current
<1>5. Bounded'
  <2>1. /\ 1 \in DOMAIN loop /\ m = loop[1]
        /\ \A i \in DOMAIN loop' : i + 1 \in DOMAIN loop /\ loop'[i] = loop[i + 1]
    BY <1>0, <1>1, <1>2, LoopShrinks DEF TypeOK
  <2>2. Numbers(m) /\ \A i \in DOMAIN loop' : Numbers(loop'[i])
    BY <2>1 DEF Answering, Bounded
  <2>3. ASSUME NEW t \in Socket, NEW i \in DOMAIN queue'[t] PROVE Numbers(queue'[t][i])
    <3>1. \A j \in DOMAIN queue[t] : Numbers(queue[t][j])
      BY DEF Answering, Bounded
    <3>2. CASE queue'[t] = queue[t]
      BY <2>3, <3>1, <3>2
    <3>3. CASE queue'[t] = Append(queue[t], m)
      <4>1. /\ \A j \in DOMAIN queue[t] : queue'[t][j] = queue[t][j]
            /\ \A j \in DOMAIN queue'[t] : j \in DOMAIN queue[t] \/ queue'[t][j] = m
        BY <1>0, <3>3, LoopGrows DEF TypeOK
      <4> QED BY <2>2, <2>3, <3>1, <4>1
    <3> QED BY <1>4, <3>2, <3>3
  <2> QED BY <2>2, <2>3 DEF Bounded, Numbers
<1>6. ASSUME NEW t \in Socket PROVE Concludes(t)'
  <2>1. SUFFICES ASSUME handler[t] = "sending", Kind[t] = "stream", Asked(t)
                 PROVE  Concludes(t)'
    BY <1>1 DEF Concludes, Asked, LastOf
  <2>2. /\ worker[t] \in {"ending", "finished"} => Concluding(t, run[t], OnTheWay(t))
        /\ EndsLast(t, run[t], OnTheWay(t))
    BY <2>1 DEF Answering, Concludes
  <2>3. queue[t] \in Seq(Msg) /\ loop \in Seq(Msg) /\ OnTheWay(t) \in Seq(Msg)
    BY <1>0, OnTheWayType
  <2>4. CASE Current(t, m) /\ queue'[t] = Append(queue[t], m)
    <3>1. OnTheWay(t)' = OnTheWay(t)
      BY <1>1, <1>2, <2>3, <2>4, ConcatMove DEF OnTheWay
    <3> QED BY <1>1, <2>2, <3>1 DEF Concludes
  <2>5. CASE ~Current(t, m) /\ queue'[t] = queue[t]
    <3>1. PICK q \in Seq(Msg), l \in Seq(Msg) : q = queue[t] /\ l = loop /\ l # <<>>
      BY <1>1, <2>3
    <3>2. PICK g \in Seq(Msg), p \in DOMAIN (q \o l) :
            /\ g = q \o Tail(l) /\ (q \o l)[p] = Head(l)
            /\ Len(g) + 1 = Len(q \o l)
            /\ \A i \in DOMAIN g : g[i] = IF i < p THEN (q \o l)[i] ELSE (q \o l)[i + 1]
      BY <3>1, ConcatDrop
    <3>3. OnTheWay(t) = q \o l /\ m = Head(l)
      BY <1>2, <3>1 DEF OnTheWay
    <3>4. ~Answers(t, run[t], OnTheWay(t)[p])
      BY <2>5, <3>2, <3>3 DEF Current, Answers
    <3>5. /\ Concluding(t, run[t], OnTheWay(t)) => Concluding(t, run[t], g)
          /\ EndsLast(t, run[t], OnTheWay(t)) => EndsLast(t, run[t], g)
      BY <2>3, <3>2, <3>3, <3>4, EndsWithout
    <3>6. OnTheWay(t)' = g
      BY <1>1, <2>5, <3>1, <3>2 DEF OnTheWay
    <3> QED BY <1>1, <2>2, <3>5, <3>6 DEF Concludes
  <2> QED BY <1>4, <2>4, <2>5
<1> QED BY <1>3, <1>5, <1>6 DEF Answering

\* What the handler takes from the queue, and what its client then has.
LEMMA Forwarded ==
  ASSUME TypeOK, Ordered, NEW s \in Socket, Forward(s)
  PROVE  /\ UNCHANGED <<connected, run, worker, loop>>
         /\ handler[s] = "sending" /\ queue[s] # <<>> /\ queue'[s] = Tail(queue[s])
         /\ \A t \in Socket \ {s} :
              queue'[t] = queue[t] /\ handler'[t] = handler[t] /\ sent'[t] = sent[t]
         /\ Current(s, Head(queue[s])) /\ Head(queue[s]) \in Msg
         /\ ~connected[s] => sent'[s] = sent[s]
         /\ connected[s] /\ Head(queue[s]).what # END =>
              sent'[s] = Append(sent[s], Head(queue[s])) /\ handler'[s] = "sending"
         /\ connected[s] /\ Head(queue[s]).what = END /\ Kind[s] = "eval" =>
              /\ handler'[s] = "joining"
              /\ sent'[s] = Append(sent[s], [Head(queue[s]) EXCEPT !.what = "done"])
         /\ connected[s] /\ Head(queue[s]).what = END /\ Kind[s] # "eval" =>
              handler'[s] = "joining" /\ sent'[s] = sent[s]
<1>1. /\ UNCHANGED <<connected, run, worker, loop>>
      /\ handler[s] = "sending" /\ queue[s] # <<>>
      /\ queue'[s] = Tail(queue[s])
      /\ \A t \in Socket \ {s} :
           queue'[t] = queue[t] /\ handler'[t] = handler[t] /\ sent'[t] = sent[t]
  BY DEF Forward, Send, TypeOK, thread
<1>2. PICK m \in Msg : m = Head(queue[s])
  BY <1>1, LoopShrinks DEF TypeOK
<1>3. Current(s, m)
  <2>1. 1 \in DOMAIN queue[s] /\ m = queue[s][1]
    BY <1>1, <1>2, LoopShrinks DEF TypeOK
  <2> QED BY <2>1 DEF Ordered, Queued
<1>4. CASE m.what # END
  <2>1. Send(s, m, "sending")
    BY <1>2, <1>4 DEF Forward
  <2>2. /\ ~connected[s] => sent'[s] = sent[s]
        /\ connected[s] => sent'[s] = Append(sent[s], m) /\ handler'[s] = "sending"
    BY <2>1 DEF Send, TypeOK
  <2> QED BY <1>1, <1>2, <1>3, <1>4, <2>2
<1>5. CASE m.what = END /\ Kind[s] = "eval"
  <2>1. Send(s, [m EXCEPT !.what = "done"], "joining")
    BY <1>2, <1>5 DEF Forward
  <2>2. /\ ~connected[s] => sent'[s] = sent[s]
        /\ connected[s] => /\ sent'[s] = Append(sent[s], [m EXCEPT !.what = "done"])
                           /\ handler'[s] = "joining"
    BY <2>1 DEF Send, TypeOK
  <2> QED BY <1>1, <1>2, <1>3, <1>5, <2>2
<1>6. CASE m.what = END /\ Kind[s] # "eval"
  <2>1. sent'[s] = sent[s] /\ handler'[s] = "joining"
    BY <1>2, <1>6 DEF Forward, TypeOK
  <2> QED BY <1>1, <1>2, <1>3, <1>6, <2>1
<1> QED BY <1>4, <1>5, <1>6

LEMMA ForwardAnswering ==
  ASSUME LifeInv, Ordered, Answering, NEW s \in Socket, Forward(s)
  PROVE  Answering'
<1>0. TypeOK
  BY DEF LifeInv
<1>1. /\ UNCHANGED <<connected, run, worker, loop>>
      /\ handler[s] = "sending" /\ queue[s] # <<>> /\ queue'[s] = Tail(queue[s])
      /\ \A t \in Socket \ {s} :
           queue'[t] = queue[t] /\ handler'[t] = handler[t] /\ sent'[t] = sent[t]
  BY <1>0, Forwarded
<1>2. PICK m \in Msg :
        /\ m = Head(queue[s]) /\ Current(s, m)
        /\ connected[s] /\ m.what # END => sent'[s] = Append(sent[s], m) /\ handler'[s] = "sending"
        /\ connected[s] /\ m.what = END /\ Kind[s] = "eval" =>
             /\ handler'[s] = "joining"
             /\ sent'[s] = Append(sent[s], [m EXCEPT !.what = "done"])
        /\ connected[s] /\ m.what = END /\ Kind[s] # "eval" =>
             handler'[s] = "joining" /\ sent'[s] = sent[s]
  BY <1>0, Forwarded
<1>3. \A t \in Socket : Asked(t)' <=> connected'[t] /\ Unanswered(t, sent'[t])
  BY DEF Asked, Unanswered, LastOf
<1>4. sent[s] \in Seq(Msg) /\ queue[s] \in Seq(Msg) /\ loop \in Seq(Msg)
  BY <1>0, OnTheWayType
<1>5. Away'
  BY <1>1, <1>2 DEF Answering, Away
<1>6. Bounded'
  <2>1. \A i \in DOMAIN queue'[s] : i + 1 \in DOMAIN queue[s] /\ queue'[s][i] = queue[s][i + 1]
    BY <1>1, <1>4, LoopShrinks
  <2>2. \A i \in DOMAIN queue'[s] : Numbers(queue'[s][i])
    BY <2>1 DEF Answering, Bounded
  <2> QED BY <1>1, <2>2 DEF Answering, Bounded, Numbers
<1>7. ASSUME NEW t \in Socket \ {s}
      PROVE  /\ Concludes(t)'
             /\ handler'[t] \in {"waiting", "joining"} => ~Asked(t)'
  BY <1>1 DEF Answering, Settled, Concludes, OnTheWay, Asked, LastOf
<1>8. CASE ~connected[s]
  BY <1>1, <1>3, <1>5, <1>6, <1>7, <1>8 DEF Answering, Settled, Concludes
<1>9. /\ OnTheWay(s) # <<>> /\ Head(OnTheWay(s)) = m /\ Tail(OnTheWay(s)) = OnTheWay(s)'
      /\ OnTheWay(s) \in Seq(Msg)
  BY <1>0, <1>1, <1>2, <1>4, ConcatTail, OnTheWayType DEF OnTheWay
<1>10. Kind[s] = "stream" /\ Asked(s) =>
         /\ ~Finishes(s, run[s], m)
         /\ ~Answers(s, run[s], m) =>
              /\ worker[s] \in {"ending", "finished"} => Concluding(s, run[s], OnTheWay(s)')
              /\ EndsLast(s, run[s], OnTheWay(s)')
  <2> SUFFICES ASSUME Kind[s] = "stream", Asked(s)
               PROVE  /\ ~Finishes(s, run[s], m)
                      /\ ~Answers(s, run[s], m) =>
                           /\ worker[s] \in {"ending", "finished"} =>
                                Concluding(s, run[s], OnTheWay(s)')
                           /\ EndsLast(s, run[s], OnTheWay(s)')
    OBVIOUS
  <2>1. /\ worker[s] \in {"ending", "finished"} => Concluding(s, run[s], OnTheWay(s))
        /\ EndsLast(s, run[s], OnTheWay(s))
    BY <1>1 DEF Answering, Concludes
  <2>2. PICK f \in Seq(Msg) : f = OnTheWay(s) /\ f # <<>>
    BY <1>9
  <2>3. /\ ~Finishes(s, run[s], Head(f))
        /\ ~Answers(s, run[s], Head(f)) =>
             /\ Concluding(s, run[s], f) => Concluding(s, run[s], Tail(f))
             /\ EndsLast(s, run[s], Tail(f))
    BY <2>1, <2>2, EndsTail
  <2> QED BY <1>9, <2>1, <2>2, <2>3
<1>11. CASE connected[s] /\ m.what # END
  <2>1. sent'[s] = Append(sent[s], m) /\ handler'[s] = "sending"
    BY <1>2, <1>11
  <2>2. Asked(s)' => Asked(s) /\ m.what \notin LastOf(s)
    <3>1. Unanswered(s, sent'[s]) <=> Unanswered(s, sent[s]) /\ m.what \notin LastOf(s)
      BY <1>2, <1>4, <2>1, UnansweredCases
    <3>2. (Asked(s)' <=> connected'[s] /\ Unanswered(s, sent'[s])) /\ connected'[s] = connected[s]
      BY <1>1, <1>3
    <3>3. Asked(s) <=> connected[s] /\ Unanswered(s, sent[s])
      BY AskedIs
    <3> QED BY <3>1, <3>2, <3>3
  <2>3. Kind[s] = "stream" /\ Asked(s)' => ~Answers(s, run[s], m)
    BY <2>2 DEF LastOf, Answers
  <2>4. Concludes(s)'
    BY <1>1, <1>10, <2>2, <2>3 DEF Concludes
  <2> QED BY <1>5, <1>6, <1>7, <2>1, <2>4 DEF Answering, Settled
<1>12. CASE connected[s] /\ m.what = END
  <2>1. handler'[s] = "joining"
    BY <1>2, <1>12
  <2>2. ~Asked(s)'
    <3>1. CASE Kind[s] = "eval"
      <4>1. PICK x : x = [m EXCEPT !.what = "done"]
        OBVIOUS
      <4>2. x \in Msg /\ x.what = "done"
        BY <4>1 DEF Msg, What
      <4>3. sent'[s] = Append(sent[s], x)
        BY <1>2, <1>12, <3>1, <4>1
      <4>4. ~Unanswered(s, sent'[s])
        BY <1>4, <4>2, <4>3, UnansweredCases DEF LastOf
      <4> QED BY <1>3, <4>4
    <3>2. CASE Kind[s] = "stream"
      <4>1. ~Asked(s)
        BY <1>2, <1>10, <1>12, <3>2 DEF Finishes, Current
      <4>2. sent'[s] = sent[s]
        BY <1>2, <1>12, <3>2
      <4> QED BY <1>1, <1>3, <4>1, <4>2, AskedIs
    <3> QED BY <3>1, <3>2, StreamingAssumption
  <2> QED BY <1>5, <1>6, <1>7, <2>1, <2>2 DEF Answering, Settled, Concludes
<1> QED BY <1>8, <1>11, <1>12

LEMMA NextAnswering == ClientInv /\ Answering /\ [Next]_vars => Answering'
<1> SUFFICES ASSUME ClientInv, Answering, [Next]_vars PROVE Answering'
  OBVIOUS
<1>0. LifeInv /\ TypeOK /\ Ordered
  BY DEF ClientInv, LifeInv
<1>1. CASE UNCHANGED vars
  <2>1. UNCHANGED <<connected, handler, run, worker, loop, queue, sent>>
    BY <1>1 DEF vars, thread
  <2> QED BY <2>1
        DEF Answering, Away, Settled, Bounded, Numbers, Concludes, OnTheWay, Asked, LastOf
<1>2. CASE \/ \E s \in Socket : \/ Connect(s) \/ Disconnect(s) \/ Reply(s)
                                \/ Die(s) \/ Leave(s) \/ Join(s)
           \/ StartWork \/ Stop \/ Down \/ Up
  BY <1>0, <1>2, QuietStepsAnswering
<1>3. ASSUME NEW s \in Socket, Accept(s) PROVE Answering'
  BY <1>0, <1>3, AcceptAnswering
<1>4. ASSUME NEW s \in Socket, Work(s) PROVE Answering'
  BY <1>0, <1>4, WorkAnswering
<1>5. ASSUME NEW s \in Socket, Forward(s) PROVE Answering'
  BY <1>0, <1>5, ForwardAnswering
<1>6. CASE Deliver
  BY <1>0, <1>6, DeliverAnswering
<1> QED BY <1>1, <1>2, <1>3, <1>4, <1>5, <1>6 DEF Next, Handle

\* What the client of a socket has been promised, and what it has of it.
LEMMA PhaseIs ==
  ASSUME NEW s \in Socket
  PROVE  /\ ~connected[s] => Phase(s) = "gone" /\ Tally(s) = 0
         /\ connected[s] /\ ~Unanswered(s, sent[s]) => Phase(s) = "idle" /\ Tally(s) = 0
         /\ connected[s] /\ Unanswered(s, sent[s]) =>
              Phase(s) = "asked" /\ Tally(s) = Received(s)
<1>1. Told(s, Len(sent[s])) = Received(s)
  BY DEF Told, Received, Events
<1> QED BY <1>1, AskedIs DEF Phase, Tally, Asked

LEMMA PhaseThen ==
  ASSUME NEW s \in Socket
  PROVE  /\ ~connected'[s] => Phase(s)' = "gone" /\ Tally(s)' = 0
         /\ connected'[s] /\ ~Unanswered(s, sent'[s]) => Phase(s)' = "idle" /\ Tally(s)' = 0
         /\ connected'[s] /\ Unanswered(s, sent'[s]) =>
              Phase(s)' = "asked" /\ Tally(s)' = Events(sent'[s], Len(sent'[s]))
<1>1. Told(s, Len(sent[s]))' = Events(sent'[s], Len(sent'[s]))
  BY DEF Told, Events
<1>2. Asked(s)' <=> connected'[s] /\ Unanswered(s, sent'[s])
  BY DEF Asked, Unanswered, LastOf
<1> QED BY <1>1, <1>2 DEF Phase, Tally

\* A step that leaves the other clients alone.
LEMMA Becomes ==
  ASSUME NEW s \in Socket,
         \A t \in Socket \ {s} : connected'[t] = connected[t] /\ sent'[t] = sent[t],
         NEW p, NEW n, Phase(s)' = p, Tally(s)' = n
  PROVE  /\ Promise!Become(s, p, n)
         /\ Phase(s) = p /\ Tally(s) = n => UNCHANGED Promise!vars
<1>1. ASSUME NEW t \in Socket \ {s} PROVE Phase(t)' = Phase(t) /\ Tally(t)' = Tally(t)
  <2>1. connected'[t] = connected[t] /\ sent'[t] = sent[t]
    OBVIOUS
  <2>2. Asked(t)' <=> Asked(t)
    BY <2>1 DEF Asked, LastOf
  <2>3. Told(t, Len(sent[t]))' = Told(t, Len(sent[t]))
    BY <2>1 DEF Told
  <2> QED BY <2>1, <2>2, <2>3 DEF Phase, Tally
<1>2. Promise!Become(s, p, n)
  BY <1>1 DEF Promise!Become
<1>3. ASSUME Phase(s) = p, Tally(s) = n PROVE UNCHANGED Promise!vars
  BY <1>1, <1>3 DEF Promise!vars
<1> QED BY <1>2, <1>3

\* The steps of a handler between two runs.
LEMMA PromiseBetween ==
  ASSUME LifeInv, Answering, NEW s \in Socket,
         Connect(s) \/ Disconnect(s) \/ Reply(s) \/ Die(s) \/ Accept(s)
  PROVE  [Promise!Next]_(Promise!vars)
<1>0. TypeOK
  BY DEF LifeInv
<1>1. \A t \in Socket \ {s} : connected'[t] = connected[t] /\ sent'[t] = sent[t]
  BY <1>0 DEF TypeOK, Connect, Disconnect, Reply, Die, Accept, Cut
<1>2. CASE Connect(s)
  <2>1. Phase(s) = "gone"
    BY <1>2, PhaseIs DEF Answering, Away, Connect
  <2>2. PICK m : sent'[s] = <<m>> /\ m.what = "accept"
    BY <1>0, <1>2 DEF Connect, Message, TypeOK
  <2>3. ~Unanswered(s, sent'[s]) /\ connected'[s] = TRUE
    BY <1>0, <1>2, <2>2, UnansweredCases DEF Connect, TypeOK, LastOf
  <2>4. Phase(s)' = "idle" /\ Tally(s)' = 0
    BY <2>3, PhaseThen
  <2>5. Promise!Become(s, "idle", 0)
    BY <1>1, <2>4, Becomes
  <2> QED BY <2>1, <2>5 DEF Promise!Connect, Promise!Next
<1>3. CASE Disconnect(s) \/ Die(s)
  <2>1. connected[s] /\ connected'[s] = FALSE
    BY <1>3 DEF Disconnect, Die, Cut
  <2>2. Phase(s) # "gone"
    BY <2>1, PhaseIs
  <2>3. Phase(s)' = "gone" /\ Tally(s)' = 0
    BY <2>1, PhaseThen
  <2>4. Promise!Become(s, "gone", 0)
    BY <1>1, <2>3, Becomes
  <2> QED BY <2>2, <2>4 DEF Promise!Hangup, Promise!Next
<1>4. ASSUME Reply(s) \/ Accept(s)
      PROVE  /\ connected[s] /\ connected'[s] = connected[s]
             /\ Phase(s) = "idle" /\ Tally(s) = 0
  <2>1. handler[s] = "waiting" /\ connected[s] /\ connected' = connected
    BY <1>4 DEF Reply, Accept
  <2>2. ~Unanswered(s, sent[s])
    BY <2>1, AskedIs DEF Answering, Settled
  <2> QED BY <2>1, <2>2, PhaseIs
<1>5. CASE Reply(s)
  <2>1. PICK m : sent'[s] = <<m>> /\ m.what = "reply"
    BY <1>0, <1>5 DEF Reply, Message, TypeOK
  <2>2. ~Unanswered(s, sent'[s])
    BY <2>1, UnansweredCases DEF LastOf
  <2>3. Phase(s)' = "idle" /\ Tally(s)' = 0
    BY <1>4, <1>5, <2>2, PhaseThen
  <2> QED BY <1>1, <1>4, <1>5, <2>3, Becomes
<1>6. CASE Accept(s)
  <2>1. \/ sent'[s] = <<>>
        \/ \E m : sent'[s] = <<m>> /\ m.what = "started"
    BY <1>0, <1>6 DEF Accept, Message, TypeOK
  <2>2. Unanswered(s, sent'[s]) /\ Events(sent'[s], Len(sent'[s])) = 0
    <3>1. CASE sent'[s] = <<>>
      BY <3>1, UnansweredCases, NoEvents
    <3>2. ASSUME NEW m, sent'[s] = <<m>>, m.what = "started"
          PROVE  Unanswered(s, sent'[s]) /\ Events(sent'[s], Len(sent'[s])) = 0
      <4>1. Unanswered(s, <<m>>)
        BY <3>2, UnansweredCases DEF LastOf
      <4>2. Len(<<m>>) = 1 /\ Events(<<m>>, 1) = 0
        BY <3>2, NoEvents
      <4> QED BY <3>2, <4>1, <4>2
    <3> QED BY <2>1, <3>1, <3>2
  <2>3. Phase(s)' = "asked" /\ Tally(s)' = 0
    BY <1>4, <1>6, <2>2, PhaseThen
  <2>4. Promise!Become(s, "asked", 0)
    BY <1>1, <2>3, Becomes
  <2> QED BY <1>4, <1>6, <2>4 DEF Promise!Ask, Promise!Next
<1> QED BY <1>2, <1>3, <1>5, <1>6

\* What the handler forwards is the next event, the last message, or no news.
LEMMA PromiseForward ==
  ASSUME ClientInv, Answering, NEW s \in Socket, Forward(s)
  PROVE  [Promise!Next]_(Promise!vars)
<1>0. TypeOK /\ Ordered
  BY DEF ClientInv, LifeInv
<1>1. /\ connected' = connected
      /\ handler[s] = "sending" /\ queue[s] # <<>>
      /\ \A t \in Socket \ {s} : connected'[t] = connected[t] /\ sent'[t] = sent[t]
  BY <1>0, Forwarded
<1>2. PICK m \in Msg :
        /\ m = Head(queue[s]) /\ Current(s, m)
        /\ ~connected[s] => sent'[s] = sent[s]
        /\ connected[s] /\ m.what # END => sent'[s] = Append(sent[s], m)
        /\ connected[s] /\ m.what = END /\ Kind[s] = "eval" =>
             sent'[s] = Append(sent[s], [m EXCEPT !.what = "done"])
        /\ connected[s] /\ m.what = END /\ Kind[s] # "eval" => sent'[s] = sent[s]
  BY <1>0, Forwarded
<1>3. sent[s] \in Seq(Msg) /\ queue[s] \in Seq(Msg) /\ loop \in Seq(Msg) /\ Received(s) \in Nat
  BY <1>0, OnTheWayType
<1>4. CASE sent'[s] = sent[s]
  <2>1. Phase(s)' = Phase(s) /\ Tally(s)' = Tally(s)
    BY <1>1, <1>4, PhaseIs, PhaseThen DEF Received
  <2> QED BY <1>1, <2>1, Becomes
\* x is what is sent.
<1>5. ASSUME NEW x \in Msg, connected[s], sent'[s] = Append(sent[s], x),
             x.what = "event" => x = m
      PROVE  [Promise!Next]_(Promise!vars)
  <2>1. Unanswered(s, sent'[s]) <=> Unanswered(s, sent[s]) /\ x.what \notin LastOf(s)
    BY <1>3, <1>5, UnansweredCases
  <2>2. Events(sent'[s], Len(sent'[s])) = Received(s) + IF x.what = "event" THEN 1 ELSE 0
    <3>1. Len(Append(sent[s], x)) = Len(sent[s]) + 1
      BY <1>3, AppendProperties
    <3> QED BY <1>3, <1>5, <3>1, EventsAppend DEF Received
  <2>3. CASE ~Unanswered(s, sent[s])
    <3>1. Phase(s) = "idle" /\ Tally(s) = 0 /\ Phase(s)' = "idle" /\ Tally(s)' = 0
      BY <1>1, <1>5, <2>1, <2>3, PhaseIs, PhaseThen
    <3> QED BY <1>1, <3>1, Becomes
  <2>4. CASE Unanswered(s, sent[s]) /\ x.what \in LastOf(s)
    <3>1. Phase(s) = "asked" /\ Phase(s)' = "idle" /\ Tally(s)' = 0
      BY <1>1, <1>5, <2>1, <2>4, PhaseIs, PhaseThen
    <3>2. Promise!Become(s, "idle", 0)
      BY <1>1, <3>1, Becomes
    <3> QED BY <3>1, <3>2 DEF Promise!Answer, Promise!Next
  <2>5. CASE Unanswered(s, sent[s]) /\ x.what \notin LastOf(s)
    <3>1. Phase(s) = "asked" /\ Tally(s) = Received(s) /\ Phase(s)' = "asked"
      BY <1>1, <1>5, <2>1, <2>5, PhaseIs, PhaseThen
    <3>2. Tally(s)' = Received(s) + IF x.what = "event" THEN 1 ELSE 0
      BY <1>1, <1>5, <2>1, <2>2, <2>5, PhaseThen
    <3>3. CASE x.what # "event"
      <4>1. Tally(s)' = Tally(s)
        BY <1>3, <3>1, <3>2, <3>3
      <4> QED BY <1>1, <3>1, <4>1, Becomes
    <3>4. CASE x.what = "event"
      <4>1. m.n = Received(s) + 1
        <5>1. PICK f \in Seq(Msg) : f = OnTheWay(s) /\ f # <<>> /\ Head(f) = m
          BY <1>0, <1>1, <1>2, <1>3, ConcatTail, OnTheWayType DEF OnTheWay
        <5>2. Counts(s, run[s], f, Received(s))
          BY <1>1, <1>5, <5>1 DEF ClientInv, Numbered, GoesOn
        <5>3. In(s, run[s], m)
          BY <1>2, <1>5, <3>4 DEF In, Current
        <5> QED BY <1>3, <5>1, <5>2, <5>3, CountsTail
      <4>2. m.n <= MaxEvents[s]
        <5>1. 1 \in DOMAIN queue[s] /\ m = queue[s][1]
          BY <1>1, <1>2, <1>3, LoopShrinks
        <5>2. Numbers(m)
          BY <5>1 DEF Answering, Bounded
        <5> QED BY <1>2, <1>5, <3>4, <5>2 DEF Numbers, Current
      <4>3. MaxEvents[s] \in Nat
        BY StreamingAssumption
      <4>4. Tally(s) < MaxEvents[s]
        BY <1>3, <3>1, <4>1, <4>2, <4>3
      <4>5. Tally(s)' = Tally(s) + 1
        BY <3>1, <3>2, <3>4
      <4>6. Promise!Become(s, "asked", Tally(s) + 1)
        <5>1. PICK n : n = Tally(s) + 1
          OBVIOUS
        <5> QED BY <1>1, <3>1, <4>5, <5>1, Becomes
      <4> QED BY <3>1, <4>4, <4>6 DEF Promise!Tell, Promise!Next
    <3> QED BY <3>3, <3>4
  <2> QED BY <2>3, <2>4, <2>5
<1>6. CASE connected[s] /\ m.what # END
  BY <1>2, <1>5, <1>6
<1>7. CASE connected[s] /\ m.what = END /\ Kind[s] = "eval"
  <2>1. PICK x : x = [m EXCEPT !.what = "done"]
    OBVIOUS
  <2>2. x \in Msg /\ x.what = "done"
    BY <2>1 DEF Msg, What
  <2> QED BY <1>2, <1>5, <1>7, <2>1, <2>2
<1> QED BY <1>2, <1>4, <1>6, <1>7

LEMMA PromiseInit == Init => Promise!Init
<1> SUFFICES ASSUME Init PROVE Promise!Init
  OBVIOUS
<1>1. \A s \in Socket : ~connected[s]
  BY DEF Init
<1>2. \A s \in Socket : Phase(s) = "gone" /\ Tally(s) = 0
  BY <1>1, PhaseIs
<1> QED BY <1>2 DEF Promise!Init

LEMMA PromiseStep == ClientInv /\ Answering /\ [Next]_vars => [Promise!Next]_(Promise!vars)
<1> SUFFICES ASSUME ClientInv, Answering, [Next]_vars PROVE [Promise!Next]_(Promise!vars)
  OBVIOUS
<1>0. LifeInv /\ TypeOK
  BY DEF ClientInv, LifeInv
<1>1. CASE UNCHANGED <<connected, sent>>
  <2>1. \A s \in Socket : Phase(s)' = Phase(s) /\ Tally(s)' = Tally(s)
    <3>1. ASSUME NEW s \in Socket PROVE Phase(s)' = Phase(s) /\ Tally(s)' = Tally(s)
      <4>1. connected'[s] = connected[s] /\ sent'[s] = sent[s]
        BY <1>1
      <4> QED BY <4>1, PhaseIs, PhaseThen DEF Received
    <3> QED BY <3>1
  <2> QED BY <2>1 DEF Promise!vars
<1>2. CASE Stop
  <2>1. \A s \in Socket : connected'[s] = FALSE
    BY <1>2 DEF Stop, Cut
  <2>2. \A s \in Socket : Phase(s)' = "gone" /\ Tally(s)' = 0
    BY <2>1, PhaseThen
  <2> QED BY <2>2 DEF Promise!Outage, Promise!Next
<1>3. ASSUME NEW s \in Socket, Connect(s) \/ Disconnect(s) \/ Reply(s) \/ Die(s) \/ Accept(s)
      PROVE  [Promise!Next]_(Promise!vars)
  BY <1>0, <1>3, PromiseBetween
<1>4. ASSUME NEW s \in Socket, Forward(s) PROVE [Promise!Next]_(Promise!vars)
  BY <1>4, PromiseForward
<1>5. ASSUME NEW s \in Socket, Leave(s) \/ Join(s) \/ Work(s) PROVE UNCHANGED <<connected, sent>>
  BY <1>5 DEF Leave, Join, Work
<1>6. ASSUME StartWork \/ Deliver \/ Down \/ Up PROVE UNCHANGED <<connected, sent>>
  BY <1>6 DEF StartWork, Deliver, Down, Up
<1>7. UNCHANGED vars => UNCHANGED <<connected, sent>>
  BY DEF vars
<1> QED BY <1>1, <1>2, <1>3, <1>4, <1>5, <1>6, <1>7 DEF Next, Handle

\* The sockets do, step by step, what the event stream promises (ws_stream.py:62-96,
\* ws_eval.py:157-191): each event once, in order and while a request is open, never more
\* than its run has, one last message and nothing after it, whoever leaves or stops when.
\* That every request is answered is checked, not proved.
THEOREM TellsAsPromised == Spec => Promise!Safety
<1>1. Init => ClientInv
  BY InitType, InitLife, InitOrdered, InitNumbered DEF ClientInv, LifeInv
<1> QED BY <1>1, NextClient, InitAnswering, NextAnswering, PromiseInit, PromiseStep, PTL
          DEF Spec, Promise!Safety

=============================================================================
