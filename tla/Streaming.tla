------------------------------ MODULE Streaming ------------------------------
(***************************************************************************)
(* The two sockets of the API (api/ws_stream.py, api/ws_eval.py) and the   *)
(* process around them (api/main.py, api/state.py).  A request is run in a *)
(* worker thread, which posts its events to the event loop; the loop puts  *)
(* them on the queue of the request; the handler takes them off and sends  *)
(* them.  Meanwhile clients leave, and the server is told to stop.         *)
(***************************************************************************)
EXTENDS Integers, Sequences, FiniteSets

CONSTANTS Socket,
          Kind,       \* socket -> "stream" or "eval"
          MaxEvents,  \* socket -> the events of one run before its last
          Workers     \* threads of the executor of asyncio.to_thread

ASSUME StreamingAssumption ==
  /\ Kind \in [Socket -> {"stream", "eval"}]
  /\ MaxEvents \in [Socket -> Nat]
  /\ Workers \in Nat \ {0}
  /\ IsFiniteSet(Socket)

VARIABLES
  app,        \* the server: up, stopping, down
  pipeline,   \* is the pipeline of the process open?
  connected,  \* socket -> is its client there?
  handler,    \* socket -> where the coroutine of its handler is
  run,        \* socket -> which of its runs is the current one
  worker,     \* socket -> the thread of its current run
  count,      \* socket -> the events that run has emitted
  pool,       \* the runs that wait for a thread
  loop,       \* the callbacks posted to the event loop
  queue,      \* socket -> the queue of its current run
  sent        \* socket -> what its client received since its last request

server == <<app, pipeline>>
thread == <<worker, count, pool>>
vars   == <<server, connected, handler, run, thread, loop, queue, sent>>

END == "end of the queue"

\* A message of the n-th event, or the last one, of a run of a socket.
Message(s, what, n) == [of |-> s, run |-> run[s], what |-> what, n |-> n]

-----------------------------------------------------------------------------
(* The handler between two runs.                                           *)

Connect(s) ==
  /\ handler[s] = "gone" /\ app = "up"
  /\ handler' = [handler EXCEPT ![s] = "waiting"]
  /\ connected' = [connected EXCEPT ![s] = TRUE]
  /\ sent' = [sent EXCEPT ![s] = <<Message(s, "accept", 0)>>]
  /\ UNCHANGED <<server, run, thread, loop, queue>>

\* These connections are lost, and with them what their clients knew.
Cut(sockets) ==
  /\ connected' = [s \in Socket |-> connected[s] /\ s \notin sockets]
  /\ sent' = [s \in Socket |-> IF s \in sockets THEN <<>> ELSE sent[s]]

\* The client leaves; the handler learns of it when it next uses the socket.
Disconnect(s) ==
  /\ connected[s]
  /\ Cut({s})
  /\ UNCHANGED <<server, handler, run, thread, loop, queue>>

\* Slip: the end of the connection is taken for a bad message.
LeaveLater(s) == handler[s] = "waiting" /\ ~connected[s] /\ UNCHANGED vars

Leave(s) ==
  /\ handler[s] = "waiting" /\ ~connected[s]
  /\ handler' = [handler EXCEPT ![s] = "gone"]
  /\ UNCHANGED <<server, connected, run, thread, loop, queue, sent>>

\* A request that is invalid, names an unknown ablation, or asks for an estimate.
Reply(s) ==
  /\ handler[s] = "waiting" /\ connected[s]
  /\ sent' = [sent EXCEPT ![s] = <<Message(s, "reply", 0)>>]
  /\ UNCHANGED <<server, connected, handler, run, thread, loop, queue>>

\* A message that is no JSON, or ablations that compose refuses: an exception that
\* nobody catches ends the handler.
Die(s) ==
  /\ handler[s] = "waiting" /\ connected[s]
  /\ handler' = [handler EXCEPT ![s] = "gone"]
  /\ Cut({s})
  /\ UNCHANGED <<server, run, thread, loop, queue>>

\* A queue of its own and a worker for the run; /eval/stream announces it first.
Accept(s) ==
  /\ handler[s] = "waiting" /\ connected[s]
  /\ handler' = [handler EXCEPT ![s] = "sending"]
  /\ run' = [run EXCEPT ![s] = 1 - @]
  /\ queue' = [queue EXCEPT ![s] = <<>>]
  /\ sent' = [sent EXCEPT ![s] =
       IF Kind[s] = "eval" THEN <<[Message(s, "started", 0) EXCEPT !.run = run'[s]]>> ELSE <<>>]
  /\ worker' = [worker EXCEPT ![s] = "waiting"]
  /\ pool' = Append(pool, s)
  /\ UNCHANGED <<server, connected, count, loop>>

-----------------------------------------------------------------------------
(* work(), in a thread of the executor.                                    *)

Busy == {s \in Socket : worker[s] \in {"running", "ending"}}

StartWork ==
  /\ pool # <<>>
  /\ Cardinality(Busy) < Workers
  /\ worker' = [worker EXCEPT ![Head(pool)] = "running"]
  /\ pool' = Tail(pool)
  /\ UNCHANGED <<server, connected, handler, run, count, loop, queue, sent>>

\* Slip: the number of an event runs over its bound.
EmitForever(s) ==
  /\ worker[s] = "running" /\ count[s] <= MaxEvents[s]
  /\ loop' = Append(loop, Message(s, "event", count[s] + 1))
  /\ count' = [count EXCEPT ![s] = @ + 1]
  /\ UNCHANGED <<worker, pool>>

\* call_soon_threadsafe.
Post(s, what, n) == loop' = Append(loop, Message(s, what, n))

Emit(s) ==
  /\ worker[s] = "running" /\ count[s] < MaxEvents[s]
  /\ Post(s, "event", count[s] + 1)
  /\ count' = [count EXCEPT ![s] = @ + 1]
  /\ UNCHANGED <<worker, pool>>

Last(s, what) ==
  /\ worker[s] = "running"
  /\ Post(s, what, 0)
  /\ worker' = [worker EXCEPT ![s] = "ending"]
  /\ UNCHANGED <<count, pool>>

\* Slip: the exception of a run is swallowed on the way.
RaiseSilently(s) ==
  /\ worker[s] = "running"
  /\ worker' = [worker EXCEPT ![s] = "ending"]
  /\ UNCHANGED <<loop, count, pool>>

\* The run raises: the pipeline has emitted an error, or work() posts one.
Raise(s) == Last(s, "error")

Conclude(s) ==
  /\ count[s] = MaxEvents[s]
  /\ Last(s, IF Kind[s] = "stream" THEN "done" ELSE "summary")

\* Slip: the thread ends without a word.
EndUnheard(s) ==
  /\ worker[s] = "ending"
  /\ worker' = [worker EXCEPT ![s] = "finished"]
  /\ count' = [count EXCEPT ![s] = 0]
  /\ UNCHANGED <<loop, pool>>

\* The finally block: the end of the queue, whatever happened.
End(s) ==
  /\ worker[s] = "ending"
  /\ Post(s, END, 0)
  /\ worker' = [worker EXCEPT ![s] = "finished"]
  /\ count' = [count EXCEPT ![s] = 0]
  /\ UNCHANGED pool

Work(s) ==
  /\ Emit(s) \/ Raise(s) \/ Conclude(s) \/ End(s)
  /\ UNCHANGED <<server, connected, handler, run, queue, sent>>

-----------------------------------------------------------------------------
(* The event loop, and the handler during a run.                           *)

\* Slip: one queue for all the runs of a socket.
OnTheQueueOf(m) == TRUE

\* emit closes over the queue of its own run.
ForTheQueueOf(m) == m.run = run[m.of]

Deliver ==
  /\ loop # <<>>
  /\ loop' = Tail(loop)
  /\ queue' = IF ForTheQueueOf(Head(loop))
              THEN [queue EXCEPT ![Head(loop).of] = Append(@, Head(loop))]
              ELSE queue
  /\ UNCHANGED <<server, connected, handler, run, thread, sent>>

\* What is sent reaches a client that is there; else it is lost, or the send raises
\* and the handler gives the run up.
Send(s, m, next) ==
  \/ /\ connected[s]
     /\ sent' = [sent EXCEPT ![s] = Append(@, m)]
     /\ handler' = [handler EXCEPT ![s] = next]
  \/ /\ ~connected[s]
     /\ UNCHANGED sent
     /\ \E where \in {next, "abandoning"} : handler' = [handler EXCEPT ![s] = where]

Forward(s) ==
  /\ handler[s] = "sending" /\ queue[s] # <<>>
  /\ queue' = [queue EXCEPT ![s] = Tail(@)]
  /\ LET m == Head(queue[s]) IN
       IF m.what # END THEN Send(s, m, "sending")
       ELSE IF Kind[s] = "eval" THEN Send(s, [m EXCEPT !.what = "done"], "joining")
       ELSE handler' = [handler EXCEPT ![s] = "joining"] /\ UNCHANGED sent
  /\ UNCHANGED <<server, connected, run, thread, loop>>

\* Slip: a handler whose socket broke does not wait for its worker.
JoinUnlessBroken(s) ==
  /\ handler[s] \in {"joining", "abandoning"}
  /\ handler[s] = "abandoning" \/ worker[s] = "finished"
  /\ handler' = [handler EXCEPT ![s] = IF @ = "joining" THEN "waiting" ELSE "gone"]
  /\ UNCHANGED <<server, connected, run, thread, loop, queue, sent>>

\* finally: await task.  Then the next request, or the end of the handler.
Join(s) ==
  /\ handler[s] \in {"joining", "abandoning"}
  /\ worker[s] = "finished"
  /\ handler' = [handler EXCEPT ![s] = IF @ = "joining" THEN "waiting" ELSE "gone"]
  /\ UNCHANGED <<server, connected, run, thread, loop, queue, sent>>

-----------------------------------------------------------------------------
(* The server.                                                             *)

\* It is told to stop: uvicorn closes the sockets, ...
Stop ==
  /\ app = "up"
  /\ app' = "stopping"
  /\ Cut(Socket)
  /\ UNCHANGED <<pipeline, handler, run, thread, loop, queue>>

\* ... waits for the handlers, and ends the lifespan, which closes the pipeline.
Down ==
  /\ app = "stopping"
  /\ \A s \in Socket : handler[s] = "gone"
  /\ app' = "down" /\ pipeline' = FALSE
  /\ UNCHANGED <<connected, handler, run, thread, loop, queue, sent>>

\* The lifespan of the next server builds a pipeline.
Up ==
  /\ app = "down"
  /\ app' = "up" /\ pipeline' = TRUE
  /\ UNCHANGED <<connected, handler, run, thread, loop, queue, sent>>

-----------------------------------------------------------------------------
Init ==
  /\ app = "up" /\ pipeline = TRUE
  /\ connected = [s \in Socket |-> FALSE]
  /\ handler = [s \in Socket |-> "gone"]
  /\ run = [s \in Socket |-> 0]
  /\ worker = [s \in Socket |-> "finished"]
  /\ count = [s \in Socket |-> 0]
  /\ pool = <<>> /\ loop = <<>>
  /\ queue = [s \in Socket |-> <<>>]
  /\ sent = [s \in Socket |-> <<>>]

Handle(s) == Leave(s) \/ Forward(s) \/ Join(s)

Next == \/ \E s \in Socket : \/ Connect(s) \/ Disconnect(s) \/ Reply(s)
                             \/ Die(s) \/ Accept(s) \/ Work(s) \/ Handle(s)
        \/ StartWork \/ Deliver \/ Stop \/ Down \/ Up

\* The loop runs what is posted to it, the executor starts what waits for it, a
\* thread that runs goes on (every call of a run returns or times out), and a
\* coroutine that can go on does; uvicorn goes down once its handlers have
\* returned.  Nobody has to connect, ask, or stop the server.
Fairness == /\ WF_vars(Deliver) /\ WF_vars(StartWork) /\ WF_vars(Down)
            /\ \A s \in Socket : WF_vars(Work(s)) /\ WF_vars(Handle(s))

Spec == Init /\ [][Next]_vars /\ Fairness

-----------------------------------------------------------------------------
(* Properties.                                                             *)

What == {"accept", "reply", "started", "event", "summary", "error", "done", END}
Msg  == [of : Socket, run : {0, 1}, what : What, n : Nat]

\* The types of the variables.
TypeOK ==
  /\ app \in {"up", "stopping", "down"} /\ pipeline \in BOOLEAN
  /\ connected \in [Socket -> BOOLEAN]
  /\ handler \in [Socket -> {"waiting", "sending", "joining", "abandoning", "gone"}]
  /\ run \in [Socket -> {0, 1}]
  /\ worker \in [Socket -> {"waiting", "running", "ending", "finished"}]
  /\ count \in [Socket -> Nat] /\ \A s \in Socket : count[s] <= MaxEvents[s]
  /\ pool \in Seq(Socket)
  /\ loop \in Seq(Msg)
  /\ queue \in [Socket -> Seq(Msg)] /\ sent \in [Socket -> Seq(Msg)]

\* The events among the first i messages that the client of s has.
Told(s, i) == Cardinality({j \in 1 .. i : sent[s][j].what = "event"})

\* What a client receives after a request belongs to the run of that request, each
\* event once and in the order of the run (ws_stream.py:62-70), though events of a
\* run whose client left may still be on their way to the loop.
ClientSeesItsRun ==
  \A s \in Socket :
    handler[s] \in {"sending", "joining"} =>
      \A i \in DOMAIN sent[s] :
        /\ sent[s][i].of = s /\ sent[s][i].run = run[s]
        /\ sent[s][i].what = "event" => sent[s][i].n = Told(s, i)

\* close_state closes the pipeline only when no run uses it any more (state.py:36-65),
\* because a handler whose client left still awaits its worker (ws_stream.py:94-96).
PipelineOutlivesRuns ==
  \A s \in Socket : worker[s] # "finished" => pipeline

\* A handler always comes back from a run, whether the run ends or raises and whether
\* the client stays or leaves (ws_stream.py:84-96).
SocketComesBack ==
  \A s \in Socket :
    handler[s] \in {"sending", "joining", "abandoning"} ~> handler[s] \in {"waiting", "gone"}

\* A server that is told to stop goes down: the runs it waits for come to their end.
StopsWhenTold == app = "stopping" ~> app = "down"

\* What the client is promised.  It has asked until it has a last message: "done", or
\* the error of a query.
LastOf(s) == {"accept", "reply", "done"} \cup IF Kind[s] = "stream" THEN {"error"} ELSE {}

Asked(s) == connected[s] /\ \A i \in DOMAIN sent[s] : sent[s][i].what \notin LastOf(s)

Phase(s) == IF ~connected[s] THEN "gone" ELSE IF Asked(s) THEN "asked" ELSE "idle"
Tally(s) == IF Asked(s) THEN Told(s, Len(sent[s])) ELSE 0

Promise == INSTANCE EventStream WITH phase <- [s \in Socket |-> Phase(s)],
                                     told  <- [s \in Socket |-> Tally(s)]

\* The sockets implement the event stream: events while a request is open, one last
\* message, nothing after it, and every request answered unless its client is gone
\* (ws_stream.py:78-85, ws_eval.py:157-191).
KeepsPromise == Promise!Spec
=============================================================================
