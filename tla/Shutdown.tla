------------------------------- MODULE Shutdown -------------------------------
(***************************************************************************)
(* The life of the server process as main.run arranges it: start up step   *)
(* by step, serve until a signal, stop the HTTP server, close the worker   *)
(* pool, return.  A signal only cancels a context: it is noticed by the    *)
(* start-up calls that use it and by the select of a serving process.  One *)
(* 30-second context covers both waits.  Whatever run returns, its deferred*)
(* calls come first: EventHub.Close, then pgxpool's Close, which waits     *)
(* without a timeout until every connection has been given back.  Then the *)
(* process and every goroutine in it are gone.                             *)
(***************************************************************************)
EXTENDS Naturals, Sequences

CONSTANTS
  Workers,    \* worker goroutines
  Requests,   \* ordinary HTTP requests, which end by themselves
  Streams,    \* SSE requests past their one read: they use no connection, and
              \* end when the client leaves or the hub closes
  StartFails, \* may a start-up call return an error by itself?
  ListenFails \* may ListenAndServe return an error while serving?

ASSUME FailuresAssumption == StartFails \in BOOLEAN /\ ListenFails \in BOOLEAN

VARIABLES
  pc,         \* main: a start-up step, serving, shutdown, closing, draining,
              \* returned
  signalled,  \* has SIGINT or SIGTERM cancelled the process context?
  result,     \* what run returned: none, ok or error
  listening,  \* does the server accept requests?
  requests,   \* requests being served
  streams,    \* SSE streams being served
  rootDone,   \* is the worker pool's root context cancelled?
  worker,     \* each worker: idle, running, cleanup, stopped
  sandbox,    \* workers that have something of their runs in Docker
  unremoved,  \* those of them that no later Destroy will remove it for
  conns,      \* who holds a connection of the database pool
  expired     \* has the 30-second context run out?

\* What the runs of the workers have in Docker.
docker == <<sandbox, unremoved>>

vars == <<pc, signalled, result, listening, requests, streams, rootDone, worker,
          docker, conns, expired>>

\* Who uses the database while the process serves: main itself has given its
\* connections back when it gets there.
Holders == Workers \cup Requests \cup {"scheduler"}

\* The calls of run that may return an error before the server listens.
StartUpSteps ==
  <<"config", "connect", "migrate", "bootstrap", "secret", "storage", "health">>

\* Those that are made with the context that a signal cancels.
UsesContext == {"connect", "migrate", "bootstrap", "storage", "health"}

Init ==
  /\ pc = StartUpSteps[1] /\ signalled = FALSE
  /\ result = "none" /\ listening = FALSE
  /\ requests = {} /\ streams = {}
  /\ rootDone = FALSE /\ expired = FALSE
  /\ worker = [w \in Workers |-> "idle"]
  /\ sandbox = {} /\ unremoved = {} /\ conns = {}

Alive == pc # "returned"

Started == pc \in {"serving", "shutdown", "closing"}

\* run returns r: its deferred calls close the hub and begin to close the
\* database pool, which hands out no connection from then on.  The other
\* goroutines go on.
Return(r) ==
  /\ pc' = "draining" /\ result' = r /\ listening' = FALSE
  /\ UNCHANGED <<requests, streams>>

\* The i-th start-up call returns nil; after the last one the scheduler, the
\* workers and the listener are started.
StartOK(i) ==
  /\ pc = StartUpSteps[i]
  /\ IF i < Len(StartUpSteps)
       THEN pc' = StartUpSteps[i + 1] /\ UNCHANGED listening
       ELSE pc' = "serving" /\ listening' = TRUE
  /\ UNCHANGED <<signalled, result, requests, streams, rootDone, worker, docker, conns, expired>>

\* It returns an error: nothing has been started that would have to be stopped.
StartError ==
  /\ Return("error")
  /\ UNCHANGED <<signalled, rootDone, worker, docker, conns, expired>>

\* A call given a context that is done may still return nil.
MayFail == StartFails \/ (signalled /\ pc \in UsesContext)

StartUp ==
  \E i \in DOMAIN StartUpSteps :
    \/ StartOK(i)
    \/ pc = StartUpSteps[i] /\ MayFail /\ StartError

\* SIGINT or SIGTERM, once signal.NotifyContext catches them: before that they
\* end a process that has done nothing yet.
Signal ==
  /\ Alive /\ pc # "config" /\ ~signalled
  /\ signalled' = TRUE
  /\ UNCHANGED <<pc, result, listening, requests, streams, rootDone, worker, docker, conns, expired>>

\* The select sees the context done; server.Shutdown closes the listener.
BeginShutdown ==
  /\ pc = "serving" /\ signalled
  /\ pc' = "shutdown" /\ listening' = FALSE
  /\ UNCHANGED <<signalled, result, requests, streams, rootDone, worker, docker, conns, expired>>

\* An error of ListenAndServe returns without closing the pool.
ServerError ==
  /\ ListenFails /\ pc = "serving"
  /\ Return("error")
  /\ UNCHANGED <<signalled, rootDone, worker, docker, conns, expired>>

\* server.Shutdown returns when no request is left, and WorkerPool.Close
\* begins by cancelling the root context; when the context runs out first,
\* run returns its error.
ServerShutdown ==
  /\ pc = "shutdown"
  /\ \/ /\ requests = {} /\ streams = {}
        /\ pc' = "closing" /\ rootDone' = TRUE
        /\ UNCHANGED <<result, listening, requests, streams>>
     \/ /\ expired /\ requests \cup streams # {}
        /\ Return("error")
        /\ UNCHANGED rootDone
  /\ UNCHANGED <<signalled, worker, docker, conns, expired>>

\* Mutant: Close returns nil as soon as it has cancelled the root context.
WorkersClose_NoWait ==
  /\ pc = "closing"
  /\ Return("ok")
  /\ UNCHANGED <<signalled, rootDone, worker, docker, conns, expired>>

\* WorkerPool.Close waits for the workers, or for the context.
WorkersClose ==
  /\ pc = "closing"
  /\ \/ (\A w \in Workers : worker[w] = "stopped") /\ Return("ok")
     \/ expired /\ Return("error")
  /\ UNCHANGED <<signalled, rootDone, worker, docker, conns, expired>>

\* pgxpool's Close returns once no connection is out, and the process ends
\* with what is still being served or run.
PoolClose ==
  /\ pc = "draining" /\ conns = {}
  /\ pc' = "returned" /\ requests' = {} /\ streams' = {}
  /\ UNCHANGED <<signalled, result, listening, rootDone, worker, docker, conns, expired>>

\* Mutant: the shutdown context has no timeout.
Expire_Never ==
  /\ FALSE /\ pc \in {"shutdown", "closing"} /\ expired' = TRUE
  /\ UNCHANGED <<pc, signalled, result, listening, requests, streams, rootDone, worker, docker, conns>>

Expire ==
  /\ pc \in {"shutdown", "closing"} /\ ~expired
  /\ expired' = TRUE
  /\ UNCHANGED <<pc, signalled, result, listening, requests, streams, rootDone, worker, docker, conns>>

-----------------------------------------------------------------------------
\* A request, or a stream, arrives.
Arrive ==
  /\ listening
  /\ \/ \E r \in Requests \ requests : requests' = requests \cup {r} /\ UNCHANGED streams
     \/ \E s \in Streams \ streams : streams' = streams \cup {s} /\ UNCHANGED requests
  /\ UNCHANGED <<pc, signalled, result, listening, rootDone, worker, docker, conns, expired>>

Answer(r) ==
  /\ r \in requests \ conns
  /\ requests' = requests \ {r}
  /\ UNCHANGED <<pc, signalled, result, listening, streams, rootDone, worker, docker, conns, expired>>

\* A client closes its stream, or the hub has closed its channel.
Leave(s) ==
  /\ s \in streams
  /\ streams' = streams \ {s}
  /\ UNCHANGED <<pc, signalled, result, listening, requests, rootDone, worker, docker, conns, expired>>

\* A statement takes a connection from the pool while the pool is open.
Acquire(h) ==
  /\ Started /\ h \in Holders \ conns
  /\ h \in Workers => worker[h] \in {"running", "cleanup"}
  /\ h \in Requests => h \in requests
  /\ conns' = conns \cup {h}
  /\ UNCHANGED <<pc, signalled, result, listening, requests, streams, rootDone, worker, docker, expired>>

\* It returns.
Release(h) ==
  /\ Alive /\ h \in conns
  /\ conns' = conns \ {h}
  /\ UNCHANGED <<pc, signalled, result, listening, requests, streams, rootDone, worker, docker, expired>>

\* A worker takes a job from the channel.  Its select may choose the job
\* although the root context is done.
StartRun(w) ==
  /\ Started /\ worker[w] = "idle"
  /\ worker' = [worker EXCEPT ![w] = "running"]
  /\ UNCHANGED <<pc, signalled, result, listening, requests, streams, rootDone, docker, conns, expired>>

\* The run makes its sandbox, unless the root context is done, or a context
\* that is done kills network create when it has taken effect.
MakeSandbox(w) ==
  /\ Alive /\ worker[w] = "running" /\ w \notin conns
  /\ sandbox' = sandbox \cup {w}
  /\ \/ ~rootDone /\ UNCHANGED unremoved
     \/ unremoved' = unremoved \cup {w}
  /\ UNCHANGED <<pc, signalled, result, listening, requests, streams, rootDone, worker, conns, expired>>

\* The run ends or is cancelled, and goes on to its deferred Destroy.
EndRun(w) ==
  /\ Alive /\ worker[w] = "running" /\ w \notin conns
  /\ worker' = [worker EXCEPT ![w] = "cleanup"]
  /\ UNCHANGED <<pc, signalled, result, listening, requests, streams, rootDone, docker, conns, expired>>

\* The error of the deferred Destroy is ignored.
Destroy(w) ==
  /\ Alive /\ worker[w] = "cleanup" /\ w \notin conns
  /\ worker' = [worker EXCEPT ![w] = "idle"]
  /\ \/ /\ sandbox' = IF w \in unremoved THEN sandbox ELSE sandbox \ {w}
        /\ UNCHANGED unremoved
     \/ unremoved' = unremoved \cup (sandbox \cap {w}) /\ UNCHANGED sandbox
  /\ UNCHANGED <<pc, signalled, result, listening, requests, streams, rootDone, conns, expired>>

Stop(w) ==
  /\ Alive /\ worker[w] = "idle" /\ rootDone
  /\ worker' = [worker EXCEPT ![w] = "stopped"]
  /\ UNCHANGED <<pc, signalled, result, listening, requests, streams, rootDone, docker, conns, expired>>

main == StartUp \/ BeginShutdown \/ ServerShutdown \/ WorkersClose \/ PoolClose

Next ==
  \/ Signal \/ ServerError \/ main \/ Expire \/ Arrive
  \/ \E r \in Requests : Answer(r)
  \/ \E s \in Streams : Leave(s)
  \/ \E h \in Holders : Acquire(h) \/ Release(h)
  \/ \E w \in Workers : StartRun(w) \/ MakeSandbox(w) \/ EndRun(w) \/ Destroy(w) \/ Stop(w)

Spec == Init /\ [][Next]_vars

\* main goes on when it can (its calls are bounded by timeouts or by the
\* context that the signal cancels) and its timer fires.
Fairness == WF_vars(main) /\ WF_vars(Expire)

FairSpec == Spec /\ Fairness

-----------------------------------------------------------------------------
\* A run of main that returns nil has stopped every worker, serves nothing and
\* leaves nothing in Docker but what a Destroy failed to remove (its error is
\* ignored when a worker cleans up) or a killed network create left.
CleanReturn ==
  result = "ok" =>
    /\ \A w \in Workers : worker[w] = "stopped"
    /\ sandbox \subseteq unremoved /\ requests = {} /\ streams = {}

\* A process that was asked to stop returns, whichever start-up step it is in
\* when the signal comes and whoever keeps a stream open or a run busy, if every
\* statement returns some time: closing the database pool waits for them, with
\* no timeout.  Nothing else is assumed of requests, runs and clients.
ShutdownReturns ==
  (\A h \in Holders : []<>(h \notin conns)) => (signalled ~> (pc = "returned"))

\* docs/deployment.md: shutdown stops workers, cancels contexts, closes SSE and
\* performs sandbox cleanup.  So a process that has returned has told its
\* workers to stop, or there was nothing for them to clean up.
ShutdownStopsWorkers == pc = "returned" => rootDone \/ sandbox \subseteq unremoved
=============================================================================
