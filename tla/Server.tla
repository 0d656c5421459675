------------------------------- MODULE Server -------------------------------
(***************************************************************************)
(* The life of the server process, from the end of its start to its exit:  *)
(* internal/server (Start, Stop and the chain of handlers) with the rate   *)
(* limiter of module RateLimiter in it, and the end of start.go, which     *)
(* waits for a signal or a failing listener and then stops the modules,    *)
(* the database and the server, in this order.                             *)
(*                                                                         *)
(* A request is known by its RemoteAddr, host and port of its connection,  *)
(* which carries one request at a time; that is also the key of the        *)
(* limiter.  Its arrival is one step with the middlewares before its       *)
(* handler, of which only the limiter has state that matters; the answer   *)
(* of withCORS to OPTIONS comes before the limiter and changes nothing.    *)
(* Handlers are told apart by the statements that they run one after the   *)
(* other: none (healthz, or a request that a middleware answers), one or   *)
(* two.  A statement that runs when the database is closed completes, a    *)
(* new one fails.  What the statements do is in the models of the modules. *)
(*                                                                         *)
(* The tick of the simulator posts a reading to this server and holds the  *)
(* mutex that Stop of the simulator needs until it has the answer          *)
(* (handleStart holds it over its posts in the same way); the server is    *)
(* taken to listen on 8080, the port that those requests go to.            *)
(***************************************************************************)
EXTENDS RateLimiter

CONSTANT None       \* nobody holds the simulator's mutex

ASSUME ServerAssumption == None \notin Addrs

VARIABLES
  main,       \* where the main goroutine is
  listener,   \* the goroutine of srv.Start; "new" while s.srv is nil
  timer,      \* the 10 seconds of shutdownCtx
  database,   \* open or closed
  step,       \* where the request of an address is
  kind,       \* the statements its handler has yet to run
  sim,        \* the address of the request that the simulator waits for
  \* history
  early       \* requests under way that came before the shutdown

serverVars == <<main, listener, timer, database, step, kind, sim, early>>
allVars == <<vars, serverVars>>

Kinds == {"none", "one", "two"}

ServerTypeOK ==
  /\ main \in {"select", "modules", "database", "server", "draining",
               "returning", "exited"}
  /\ listener \in {"new", "listening", "failed", "closed"}
  /\ timer \in {"off", "running", "expired"}
  /\ database \in {"open", "closed"}
  /\ step \in [Addrs -> {"idle", "handling", "statement"}]
  /\ kind \in [Addrs -> Kinds]
  /\ sim \in Addrs \cup {None}
  /\ early \subseteq Addrs

Busy == {a \in Addrs : step[a] # "idle"}

ServerInit ==
  /\ Init
  /\ main = "select"
  /\ listener = "new"
  /\ timer = "off"
  /\ database = "open"
  /\ step = [a \in Addrs |-> "idle"]
  /\ kind = [a \in Addrs |-> "none"]
  /\ sim = None
  /\ early = {}
-----------------------------------------------------------------------------
(***************************************************************************)
(* srv.Start, in a goroutine of its own.  When it returns the error is     *)
(* logged and the context of main's select is cancelled.                   *)
(***************************************************************************)
Listen ==
  /\ main # "exited"
  /\ listener = "new"
  /\ listener' = "listening"
  /\ UNCHANGED <<vars, main, timer, database, step, kind, sim, early>>

\* The port is in use, or Accept fails for good.
ListenFails ==
  /\ main # "exited"
  /\ listener \in {"new", "listening"}
  /\ listener' = "failed"
  /\ UNCHANGED <<vars, main, timer, database, step, kind, sim, early>>
-----------------------------------------------------------------------------
(***************************************************************************)
(* Requests                                                                *)
(***************************************************************************)
Admit(a, k) ==
  /\ main # "exited"
  /\ listener = "listening"
  /\ step[a] = "idle"
  /\ Grant(a)
  /\ step' = [step EXCEPT ![a] = "handling"]
  /\ kind' = [kind EXCEPT ![a] = k]
  /\ early' = IF main = "select" THEN early \cup {a} ELSE early
  /\ UNCHANGED <<main, listener, timer, database>>

ClientSends(a, k) == Admit(a, k) /\ UNCHANGED sim

\* A tick of the simulator posts a reading, with the mutex held.
SimulatorPosts(a) ==
  /\ sim = None
  /\ Admit(a, "two")
  /\ sim' = a

\* 429, to a client or to the simulator, which does not look at it
Deny(a) ==
  /\ main # "exited"
  /\ listener = "listening"
  /\ step[a] = "idle"
  /\ Refuse(a)
  /\ UNCHANGED serverVars

\* The request is over: its answer is on its way.
Answer(a) ==
  /\ step' = [step EXCEPT ![a] = "idle"]
  /\ kind' = [kind EXCEPT ![a] = "none"]
  /\ early' = early \ {a}
  /\ sim' = IF sim = a THEN None ELSE sim
  /\ UNCHANGED <<vars, main, listener, timer, database>>

handleHealthz(a) ==
  /\ step[a] = "handling"
  /\ kind[a] = "none"
  /\ Answer(a)

Execute(a) ==
  /\ step[a] = "handling"
  /\ kind[a] \in {"one", "two"}
  /\ database = "open"
  /\ step' = [step EXCEPT ![a] = "statement"]
  /\ UNCHANGED <<vars, main, listener, timer, database, kind, sim, early>>

\* sql: database is closed; the handler answers 500, or goes on without it.
ExecuteFails(a) ==
  /\ step[a] = "handling"
  /\ kind[a] \in {"one", "two"}
  /\ database = "closed"
  /\ Answer(a)

NextStatement(a) ==
  /\ step[a] = "statement"
  /\ kind[a] = "two"
  /\ step' = [step EXCEPT ![a] = "handling"]
  /\ kind' = [kind EXCEPT ![a] = "one"]
  /\ UNCHANGED <<vars, main, listener, timer, database, sim, early>>

Finish(a) ==
  /\ step[a] = "statement"
  /\ kind[a] = "one"
  /\ Answer(a)

Handle(a) ==
  /\ main # "exited"
  /\ \/ handleHealthz(a) \/ Execute(a) \/ ExecuteFails(a)
     \/ NextStatement(a) \/ Finish(a)
-----------------------------------------------------------------------------
(***************************************************************************)
(* The main goroutine                                                      *)
(***************************************************************************)
\* SIGINT or SIGTERM, at any time
Signal ==
  /\ main = "select"
  /\ main' = "modules"
  /\ timer' = "running"
  /\ UNCHANGED <<vars, listener, database, step, kind, sim, early>>

\* The case of ctx.Done()
Cancelled ==
  /\ main = "select"
  /\ listener = "failed"
  /\ main' = "modules"
  /\ timer' = "running"
  /\ UNCHANGED <<vars, listener, database, step, kind, sim, early>>

\* The one Stop that may wait is the simulator's, for its mutex.
StopAll ==
  /\ main = "modules"
  /\ sim = None
  /\ main' = "database"
  /\ UNCHANGED <<vars, listener, timer, database, step, kind, sim, early>>

CloseDatabase ==
  /\ main = "database"
  /\ database' = "closed"
  /\ main' = "server"
  /\ UNCHANGED <<vars, listener, timer, step, kind, sim, early>>

\* Stop before Start has set s.srv returns at once.
StopNothing ==
  /\ main = "server"
  /\ listener = "new"
  /\ main' = "returning"
  /\ UNCHANGED <<vars, listener, timer, database, step, kind, sim, early>>

\* Mutant: Stop is given ctx, which is done when the listener has failed.
MutShutdown ==
  /\ main = "server"
  /\ listener # "new"
  /\ main' = IF listener = "failed" THEN "returning" ELSE "draining"
  /\ listener' = "closed"
  /\ UNCHANGED <<vars, timer, database, step, kind, sim, early>>

\* Shutdown closes the listener and waits for the requests under way.
Shutdown ==
  /\ main = "server"
  /\ listener # "new"
  /\ main' = "draining"
  /\ listener' = "closed"
  /\ UNCHANGED <<vars, timer, database, step, kind, sim, early>>

Drained ==
  /\ main = "draining"
  /\ Busy = {}
  /\ main' = "returning"
  /\ UNCHANGED <<vars, listener, timer, database, step, kind, sim, early>>

\* Mutant: the context that Stop passes on to Shutdown has no deadline.
MutTimedOut == FALSE /\ UNCHANGED allVars

TimedOut ==
  /\ main = "draining"
  /\ timer = "expired"
  /\ main' = "returning"
  /\ UNCHANGED <<vars, listener, timer, database, step, kind, sim, early>>

Exit ==
  /\ main = "returning"
  /\ main' = "exited"
  /\ UNCHANGED <<vars, listener, timer, database, step, kind, sim, early>>

Expire ==
  /\ timer = "running"
  /\ main # "exited"
  /\ timer' = "expired"
  /\ UNCHANGED <<vars, main, listener, database, step, kind, sim, early>>

\* Time passes for the limiter.
PassTime ==
  /\ main # "exited"
  /\ Pass
  /\ UNCHANGED serverVars

ServerNext ==
  \/ Listen \/ ListenFails
  \/ \E a \in Addrs :
       \/ \E k \in Kinds : ClientSends(a, k)
       \/ SimulatorPosts(a)
       \/ Deny(a)
       \/ Handle(a)
  \/ Signal \/ Cancelled \/ StopAll \/ CloseDatabase
  \/ StopNothing \/ Shutdown \/ Drained \/ TimedOut \/ Exit
  \/ Expire \/ PassTime

(***************************************************************************)
(* The main goroutine and the timer go on; the simulator's requests are    *)
(* answered, since their bodies are there at once and statements return;   *)
(* a sync.Mutex does not starve the Lock of Stop.  A client may take       *)
(* longer than the 10 seconds over its body or its answer (ReadTimeout     *)
(* and WriteTimeout are 15 and 30), so that nothing is said of the others. *)
(***************************************************************************)
ServerFairness ==
  /\ WF_allVars(Cancelled)
  /\ SF_allVars(StopAll)
  /\ WF_allVars(CloseDatabase \/ StopNothing \/ Shutdown \/ Drained
                  \/ TimedOut \/ Exit)
  /\ WF_allVars(Expire)
  /\ \A a \in Addrs : WF_allVars(sim = a /\ Handle(a))

ServerSpec == ServerInit /\ [][ServerNext]_allVars /\ ServerFairness
-----------------------------------------------------------------------------
(***************************************************************************)
(* Properties                                                              *)
(***************************************************************************)
\* A request that was received before the shutdown began is not cut off by
\* the exit of the process, unless the 10 seconds are over; not either when
\* Stop finds that Start has not come to s.srv yet.
EarlyAreServed ==
  [][main # "exited" /\ main' = "exited"
       => early = {} \/ timer = "expired"]_allVars

\* A signal or the failure of the listener ends the process, though StopAll
\* waits for a mutex that is held over a request to this very server, and
\* though a client may never let its request end.
ShutdownEnds ==
  /\ (main # "select") ~> (main = "exited")
  /\ (listener = "failed") ~> (main = "exited")
-----------------------------------------------------------------------------
(***************************************************************************)
(* The inductive invariant: nothing is admitted before s.srv is set, and   *)
(* main returns from Stop with early requests only after the timeout.      *)
(***************************************************************************)
EarlyAreBusy == early \subseteq Busy

NothingBeforeListening == listener = "new" => early = {}

ReturnsServed == main = "returning" => early = {} \/ timer = "expired"

ServerIInv ==
  ServerTypeOK /\ EarlyAreBusy /\ NothingBeforeListening /\ ReturnsServed
=============================================================================
