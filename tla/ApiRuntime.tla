----------------------------- MODULE ApiRuntime -----------------------------
(***************************************************************************)
(* run() of cmd/api: what is opened, started, waited for and closed, in    *)
(* which order, and the goroutine that shuts the HTTP server down.         *)
(*                                                                         *)
(* The worker pool and the reclaimer are two goroutines that end some time *)
(* after ctx is cancelled, which is what StreamDelivery shows of them.     *)
(* Settings are valid or not; responses are not looked into.               *)
(***************************************************************************)
EXTENDS Sequences

CONSTANT Clients   \* concurrent HTTP requests

Background == {"workers", "reclaimer"}
Resources  == {"databasePool", "redisClient"}

VARIABLES stage,      \* where run() is
          cancelled,  \* ctx is done
          notify,     \* signals are caught by NotifyContext
          open,       \* resources that hold connections
          deferred,   \* the Close calls that run() has deferred, last first
          background, \* goroutines that background.Wait() waits for
          listening,  \* the listener accepts connections
          shutdown,   \* the goroutine that calls server.Shutdown
          requests,   \* the state of each request
          err         \* what run() returns, or how the process ended

signals == <<cancelled, notify>>
held    == <<open, deferred>>
server  == <<listening, shutdown, requests>>
vars    == <<stage, signals, held, background, server, err>>

Init == /\ stage      = "settings"
        /\ cancelled  = FALSE
        /\ notify     = TRUE
        /\ open       = {}
        /\ deferred   = <<>>
        /\ background = {}
        /\ listening  = FALSE
        /\ shutdown   = "none"
        /\ requests   = [c \in Clients |-> "none"]
        /\ err        = "nil"

-----------------------------------------------------------------------------
(* Start                                                                   *)

\* run() goes on to the next stage.
Proceed(from, to) ==
    /\ stage = from
    /\ stage' = to
    /\ UNCHANGED <<signals, background, server, err>>

\* return err: the deferred calls follow.
Return(from) ==
    /\ stage = from
    /\ stage' = "defers"
    /\ err'   = "error"
    /\ UNCHANGED <<signals, deferred, background, server>>

\* requiredEnv, positiveIntEnv and nonNegativeUintEnv
ReadSettings  == Proceed("settings", "database") /\ UNCHANGED held
SettingsWrong == Return("settings") /\ UNCHANGED open

\* appdb.NewPool, then redis.NewClient, which does not connect
NewPool ==
    /\ ~cancelled
    /\ Proceed("database", "group")
    /\ open'     = Resources
    /\ deferred' = <<"redisClient", "databasePool">>

\* Mutant: the pool whose Ping failed is not closed.
NewPoolFailsOpen == Return("database") /\ open' \in {open, {"databasePool"}}

\* The connection string is wrong, or Ping fails (always, once ctx is done) and
\* NewPool closes the pool it has made.
NewPoolFails == Return("database") /\ UNCHANGED open

EnsureGroup == /\ ~cancelled
               /\ Proceed("group", "construct")
               /\ UNCHANGED held

EnsureGroupFails == Return("group") /\ UNCHANGED open

\* worker.NewPool or worker.NewReclaimer refuses a setting (a number of seconds
\* too large for a time.Duration).
ConstructFails == Return("construct") /\ UNCHANGED open

\* The goroutines are started: the pool, the reclaimer and the one that waits
\* for ctx to shut the server down.
GoBackground ==
    /\ stage = "construct"
    /\ stage'      = "listen"
    /\ background' = Background
    /\ shutdown'   = "waiting"
    /\ UNCHANGED <<signals, held, listening, requests, err>>

-----------------------------------------------------------------------------
(* Serving                                                                 *)

\* Mutant: the server listens although it was shut down before.
ListenAfterShutdown ==
    /\ stage = "listen"
    /\ stage'     = "serving"
    /\ listening' = TRUE
    /\ UNCHANGED <<signals, held, background, shutdown, requests, err>>

\* ListenAndServe has the port.
Listen ==
    /\ stage = "listen"
    /\ shutdown = "waiting"
    /\ stage'     = "serving"
    /\ listening' = TRUE
    /\ UNCHANGED <<signals, held, background, shutdown, requests, err>>

\* The port is taken, or Accept fails.
ServeFails ==
    /\ stage \in {"listen", "serving"}
    /\ stage'     = "stop"
    /\ listening' = FALSE
    /\ err'       = "error"
    /\ UNCHANGED <<signals, held, background, shutdown, requests>>

\* ErrServerClosed, as soon as Shutdown has been called: ListenAndServe does
\* not wait for Shutdown to return.
ServeReturns ==
    /\ stage \in {"listen", "serving"}
    /\ shutdown # "waiting"
    /\ stage' = "stop"
    /\ UNCHANGED <<signals, held, background, server, err>>

Request(c) ==
    /\ listening
    /\ requests[c] = "none"
    /\ requests' = [requests EXCEPT ![c] = "active"]
    /\ UNCHANGED <<stage, signals, held, background, listening, shutdown, err>>

\* The handler returns and the response is written.
Respond(c) ==
    /\ stage # "exited"
    /\ requests[c] = "active"
    /\ requests' = [requests EXCEPT ![c] = "answered"]
    /\ UNCHANGED <<stage, signals, held, background, listening, shutdown, err>>

\* <-ctx.Done() and server.Shutdown: the listener is closed at once.
Shutdown ==
    /\ stage # "exited"
    /\ shutdown = "waiting"
    /\ cancelled
    /\ shutdown'  = "draining"
    /\ listening' = FALSE
    /\ UNCHANGED <<stage, signals, held, background, requests, err>>

\* Mutant: connections in use are not waited for.
ShutdownReturnsAtOnce(why) ==
    /\ stage # "exited"
    /\ shutdown = "draining"
    /\ shutdown' = why
    /\ UNCHANGED <<stage, signals, held, background, listening, requests, err>>

\* Shutdown returns: no request is active, or the 10 seconds are over.
ShutdownReturns(why) ==
    /\ stage # "exited"
    /\ shutdown = "draining"
    /\ why = "done" => \A c \in Clients : requests[c] # "active"
    /\ shutdown' = why
    /\ UNCHANGED <<stage, signals, held, background, listening, requests, err>>

-----------------------------------------------------------------------------
(* Stopping                                                                *)

\* The process is gone, and with it whatever was open or running.
Vanish(how) ==
    /\ stage'      = "exited"
    /\ err'        = how
    /\ background' = {}
    /\ listening'  = FALSE
    /\ requests'   = [c \in Clients |->
                         IF requests[c] = "active" THEN "cut" ELSE requests[c]]

\* SIGTERM or SIGINT: caught while NotifyContext is in force, deadly after stop().
Signal ==
    /\ stage # "exited"
    /\ \/ /\ notify
          /\ cancelled' = TRUE
          /\ UNCHANGED <<stage, background, listening, requests, err>>
       \/ /\ ~notify
          /\ Vanish("killed")
          /\ UNCHANGED cancelled
    /\ UNCHANGED <<notify, held, shutdown>>

\* Mutant: stop() only unregisters the signals.
StopNoCancel ==
    /\ stage = "stop"
    /\ stage'  = "wait"
    /\ notify' = FALSE
    /\ UNCHANGED <<cancelled, held, background, server, err>>

\* stop() cancels ctx, too.
Stop ==
    /\ stage = "stop"
    /\ stage'     = "wait"
    /\ notify'    = FALSE
    /\ cancelled' = TRUE
    /\ UNCHANGED <<held, background, server, err>>

\* The pool's workers or the reclaimer have finished their batches.
BackgroundDone(b) ==
    /\ stage # "exited"
    /\ b \in background
    /\ cancelled
    /\ background' = background \ {b}
    /\ UNCHANGED <<stage, signals, held, server, err>>

\* Mutant: the WaitGroup is one short.
WaitForOne ==
    /\ stage = "wait"
    /\ background # Background
    /\ stage' = "defers"
    /\ UNCHANGED <<signals, held, background, server, err>>

\* <-backgroundDone
Wait ==
    /\ stage = "wait"
    /\ background = {}
    /\ stage' = "defers"
    /\ UNCHANGED <<signals, held, background, server, err>>

\* The next deferred call: redisClient.Close, then databasePool.Close
Close ==
    /\ stage = "defers"
    /\ deferred # <<>>
    /\ open'     = open \ {Head(deferred)}
    /\ deferred' = Tail(deferred)
    /\ UNCHANGED <<stage, signals, background, server, err>>

\* The deferred stop(), and main returns or calls log.Fatal.
Exit ==
    /\ stage = "defers"
    /\ deferred = <<>>
    /\ Vanish(err)
    /\ cancelled' = TRUE
    /\ notify'    = FALSE
    /\ UNCHANGED <<held, shutdown>>

RunStep == \/ ReadSettings \/ SettingsWrong \/ NewPool \/ NewPoolFails
           \/ EnsureGroup \/ EnsureGroupFails \/ ConstructFails \/ GoBackground
           \/ Listen \/ ServeFails \/ ServeReturns \/ Stop \/ Wait
           \/ Close \/ Exit

Next == \/ RunStep
        \/ Signal
        \/ Shutdown \/ ShutdownReturns("done") \/ ShutdownReturns("timeout")
        \/ \E b \in Background : BackgroundDone(b)
        \/ \E c \in Clients : Request(c) \/ Respond(c)

Spec == Init /\ [][Next]_vars

\* run(), the goroutines it has started and the timeout of Shutdown make
\* progress; a server that serves may go on for ever, a handler may hang.
FairSpec == /\ Spec
            /\ WF_vars(RunStep /\ (stage = "serving" => shutdown # "waiting"))
            /\ WF_vars(Shutdown)
            /\ WF_vars(ShutdownReturns("timeout"))
            /\ \A b \in Background : WF_vars(BackgroundDone(b))

-----------------------------------------------------------------------------
(* Properties                                                              *)

\* run(), its goroutines and the requests are in states the program has, and the
\* port is open only while run() serves and nobody has shut the server down.
TypeOK ==
    /\ stage \in {"settings", "database", "group", "construct", "listen", "serving",
                  "stop", "wait", "defers", "exited"}
    /\ cancelled \in BOOLEAN /\ notify \in BOOLEAN /\ listening \in BOOLEAN
    /\ open \subseteq Resources /\ deferred \in Seq(Resources)
    /\ background \subseteq Background
    /\ shutdown \in {"none", "waiting", "draining", "done", "timeout"}
    /\ requests \in [Clients -> {"none", "active", "answered", "cut"}]
    /\ err \in {"nil", "error", "killed"}
    /\ listening => stage = "serving" /\ shutdown = "waiting"

\* docs/adr/005:74-76: run() "waits for both components to stop before Redis and
\* PostgreSQL connections are closed": no worker and no reclaimer, whose
\* transactions and XACKs ignore the cancellation, ever runs on a closed
\* connection, whichever way the server came to its end (main.go:153-167, 211-213).
ResourcesOutliveBackground == background # {} => open = Resources

\* Whatever fails on the way up or down, a run() that returns has closed what
\* it opened and left no worker behind (main.go:86-104, postgres.go:12-29).
NothingLeftOpen == stage = "exited" /\ err # "killed" => open = {} /\ background = {}

\* Once ctx is cancelled, or the server has failed, the process ends: neither
\* a request that hangs nor a signal that comes before the server listens keeps
\* it up (main.go:194-213).
StopsWhenTold == cancelled \/ stage = "stop" ~> stage = "exited"

\* A run() that succeeds cuts a request off only while Shutdown is still
\* draining or has run out of its 10 seconds: the listener is closed before the
\* waiting starts, and nothing ends the process before Shutdown is called.  That
\* it may end while Shutdown drains is how far the graceful shutdown goes,
\* because run() does not wait for Shutdown to return (main.go:194-213).
CutOnlyWhileDraining ==
    \A c \in Clients :
        requests[c] = "cut" /\ err = "nil" => shutdown \in {"draining", "timeout"}
=============================================================================
