-------------------------- MODULE ApiRuntimeProofs --------------------------
(***************************************************************************)
(* The shutdown order of run(), for any number of HTTP requests.           *)
(*                                                                         *)
(* That a run() closes what it opened, and not before its goroutines have  *)
(* ended, follows from what is held at every stage (Held); that a request  *)
(* is cut off only while Shutdown drains, from how run() can come to its   *)
(* end without an error (Ending).                                          *)
(***************************************************************************)
EXTENDS ApiRuntime, SequenceTheorems, TLAPS

BothDeferred == <<"redisClient", "databasePool">>

\* The deferred calls close exactly what is open, and goroutines run only
\* between their start and background.Wait().
Held ==
    /\ \/ open = {} /\ deferred = <<>>
       \/ open = {"databasePool"} /\ deferred = <<"databasePool">>
       \/ open = Resources /\ deferred = BothDeferred
    /\ stage \in {"settings", "database"} => deferred = <<>>
    /\ stage \in {"group", "construct", "listen", "serving", "stop", "wait"} =>
          deferred = BothDeferred
    /\ stage \notin {"listen", "serving", "stop", "wait"} => background = {}
    /\ stage = "exited" /\ err # "killed" => deferred = <<>>

\* How run() ends without an error, and what Shutdown has waited for.
Ending ==
    /\ stage \in {"listen", "serving"} => shutdown # "none"
    /\ stage \in {"stop", "wait", "defers", "exited"} /\ err = "nil" =>
          shutdown \in {"draining", "done", "timeout"}
    /\ shutdown = "done" => \A c \in Clients : requests[c] # "active"
    /\ \A c \in Clients : requests[c] = "cut" => stage = "exited"

\* TypeOK, in three parts
Stages ==
    /\ stage \in {"settings", "database", "group", "construct", "listen", "serving",
                  "stop", "wait", "defers", "exited"}
    /\ open \subseteq Resources /\ deferred \in Seq(Resources)
    /\ background \subseteq Background
    /\ shutdown \in {"none", "waiting", "draining", "done", "timeout"}
    /\ requests \in [Clients -> {"none", "active", "answered", "cut"}]
    /\ err \in {"nil", "error", "killed"}

Flags == cancelled \in BOOLEAN /\ notify \in BOOLEAN /\ listening \in BOOLEAN

Port == listening => stage = "serving" /\ shutdown = "waiting"

RuntimeInv == TypeOK /\ Held /\ Ending /\ CutOnlyWhileDraining

\* Nothing is open or running before run() begins.
LEMMA InitRuntime == Init => RuntimeInv
<1> SUFFICES ASSUME Init PROVE RuntimeInv
    OBVIOUS
<1>1. TypeOK
    BY EmptySeq DEF Init, TypeOK
<1>2. Held /\ Ending /\ CutOnlyWhileDraining
    BY DEF Init, Held, Ending, CutOnlyWhileDraining
<1> QED BY <1>1, <1>2 DEF RuntimeInv

\* TypeOK is the three of them.
LEMMA TypeParts == TypeOK <=> Stages /\ Flags /\ Port
BY DEF TypeOK, Stages, Flags, Port

\* The deferred calls, as the sequence run() builds.
LEMMA DeferredCalls ==
    /\ BothDeferred \in Seq(Resources)
    /\ Head(BothDeferred) = "redisClient" /\ Tail(BothDeferred) = <<"databasePool">>
    /\ <<"databasePool">> \in Seq(Resources)
    /\ Head(<<"databasePool">>) = "databasePool" /\ Tail(<<"databasePool">>) = <<>>
    /\ <<>> \in Seq(Resources)
    /\ BothDeferred # <<>> /\ <<"databasePool">> # <<>> /\ BothDeferred # <<"databasePool">>
BY DEF BothDeferred, Resources

\* The way up: the settings, the pool, the group and the constructors.
LEMMA StartRuntime ==
    ASSUME RuntimeInv,
           \/ ReadSettings \/ SettingsWrong \/ NewPool \/ NewPoolFails
           \/ EnsureGroup \/ EnsureGroupFails \/ ConstructFails \/ GoBackground
    PROVE  RuntimeInv'
<1> USE DEF RuntimeInv
<1>1. TypeOK'
  <2>0. Stages /\ Flags /\ Port
      BY TypeParts
  <2>1. Stages'
      BY <2>0, DeferredCalls
         DEF Stages, Held, ReadSettings, SettingsWrong, NewPool, NewPoolFails, EnsureGroup,
         EnsureGroupFails, ConstructFails, GoBackground, Proceed, Return, signals, held,
         server, BothDeferred
  <2>2. Flags'
      BY <2>0, DeferredCalls
         DEF Flags, Held, ReadSettings, SettingsWrong, NewPool, NewPoolFails, EnsureGroup,
         EnsureGroupFails, ConstructFails, GoBackground, Proceed, Return, signals, held,
         server, BothDeferred
  <2>3. Port'
      BY <2>0, DeferredCalls
         DEF Stages, Port, Held, ReadSettings, SettingsWrong, NewPool, NewPoolFails,
         EnsureGroup, EnsureGroupFails, ConstructFails, GoBackground, Proceed, Return,
         signals, held, server, BothDeferred
  <2>4. (Stages /\ Flags /\ Port => TypeOK)'
      BY TypeParts, PTL
  <2> QED BY <2>1, <2>2, <2>3, <2>4
<1>2. Held'
    BY DEF Held, ReadSettings, SettingsWrong, NewPool, NewPoolFails,
       EnsureGroup, EnsureGroupFails, ConstructFails, GoBackground, Proceed, Return,
       signals, held, server, BothDeferred
<1>3. Ending' /\ CutOnlyWhileDraining'
    BY DEF Ending, CutOnlyWhileDraining, TypeOK, ReadSettings, SettingsWrong, NewPool,
       NewPoolFails, EnsureGroup, EnsureGroupFails, ConstructFails, GoBackground, Proceed,
       Return, signals, held, server
<1> QED BY <1>1, <1>2, <1>3

\* Serving: the listener, the requests and the goroutine of Shutdown.
LEMMA ServeRuntime ==
    ASSUME RuntimeInv,
           \/ Listen \/ ServeFails \/ ServeReturns
           \/ Shutdown \/ ShutdownReturns("done") \/ ShutdownReturns("timeout")
           \/ \E c \in Clients : Request(c) \/ Respond(c)
    PROVE  RuntimeInv'
<1> USE DEF RuntimeInv
<1>1. TypeOK'
  <2>0. Stages /\ Flags /\ Port
      BY TypeParts
  <2>1. Stages'
      BY <2>0
         DEF Stages, Listen, ServeFails, ServeReturns, Shutdown, ShutdownReturns, Request,
         Respond, signals, held, server
  <2>2. Flags'
      BY <2>0
         DEF Flags, Listen, ServeFails, ServeReturns, Shutdown, ShutdownReturns, Request,
         Respond, signals, held, server
  <2>3. Port'
      BY <2>0
         DEF Stages, Port, Listen, ServeFails, ServeReturns, Shutdown, ShutdownReturns,
         Request, Respond, signals, held, server
  <2>4. (Stages /\ Flags /\ Port => TypeOK)'
      BY TypeParts, PTL
  <2> QED BY <2>1, <2>2, <2>3, <2>4
<1>2. Held'
    BY DEF Held, TypeOK, Listen, ServeFails, ServeReturns, Shutdown, ShutdownReturns, Request,
           Respond, signals, held, server
<1>3. Ending' /\ CutOnlyWhileDraining'
    BY DEF Ending, CutOnlyWhileDraining, TypeOK, Listen, ServeFails, ServeReturns, Shutdown,
           ShutdownReturns, Request, Respond, signals, held, server
<1> QED BY <1>1, <1>2, <1>3

\* The way down: signals, the waiting, the deferred calls and the end.
LEMMA StopRuntime ==
    ASSUME RuntimeInv,
           \/ Signal \/ Stop \/ Wait \/ Close \/ Exit
           \/ \E b \in Background : BackgroundDone(b)
    PROVE  RuntimeInv'
<1> USE DEF RuntimeInv
<1>1. CASE Stop \/ Wait \/ \E b \in Background : BackgroundDone(b)
  <2>1. TypeOK'
    <3>0. Stages /\ Flags /\ Port
        BY TypeParts
    <3>1. Stages'
        BY <3>0, <1>1
           DEF Stages, Stop, Wait, BackgroundDone, signals, held, server
    <3>2. Flags'
        BY <3>0, <1>1
           DEF Flags, Stop, Wait, BackgroundDone, signals, held, server
    <3>3. Port'
        BY <3>0, <1>1
           DEF Stages, Port, Stop, Wait, BackgroundDone, signals, held, server
    <3>4. (Stages /\ Flags /\ Port => TypeOK)'
        BY TypeParts, PTL
    <3> QED BY <3>1, <3>2, <3>3, <3>4
  <2>2. Held'
      BY <1>1 DEF Held, Stop, Wait, BackgroundDone, signals, held, server
  <2>3. Ending' /\ CutOnlyWhileDraining'
      BY <1>1 DEF Ending, CutOnlyWhileDraining, TypeOK, Stop, Wait, BackgroundDone, signals,
                  held, server
  <2> QED BY <2>1, <2>2, <2>3
<1>2. CASE Signal \/ Exit
  <2>1. TypeOK'
    <3>0. Stages /\ Flags /\ Port
        BY TypeParts
    <3>1. Stages'
        BY <3>0, <1>2
           DEF Stages, Signal, Exit, Vanish, signals, held, server
    <3>2. Flags'
        BY <3>0, <1>2
           DEF Flags, Signal, Exit, Vanish, signals, held, server
    <3>3. Port'
        BY <3>0, <1>2
           DEF Stages, Port, Signal, Exit, Vanish, signals, held, server
    <3>4. (Stages /\ Flags /\ Port => TypeOK)'
        BY TypeParts, PTL
    <3> QED BY <3>1, <3>2, <3>3, <3>4
  <2>2. Held'
      BY <1>2 DEF Held, TypeOK, Signal, Exit, Vanish, signals, held, server
  <2>3. Ending' /\ CutOnlyWhileDraining'
      BY <1>2 DEF Ending, CutOnlyWhileDraining, TypeOK, Signal, Exit, Vanish, signals, held,
                  server
  <2> QED BY <2>1, <2>2, <2>3
<1>3. CASE Close
  <2>1. \/ open' = {} /\ deferred' = <<>>
        \/ open' = {"databasePool"} /\ deferred' = <<"databasePool">>
      BY <1>3, DeferredCalls DEF Held, Close, Resources
  <2>2. TypeOK' /\ Held'
      BY <1>3, <2>1, DeferredCalls DEF TypeOK, Held, Close, signals, server, Resources
  <2>3. Ending' /\ CutOnlyWhileDraining'
      BY <1>3 DEF Ending, CutOnlyWhileDraining, Close, signals, server
  <2> QED BY <2>2, <2>3
<1> QED BY <1>1, <1>2, <1>3

\* Every step of run(), of its goroutines and of a client keeps the invariant.
LEMMA NextRuntime == RuntimeInv /\ [Next]_vars => RuntimeInv'
<1> SUFFICES ASSUME RuntimeInv, [Next]_vars PROVE RuntimeInv'
    OBVIOUS
<1>1. CASE UNCHANGED vars
    BY <1>1 DEF RuntimeInv, TypeOK, Held, Ending, CutOnlyWhileDraining, vars, signals, held,
                server
<1>2. CASE Next
    BY <1>2, StartRuntime, ServeRuntime, StopRuntime DEF Next, RunStep
<1> QED BY <1>1, <1>2

\* run(), its goroutines and the requests are only in states the program has,
\* and the port is open only while run() serves (main.go:30-213).
THEOREM RuntimeTypeCorrect == Spec => []TypeOK
BY InitRuntime, NextRuntime, PTL DEF Spec, RuntimeInv

\* No worker and no reclaimer ever runs on a closed connection, whichever way
\* the server came to its end (main.go:153-167, 211-213).
THEOREM RuntimeResourcesOutliveBackground == Spec => []ResourcesOutliveBackground
<1>1. RuntimeInv => ResourcesOutliveBackground
    BY DeferredCalls DEF RuntimeInv, TypeOK, Held, ResourcesOutliveBackground
<1> QED BY InitRuntime, NextRuntime, <1>1, PTL DEF Spec

\* A run() that returns has closed what it opened and left no goroutine behind,
\* whatever failed on the way up or down (main.go:86-104, postgres.go:12-29).
THEOREM RuntimeNothingLeftOpen == Spec => []NothingLeftOpen
<1>1. RuntimeInv => NothingLeftOpen
    BY DeferredCalls DEF RuntimeInv, TypeOK, Held, NothingLeftOpen
<1> QED BY InitRuntime, NextRuntime, <1>1, PTL DEF Spec

\* A run() that succeeds cuts a request off only while Shutdown is draining or
\* has run out of its 10 seconds (main.go:194-213).
THEOREM RuntimeCutsOnlyWhileDraining == Spec => []CutOnlyWhileDraining
BY InitRuntime, NextRuntime, PTL DEF Spec, RuntimeInv
=============================================================================
