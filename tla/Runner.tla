------------------------------- MODULE Runner --------------------------------
(***************************************************************************)
(* The life of the process: Runner.Run loads the configuration, starts the *)
(* data layer, gives a health and an ext_proc gRPC server to the manager,  *)
(* and stops the data layer when the manager returns - because of a signal *)
(* or because a server failed.  Streams are served, and their events       *)
(* counted (InflightAccounting), while all this happens.                   *)
(*                                                                         *)
(* One context, done at the signal, is given to the manager and to the     *)
(* data layer; the manager gives its own to the servers.                   *)
(***************************************************************************)
EXTENDS InflightAccounting

Servers == {"health", "ext-proc"}

VARIABLES
    main,       \* where Run is: the next thing it does
    cancelled,  \* is the context of Run done?
    mgr,        \* the manager: "new", "running", "stopping", out of time ("expired")
    server,     \* [Servers -> state of the runnable]
    conn        \* [Streams -> "none", "open", "ended", or "cut" by the process's exit]

runVars == <<main, cancelled, mgr, server, conn>>
rvars == <<vars, runVars>>

Stages == {"setup", "loadConfiguration", "processor.Start", "register", "mgr.Start",
           "processor.Stop", "exit", "returned"}
ServerStates == {"added", "listening", "serving", "stopping", "done", "failed"}
OpenStreams == {s \in Streams : conn[s] = "open"}

RInit ==
    /\ Init
    /\ main = "setup" /\ cancelled = FALSE /\ mgr = "new"
    /\ server = [x \in Servers |-> "added"]
    /\ conn = [s \in Streams |-> "none"]

-----------------------------------------------------------------------------
(* Flags, tracing, manager and controllers, then the configuration: an     *)
(* error ends Run; nothing has been started yet.                           *)
SetUp ==
    /\ main = "setup"
    /\ main' \in {"loadConfiguration", "returned"}
    /\ UNCHANGED <<vars, cancelled, mgr, server, conn>>

LoadConfiguration ==
    /\ main = "loadConfiguration"
    /\ main' \in {"processor.Start", "returned"}
    /\ UNCHANGED <<vars, cancelled, mgr, server, conn>>

StartProcessor ==
    /\ main = "processor.Start"
    /\ main' = "register"
    /\ UNCHANGED <<vars, cancelled, mgr, server, conn>>

(* registerHealthServer and mgr.Add; an error leaves through the deferred  *)
(* Stop.                                                                   *)
RegisterServers ==
    /\ main = "register"
    /\ \/ main' = "mgr.Start" /\ mgr' = "running"
       \/ main' = "processor.Stop" /\ UNCHANGED mgr
    /\ UNCHANGED <<vars, cancelled, server, conn>>

Signal ==
    /\ ~cancelled /\ main # "returned"
    /\ cancelled' = TRUE
    /\ UNCHANGED <<vars, main, mgr, server, conn>>

(* The manager's part: it stops its runnables when its context is done or  *)
(* one of them has failed, and returns when all have ended or the grace    *)
(* period is over.                                                         *)
ManagerStops ==
    /\ mgr = "running" /\ (cancelled \/ \E x \in Servers : server[x] = "failed")
    /\ mgr' = "stopping"
    /\ UNCHANGED <<vars, main, cancelled, server, conn>>

GraceExpires ==
    /\ main = "mgr.Start" /\ mgr = "stopping"
    /\ mgr' = "expired"
    /\ UNCHANGED <<vars, main, cancelled, server, conn>>

ManagerReturns ==
    /\ main = "mgr.Start" /\ mgr \in {"stopping", "expired"}
    /\ mgr = "expired" \/ \A x \in Servers : server[x] \in {"added", "done", "failed"}
    /\ main' = "processor.Stop"
    /\ UNCHANGED <<vars, cancelled, mgr, server, conn>>

(* Faulty: Stop waits for the event loop without ending its context.       *)
StopProcessorWaits ==
    /\ main = "processor.Stop" /\ ~open
    /\ main' = "exit"
    /\ UNCHANGED <<vars, cancelled, mgr, server, conn>>

(* defer r.processor.Stop(): it returns when the event loop has exited.    *)
StopProcessor ==
    /\ main = "processor.Stop"
    /\ Close
    /\ main' = "exit"
    /\ UNCHANGED <<phase, model, lost, counters, cancelled, mgr, server, conn>>

(* Run has returned and the process ends, with whatever still runs in it.  *)
Exit ==
    /\ main = "exit"
    /\ main' = "returned"
    /\ conn' = [s \in Streams |-> IF conn[s] = "open" THEN "cut" ELSE conn[s]]
    /\ UNCHANGED <<vars, cancelled, mgr, server>>

-----------------------------------------------------------------------------
(* A gRPC runnable.  The ext_proc server may fail before it listens, too,  *)
(* for want of a certificate.                                              *)
Listen(x) ==
    /\ main = "mgr.Start" /\ server[x] = "added"
    /\ \E next \in {"listening", "failed"} : server' = [server EXCEPT ![x] = next]
    /\ UNCHANGED <<vars, main, cancelled, mgr, conn>>

Serve(x) ==
    /\ server[x] = "listening" /\ main # "returned"
    /\ server' = [server EXCEPT ![x] = "serving"]
    /\ UNCHANGED <<vars, main, cancelled, mgr, conn>>

(* Serve returns an error: nobody calls GracefulStop any more, and the     *)
(* streams go on.                                                          *)
ServeFails(x) ==
    /\ server[x] = "serving" /\ main # "returned"
    /\ server' = [server EXCEPT ![x] = "failed"]
    /\ UNCHANGED <<vars, main, cancelled, mgr, conn>>

(* The manager's context is done: no new streams are accepted; a Serve     *)
(* that is called only now returns at once.                                *)
GracefulStop(x) ==
    /\ mgr \in {"stopping", "expired"} /\ server[x] \in {"listening", "serving"}
    /\ server' = [server EXCEPT ![x] = "stopping"]
    /\ UNCHANGED <<vars, main, cancelled, mgr, conn>>

(* Faulty: the runnable does not wait for its streams.                     *)
ServeReturnsAtOnce(x) ==
    /\ server[x] = "stopping"
    /\ server' = [server EXCEPT ![x] = "done"]
    /\ UNCHANGED <<vars, main, cancelled, mgr, conn>>

(* Serve returns when GracefulStop has: after the last stream.             *)
ServeReturns(x) ==
    /\ server[x] = "stopping" /\ (x = "ext-proc" => OpenStreams = {})
    /\ server' = [server EXCEPT ![x] = "done"]
    /\ UNCHANGED <<vars, main, cancelled, mgr, conn>>

-----------------------------------------------------------------------------
Accept(s) ==
    /\ server["ext-proc"] = "serving" /\ conn[s] = "none" /\ main # "returned"
    /\ conn' = [conn EXCEPT ![s] = "open"]
    /\ UNCHANGED <<vars, main, cancelled, mgr, server>>

(* Process goes on with a stream ...                                       *)
Proceed(s) ==
    /\ conn[s] = "open"
    /\ Answer(s) \/ AnswerBodyless(s) \/ \E m \in Models \cup {NoModel} : Forward(s, m)
    /\ UNCHANGED runVars

(* ... and returns.                                                        *)
StreamEnds(s) ==
    /\ conn[s] = "open"
    /\ conn' = [conn EXCEPT ![s] = "ended"]
    /\ Abort(s) \/ (phase[s] # "forwarded" /\ UNCHANGED vars)
    /\ UNCHANGED <<main, cancelled, mgr, server>>

(* The event loop, from processor.Start until its context - which is done  *)
(* with that of Run - or Stop ends it.                                     *)
Started == main \notin {"setup", "loadConfiguration", "processor.Start"}

LoopHandles == Started /\ main # "returned" /\ Dispatch /\ UNCHANGED runVars

LoopExits ==
    /\ Started /\ cancelled /\ open
    /\ Close
    /\ UNCHANGED <<phase, model, lost, counters, runVars>>

RNext ==
    \/ SetUp \/ LoadConfiguration \/ StartProcessor \/ RegisterServers \/ Signal
    \/ ManagerStops \/ GraceExpires \/ ManagerReturns \/ StopProcessor \/ Exit
    \/ LoopHandles \/ LoopExits
    \/ \E x \in Servers : Listen(x) \/ Serve(x) \/ ServeFails(x) \/ GracefulStop(x) \/ ServeReturns(x)
    \/ \E s \in Streams : Accept(s) \/ Proceed(s) \/ StreamEnds(s)

(* Run's goroutine, the manager, the servers' goroutines and the grace     *)
(* period's timer run.  No signal has to come, no server to fail, and a    *)
(* stream may last for ever.                                               *)
RFairness ==
    /\ WF_rvars(SetUp \/ LoadConfiguration \/ StartProcessor \/ RegisterServers
                \/ ManagerReturns \/ StopProcessor \/ Exit)
    /\ WF_rvars(ManagerStops) /\ WF_rvars(GraceExpires)
    /\ \A x \in Servers : WF_rvars(GracefulStop(x)) /\ WF_rvars(ServeReturns(x))

RSpec == RInit /\ [][RNext]_rvars /\ RFairness

-----------------------------------------------------------------------------
(* Run and its servers keep their types.                                   *)
RTypeOK ==
    /\ main \in Stages /\ cancelled \in BOOLEAN /\ mgr \in {"new", "running", "stopping", "expired"}
    /\ server \in [Servers -> ServerStates]
    /\ conn \in [Streams -> {"none", "open", "ended", "cut"}]

(* No stream is cut off by the end of the process, and none notifies a     *)
(* data layer that Stop has ended, unless the grace period is over or the  *)
(* ext_proc server has failed; whichever server fails, and when (the       *)
(* deferred Stop, GracefulStop in the runnable).                           *)
GracefulDrain ==
    mgr # "expired" /\ server["ext-proc"] # "failed" =>
        /\ \A s \in Streams : conn[s] # "cut"
        /\ OpenStreams # {} => open \/ cancelled

(* After a signal, or when a server has failed, Run returns, at whatever   *)
(* point of the start it comes and although streams may stay open.         *)
RunReturns == cancelled \/ (\E x \in Servers : server[x] = "failed") ~> main = "returned"
=============================================================================
