------------------------------- MODULE Grace -------------------------------
(***************************************************************************)
(* components/grace: hot reload and shutdown of the servers of a process,  *)
(* with the listeners of components/grpc/server and components/http/server *)
(* and the etcd registration of components/service_register.               *)
(*                                                                         *)
(* Processes are numbered in the order they are started.  Each runs one    *)
(* grace.Server per service, and each of those has its own signal          *)
(* goroutine and its own unbuffered channel: os/signal drops a signal for  *)
(* every goroutine that is not waiting.  A process whose signals nobody    *)
(* asked for yet dies of the signal.  The main program, which is not in    *)
(* the repository, first listens and registers for every service, then     *)
(* calls their ListenAndServe; it exits when it cannot listen or register, *)
(* or when all servers returned.                                           *)
(*                                                                         *)
(* A request in flight is a unary call; each server has at most one.  What *)
(* GracefulStop does to it differs: the gRPC server's calls Stop, which    *)
(* cuts it off, the HTTP server's waits for it, for fifteen seconds.       *)
(***************************************************************************)
EXTENDS Naturals, FiniteSets

CONSTANTS Service,      \* the services of a process, one address each
          Http,         \* those served by an HttpServer, the rest by a GrpcServer
          MaxProc,      \* bound: processes ever started
          MaxSignals,   \* bound: signals the operator sends, and failures of StartServ
          MaxRequests,  \* bound: requests ever sent
          Sent,         \* the signals the operator sends
          EarlySignals, \* BOOLEAN: also before the process asked for them
          Failing,      \* the services whose StartServ may fail by itself
          Nobody

ASSUME GraceAssumption ==
    /\ Http \subseteq Service /\ Sent \subseteq {"HUP", "INT", "TERM"} /\ MaxRequests \in Nat
    /\ EarlySignals \in BOOLEAN /\ Failing \subseteq Service /\ MaxProc \in Nat \ {0} /\ MaxSignals \in Nat

VARIABLES alive,    \* alive[p]: "unborn", "up" or "gone"
          parent,   \* parent[p]: who forked p; p is a child if somebody did
          forked,   \* forked[p]: runningServersForked
          quick,    \* quick[p]: DefaultTimeout was set to 0
          pc,       \* pc[p][s]: how far the main program is with s
          runing,   \* runing[p][s]: srv.runing
          hnd,      \* hnd[p][s]: what the signal goroutine of s is doing
          stop,     \* stop[p][s]: GracefulStop was not asked for ("no"), waits
                    \* for DefaultTimeout ("pending"), was called and waits
                    \* for requests ("draining") or is over ("done")
          port,     \* port[s]: the process listening on s's address
          flight,   \* flight[p][s]: a request to s is in flight in p
          cut,      \* history: cut[p][s]: it was cut off
          requests, \* requests sent
          reg,      \* reg[s]: the process whose registration is in etcd
          kept,     \* kept[s]: the lease of that registration is kept alive
          signals,  \* signals the operator sent, and failures of StartServ
          asked,    \* asked[p]: the operator asked p to stop or sent a signal
                    \* before p caught signals, or a StartServ of p failed
          heard     \* heard[p]: all signal goroutines of p got such a signal

procs == <<alive, parent, forked, quick>>
server == <<pc, runing, hnd, stop>>
traffic == <<flight, cut, requests>>
registry == <<reg, kept>>
operator == <<signals, asked, heard>>
vars == <<procs, server, port, traffic, registry, operator>>

Proc == 1 .. MaxProc

ASSUME NobodyAssumption == Nobody \notin Proc

Up(p) == alive[p] = "up"
Notified(p) == \E s \in Service : hnd[p][s] # "off"
Serves(p, s) == Up(p) /\ pc[p][s] = "serving"

\* The requests p has in flight for the services in S are cut off.
CutOff(p, S) ==
    /\ flight' = [flight EXCEPT ![p] = [s \in Service |-> @[s] /\ s \notin S]]
    /\ cut' = [cut EXCEPT ![p] = [s \in Service |-> @[s] \/ (s \in S /\ flight[p][s])]]

\* Mutant: the sockets of a process that ends stay open.
DieMutant(p) ==
    /\ alive' = [alive EXCEPT ![p] = "gone"]
    /\ CutOff(p, Service)
    /\ UNCHANGED port

\* Process p ends: the kernel closes its sockets; its lease in etcd runs on.
Die(p) ==
    /\ alive' = [alive EXCEPT ![p] = "gone"]
    /\ CutOff(p, Service)
    /\ port' = [s \in Service |-> IF port[s] = p THEN Nobody ELSE port[s]]

-----------------------------------------------------------------------------
(* The main program and Server.ListenAndServe *)

\* Mutant: the address can be shared, as if the child had the open fd.
ListenMutant(p, s) ==
    /\ Up(p) /\ pc[p][s] = "boot"
    /\ port' = [port EXCEPT ![s] = p]
    /\ pc' = [pc EXCEPT ![p][s] = "bound"]
    /\ UNCHANGED <<procs, runing, hnd, stop, traffic, registry, operator>>

\* NewGrpcServer, NewHttpServer: net.ListenTCP, in the child too.  When the
\* address is in use main gives up.
Listen(p, s) ==
    /\ Up(p) /\ pc[p][s] = "boot"
    /\ IF port[s] = Nobody
       THEN /\ port' = [port EXCEPT ![s] = p]
            /\ pc' = [pc EXCEPT ![p][s] = "bound"]
            /\ UNCHANGED <<alive, flight, cut>>
       ELSE /\ Die(p)
            /\ UNCHANGED pc
    /\ UNCHANGED <<parent, forked, quick, runing, hnd, stop, requests, registry, operator>>

\* EtcdCli.Register: the key is put under a new lease, kept alive from now on.
Register(p, s) ==
    /\ Up(p) /\ pc[p][s] = "bound"
    /\ reg' = [reg EXCEPT ![s] = p]
    /\ kept' = [kept EXCEPT ![s] = TRUE]
    /\ pc' = [pc EXCEPT ![p][s] = "registered"]
    /\ UNCHANGED <<procs, runing, hnd, stop, port, traffic, operator>>

\* Register fails at Grant or Put, or at KeepAlive with the key in place, and
\* main gives up.
RegisterFails(p, s) ==
    /\ Up(p) /\ pc[p][s] = "bound"
    /\ \/ UNCHANGED registry
       \/ /\ reg' = [reg EXCEPT ![s] = p]
          /\ kept' = [kept EXCEPT ![s] = FALSE]
    /\ Die(p)
    /\ UNCHANGED <<parent, forked, quick, server, requests, operator>>

\* ListenAndServe starts; the signal goroutine is started but has not run.
ListenAndServe(p, s) ==
    /\ Up(p) /\ pc[p][s] = "registered"
    /\ \A t \in Service : pc[p][t] \notin {"boot", "bound"}
    /\ runing' = [runing EXCEPT ![p][s] = TRUE]
    /\ pc' = [pc EXCEPT ![p][s] = IF parent[p] = Nobody THEN "ready" ELSE "child"]
    /\ UNCHANGED <<procs, hnd, stop, port, traffic, registry, operator>>

\* What a signal does to the signal goroutines of process p.
Received(p, sig) ==
    [s \in Service |-> IF hnd[p][s] = "wait" THEN sig ELSE hnd[p][s]]

\* The child terminates os.Getppid().  If the parent is gone that is init or
\* a subreaper, which it may signal or not: if not ListenAndServe returns the
\* error.
SignalParent(p, s) ==
    /\ Up(p) /\ pc[p][s] = "child"
    /\ LET q == parent[p]
       IN IF Up(q)
          THEN /\ pc' = [pc EXCEPT ![p][s] = "ready"]
               /\ hnd' = [hnd EXCEPT ![q] = Received(q, "TERM")]
          ELSE /\ \E x \in {"ready", "returned"} : pc' = [pc EXCEPT ![p][s] = x]
               /\ UNCHANGED hnd
    /\ UNCHANGED <<procs, runing, stop, port, traffic, registry, operator>>

\* Serve returns: its listener is closed.
Returned(p, s) ==
    /\ pc' = [pc EXCEPT ![p][s] = "returned"]
    /\ port' = [port EXCEPT ![s] = IF @ = p THEN Nobody ELSE @]

\* StartServ; it returns at once if the server was stopped already, which
\* has set runing to false.
Serve(p, s) ==
    /\ Up(p) /\ pc[p][s] = "ready"
    /\ IF stop[p][s] = "done" THEN Returned(p, s)
       ELSE pc' = [pc EXCEPT ![p][s] = "serving"] /\ UNCHANGED port
    /\ UNCHANGED <<procs, runing, hnd, stop, traffic, registry, operator>>

\* StartServ returns with an error of its own: nobody deregisters the server,
\* and a later signal to stop finds it not running.
ServeFails(p, s) ==
    /\ s \in Failing /\ Serves(p, s) /\ signals < MaxSignals
    /\ signals' = signals + 1
    /\ Returned(p, s)
    /\ runing' = [runing EXCEPT ![p][s] = FALSE]
    /\ asked' = [asked EXCEPT ![p] = TRUE]
    /\ UNCHANGED <<procs, hnd, stop, traffic, registry, heard>>

\* Every ListenAndServe of the process has returned; main does not wait for
\* a GracefulStop that is still draining.
Exit(p) ==
    /\ Up(p) /\ \A s \in Service : pc[p][s] = "returned"
    /\ Die(p)
    /\ UNCHANGED <<parent, forked, quick, server, requests, registry, operator>>

-----------------------------------------------------------------------------
(* Server.handleSignals *)

\* signal.Notify, then the loop.
Notify(p, s) ==
    /\ Up(p) /\ hnd[p][s] = "off"
    /\ pc[p][s] \in {"child", "ready", "serving", "returned"}
    /\ hnd' = [hnd EXCEPT ![p][s] = IF runing[p][s] THEN "wait" ELSE "ended"]
    /\ UNCHANGED <<procs, pc, runing, stop, port, traffic, registry, operator>>

\* The end of a round: the loop goes on while the server runs.
Loop(p, s) == hnd' = [hnd EXCEPT ![p][s] = IF runing'[p][s] THEN "wait" ELSE "ended"]

Unborn == {q \in Proc : alive[q] = "unborn"}

\* Mutant: the flag is not set, every signal goroutine forks.
ForkMutant(p, s) ==
    /\ Up(p) /\ hnd[p][s] = "HUP"
    /\ \/ \E q \in Unborn :
             /\ \A x \in Unborn : q <= x
             /\ alive' = [alive EXCEPT ![q] = "up"]
             /\ parent' = [parent EXCEPT ![q] = p]
       \/ UNCHANGED <<alive, parent>>
    /\ hnd' = [hnd EXCEPT ![p][s] = IF runing[p][s] THEN "wait" ELSE "ended"]
    /\ UNCHANGED <<forked, quick, pc, runing, stop, port, traffic, registry, operator>>

\* fork: once per process, whether or not the command could be started.
\* runningServers is nil, so the child is given no listener.
Fork(p, s) ==
    /\ Up(p) /\ hnd[p][s] = "HUP"
    /\ forked' = [forked EXCEPT ![p] = TRUE]
    /\ \/ /\ ~forked[p]
          /\ \E q \in Unborn :
                /\ \A x \in Unborn : q <= x
                /\ alive' = [alive EXCEPT ![q] = "up"]
                /\ parent' = [parent EXCEPT ![q] = p]
       \/ UNCHANGED <<alive, parent>>
    /\ UNCHANGED runing
    /\ Loop(p, s)
    /\ UNCHANGED <<quick, pc, stop, port, traffic, registry, operator>>

\* GrpcServer.GracefulStop calls Stop: the request in flight is cut off.
GrpcStop(p, s) ==
    /\ stop' = [stop EXCEPT ![p][s] = "done"]
    /\ CutOff(p, {s})

\* HttpServer.GracefulStop: Shutdown waits for the request in flight.
HttpShutdown(p, s) ==
    /\ stop' = [stop EXCEPT ![p][s] = IF flight[p][s] THEN "draining" ELSE "done"]
    /\ UNCHANGED <<flight, cut>>

\* Server.Close stops the listener: a server that serves returns, at once.
GracefulStop(p, s) ==
    /\ IF s \in Http THEN HttpShutdown(p, s) ELSE GrpcStop(p, s)
    /\ IF pc[p][s] = "serving" THEN Returned(p, s) ELSE UNCHANGED <<pc, port>>

\* DeRegister deletes the key whoever put it there.  If that fails the key
\* stays, but the leaser is closed in any case and no longer keeps it alive.
DeRegister(p, s) ==
    /\ reg' \in {reg, [reg EXCEPT ![s] = Nobody]}
    /\ kept' = [kept EXCEPT ![s] = @ /\ reg'[s] \notin {p, Nobody}]

\* Mutant: the registration is left to GracefulStop, which knows nothing of it.
ShutdownMutant(p, s, now) ==
    /\ runing' = [runing EXCEPT ![p][s] = FALSE]
    /\ UNCHANGED registry
    /\ IF ~runing[p][s] THEN UNCHANGED <<stop, pc, port, flight, cut>>
       ELSE IF now THEN GracefulStop(p, s)
       ELSE /\ stop' = [stop EXCEPT ![p][s] = "pending"]
            /\ UNCHANGED <<pc, port, flight, cut>>

\* shutdown: deregister, then stop now or after DefaultTimeout.
Shutdown(p, s, now) ==
    /\ runing' = [runing EXCEPT ![p][s] = FALSE]
    /\ IF ~runing[p][s] THEN UNCHANGED <<registry, stop, pc, port, flight, cut>>
       ELSE /\ DeRegister(p, s)
            /\ IF now THEN GracefulStop(p, s)
               ELSE /\ stop' = [stop EXCEPT ![p][s] = "pending"]
                    /\ UNCHANGED <<pc, port, flight, cut>>

Stop(p, s) ==
    /\ Up(p) /\ hnd[p][s] \in {"INT", "TERM"}
    /\ quick' = [quick EXCEPT ![p] = @ \/ hnd[p][s] = "INT"]
    /\ Shutdown(p, s, quick'[p])
    /\ Loop(p, s)
    /\ UNCHANGED <<alive, parent, forked, requests, operator>>

\* Mutant: the callback of AfterFunc does not stop the server.
TimeoutMutant(p, s) ==
    /\ Up(p) /\ stop[p][s] = "pending"
    /\ stop' = [stop EXCEPT ![p][s] = "done"]
    /\ UNCHANGED <<procs, pc, port, runing, hnd, traffic, registry, operator>>

\* DefaultTimeout is over.
Timeout(p, s) ==
    /\ Up(p) /\ stop[p][s] = "pending"
    /\ GracefulStop(p, s)
    /\ UNCHANGED <<procs, runing, hnd, requests, registry, operator>>

\* Shutdown returns once the last request was answered ...
Drained(p, s) ==
    /\ Up(p) /\ stop[p][s] = "draining" /\ ~flight[p][s]
    /\ stop' = [stop EXCEPT ![p][s] = "done"]
    /\ UNCHANGED <<procs, pc, port, runing, hnd, traffic, registry, operator>>

\* ... or with an error after fifteen seconds: it is logged at panic level,
\* Close recovers and panics again, and the process ends.
DrainFails(p, s) ==
    /\ Up(p) /\ stop[p][s] = "draining" /\ flight[p][s]
    /\ Die(p)
    /\ UNCHANGED <<parent, forked, quick, server, requests, registry, operator>>

-----------------------------------------------------------------------------
(* Clients *)

Request(p, s) ==
    /\ Serves(p, s) /\ ~flight[p][s] /\ requests < MaxRequests
    /\ flight' = [flight EXCEPT ![p][s] = TRUE]
    /\ requests' = requests + 1
    /\ UNCHANGED <<procs, server, port, cut, registry, operator>>

Answer(p, s) ==
    /\ Up(p) /\ flight[p][s]
    /\ flight' = [flight EXCEPT ![p][s] = FALSE]
    /\ UNCHANGED <<procs, server, port, cut, requests, registry, operator>>

-----------------------------------------------------------------------------
(* The operator, and etcd *)

Kill(p, sig) ==
    /\ Up(p) /\ signals < MaxSignals
    /\ signals' = signals + 1
    /\ asked' = [asked EXCEPT ![p] = @ \/ sig # "HUP" \/ ~Notified(p)]
    /\ heard' = [heard EXCEPT ![p] = \/ @
                                     \/ sig # "HUP" /\ \A s \in Service : hnd[p][s] = "wait"]
    /\ IF Notified(p)
       THEN /\ hnd' = [hnd EXCEPT ![p] = Received(p, sig)]
            /\ UNCHANGED <<alive, port, flight, cut>>
       ELSE /\ EarlySignals
            /\ Die(p)
            /\ UNCHANGED hnd
    /\ UNCHANGED <<parent, forked, quick, pc, runing, stop, requests, registry>>

\* A lease that is not kept alive any more runs out.
LeaseExpires(s) ==
    /\ reg[s] # Nobody /\ (~Up(reg[s]) \/ ~kept[s])
    /\ reg' = [reg EXCEPT ![s] = Nobody]
    /\ kept' = [kept EXCEPT ![s] = FALSE]
    /\ UNCHANGED <<procs, server, port, traffic, operator>>

-----------------------------------------------------------------------------
PerServer(v) == [p \in Proc |-> [s \in Service |-> v]]

Init ==
    /\ alive = [p \in Proc |-> IF p = 1 THEN "up" ELSE "unborn"]
    /\ parent = [p \in Proc |-> Nobody]
    /\ forked = [p \in Proc |-> FALSE]
    /\ quick = [p \in Proc |-> FALSE]
    /\ pc = PerServer("boot")
    /\ runing = PerServer(FALSE)
    /\ hnd = PerServer("off")
    /\ stop = PerServer("no")
    /\ port = [s \in Service |-> Nobody]
    /\ flight = PerServer(FALSE) /\ cut = PerServer(FALSE) /\ requests = 0
    /\ reg = [s \in Service |-> Nobody]
    /\ kept = [s \in Service |-> FALSE]
    /\ signals = 0
    /\ asked = [p \in Proc |-> FALSE] /\ heard = [p \in Proc |-> FALSE]

MainStep(p, s) == Listen(p, s) \/ Register(p, s) \/ ListenAndServe(p, s)
                  \/ SignalParent(p, s) \/ Serve(p, s)
SignalStep(p, s) == Notify(p, s) \/ Fork(p, s) \/ Stop(p, s)

StopStep(p, s) == Timeout(p, s) \/ Drained(p, s) \/ DrainFails(p, s)

Next ==
    \/ \E p \in Proc, s \in Service :
          \/ MainStep(p, s) \/ RegisterFails(p, s) \/ ServeFails(p, s) \/ SignalStep(p, s) \/ StopStep(p, s)
          \/ Request(p, s) \/ Answer(p, s)
    \/ \E p \in Proc : Exit(p)
    \/ \E p \in Proc, sig \in Sent : Kill(p, sig)
    \/ \E s \in Service : LeaseExpires(s)

\* Goroutines run and timers fire; the operator and the clients are free.
Fairness ==
    \A p \in Proc :
        /\ WF_vars(Exit(p))
        /\ \A s \in Service : /\ WF_vars(MainStep(p, s))
                              /\ WF_vars(SignalStep(p, s))
                              /\ WF_vars(StopStep(p, s))

Spec == Init /\ [][Next]_vars /\ Fairness

-----------------------------------------------------------------------------
(* Properties *)

\* Every variable has its type, and only live processes hold an address.
TypeOK ==
    /\ alive \in [Proc -> {"unborn", "up", "gone"}]
    /\ parent \in [Proc -> Proc \cup {Nobody}]
    /\ forked \in [Proc -> BOOLEAN] /\ quick \in [Proc -> BOOLEAN]
    /\ pc \in [Proc -> [Service -> {"boot", "bound", "registered", "child", "ready",
                                    "serving", "returned"}]]
    /\ runing \in [Proc -> [Service -> BOOLEAN]]
    /\ hnd \in [Proc -> [Service -> {"off", "wait", "HUP", "INT", "TERM", "ended"}]]
    /\ stop \in [Proc -> [Service -> {"no", "pending", "draining", "done"}]]
    /\ flight \in [Proc -> [Service -> BOOLEAN]]
    /\ cut \in [Proc -> [Service -> BOOLEAN]]
    /\ asked \in [Proc -> BOOLEAN] /\ heard \in [Proc -> BOOLEAN]
    /\ requests \in 0 .. MaxRequests /\ signals \in 0 .. MaxSignals
    /\ kept \in [Service -> BOOLEAN]
    /\ port \in [Service -> Proc \cup {Nobody}]
    /\ reg \in [Service -> Proc \cup {Nobody}]
    /\ \A s \in Service : port[s] # Nobody => Up(port[s])

\* A service that somebody serves and has not begun to shut down is
\* registered: no shutdown of another process removes its key
\* (server.go:109-132, etcd.go:116-127).
ServedIsRegistered ==
    \A p \in Proc, s \in Service : Serves(p, s) /\ runing[p][s] => reg[s] # Nobody

\* A server leaves the registry before it stops serving, or if etcd refuses
\* the lease of its key is no longer kept alive, so that clients are not sent
\* to it for ever (server.go:116-126, etcd.go:116-127).
DeregisteredFirst ==
    \A p \in Proc, s \in Service : stop[p][s] # "no" /\ reg[s] = p => ~kept[s]

\* A process forks at most one child, although each of its servers handles
\* the SIGHUP (server.go:177-183).
OneChild == \A p \in Proc : Cardinality({q \in Proc : parent[q] = p}) <= 1

Served(s) == \E p \in Proc : Serves(p, s)

\* As long as the operator only asks for reloads and no StartServ fails, a
\* service that is served stays served: a failed reload does no harm
\* (server.go:31-49, 177-221).
ReloadKeepsServing ==
    [][\A s \in Service : Served(s) /\ (\A p \in Proc : ~asked'[p]) => Served(s)']_vars

\* Only an operator who stops a process cuts off its requests, or the end of a
\* process whose StartServ failed: no reload and no child does (server.go:37-58,
\* 109-132; grpc/server/server.go:103, http/server/server.go:159-174).
OnlyStopCuts == \A p \in Proc, s \in Service : cut[p][s] => asked[p]

\* A process all of whose signal goroutines got a signal to stop ends, at the
\* latest when its timers fired, whatever its requests do and however far its
\* servers had come (server.go:60-98, 109-175).
HeardStops == \A p \in Proc : heard[p] ~> ~Up(p)

\* A child that was forked takes over: "Package grace use to hot reload"
\* (grace.go:13), "listen on open fd (after forking)" (grace.go:43).
ChildTakesOver ==
    \A p \in Proc, s \in Service : alive[p] = "up" /\ parent[p] # Nobody ~> pc[p][s] = "serving"
=============================================================================
