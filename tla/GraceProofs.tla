---------------------------- MODULE GraceProofs ----------------------------
(***************************************************************************)
(* TLAPS proofs about Grace, for any services, any number of processes and *)
(* any signals at any moment.                                              *)
(***************************************************************************)
EXTENDS Grace, FiniteSetTheorems, TLAPS

PC == {"boot", "bound", "registered", "child", "ready", "serving", "returned"}
HND == {"off", "wait", "HUP", "INT", "TERM", "ended"}
STOP == {"no", "pending", "draining", "done"}

-----------------------------------------------------------------------------
(* The inductive invariant *)

\* The places a server is in once ListenAndServe was called for it.
Later == {"child", "ready", "serving", "returned"}

\* How far the servers of one process are: ListenAndServe is called when all
\* are registered, the signal goroutines start after it, and only a process
\* that was asked to stop is stopping or has requests outside of Serve.
Places ==
    \A p \in Proc, s \in Service :
        /\ pc[p][s] # "boot" => alive[p] # "unborn"
        /\ pc[p][s] \in Later => \A t \in Service : pc[p][t] \notin {"boot", "bound"}
        /\ pc[p][s] = "child" => parent[p] # Nobody
        /\ hnd[p][s] # "off" => pc[p][s] \in Later
        /\ runing[p][s] => stop[p][s] = "no"
        /\ stop[p][s] # "no" => asked[p] /\ pc[p][s] \in Later
        /\ hnd[p][s] \in {"INT", "TERM"} => asked[p]
        /\ flight[p][s] => \/ pc[p][s] = "serving"
                           \/ pc[p][s] = "returned" /\ asked[p]

\* A child's parent is another process, past its own start, that noted the
\* fork; no two children have the same parent.
Family ==
    /\ \A q \in Proc :
          parent[q] # Nobody => /\ parent[q] # q /\ forked[parent[q]]
                                /\ \A s \in Service : pc[parent[q]][s] \notin {"boot", "bound"}
    /\ \A q, x \in Proc : parent[q] = parent[x] /\ parent[q] # Nobody => q = x

\* A process holds the address it bound until it stops serving it, for a
\* reason ...
PortHeld ==
    \A p \in Proc, s \in Service :
        /\ Up(p) /\ pc[p][s] # "boot"
        /\ pc[p][s] = "returned" => ~asked[p] \/ runing[p][s]
        => port[s] = p

\* ... and its registration until it shuts down.
Registered ==
    \A p \in Proc, s \in Service :
        /\ Up(p) /\ pc[p][s] \in {"registered", "child", "ready", "serving"}
        /\ stop[p][s] = "no"
        => reg[s] = p /\ kept[s]

GraceInv ==
    /\ TypeOK /\ Places /\ Family /\ PortHeld /\ Registered
    /\ DeregisteredFirst /\ OnlyStopCuts
-----------------------------------------------------------------------------
(* What the shared parts of the actions do, point by point *)

\* Assigning to one server of one process.
LEMMA Assign ==
    ASSUME NEW X, NEW f \in [Proc -> [Service -> X]], NEW p \in Proc, NEW s \in Service,
           NEW x \in X, NEW g, g = [f EXCEPT ![p][s] = x]
    PROVE  /\ g \in [Proc -> [Service -> X]]
           /\ g[p][s] = x
           /\ \A q \in Proc, t \in Service : q # p \/ t # s => g[q][t] = f[q][t]
OBVIOUS

\* The requests of p for the services in S are cut off.
LEMMA CutOffEffect ==
    ASSUME TypeOK, NEW p \in Proc, NEW S, CutOff(p, S)
    PROVE  /\ flight' \in [Proc -> [Service -> BOOLEAN]]
           /\ cut' \in [Proc -> [Service -> BOOLEAN]]
           /\ \A q \in Proc, t \in Service :
                 /\ flight'[q][t] <=> flight[q][t] /\ ~(q = p /\ t \in S)
                 /\ cut'[q][t] <=> cut[q][t] \/ (q = p /\ t \in S /\ flight[q][t])
<1>1. flight \in [Proc -> [Service -> BOOLEAN]] /\ cut \in [Proc -> [Service -> BOOLEAN]]
  BY DEF TypeOK
<1> DEFINE F == [t \in Service |-> flight[p][t] /\ t \notin S]
           C == [t \in Service |-> cut[p][t] \/ (t \in S /\ flight[p][t])]
<1>2. flight' = [flight EXCEPT ![p] = F] /\ cut' = [cut EXCEPT ![p] = C]
  BY <1>1 DEF CutOff
<1>3. F \in [Service -> BOOLEAN] /\ C \in [Service -> BOOLEAN]
  BY <1>1
<1>4. \A t \in Service : /\ F[t] <=> flight[p][t] /\ t \notin S
                         /\ C[t] <=> cut[p][t] \/ (t \in S /\ flight[p][t])
  BY <1>1
<1> HIDE DEF F, C
<1> QED
  BY <1>1, <1>2, <1>3, <1>4

\* Process p ends.
LEMMA DieEffect ==
    ASSUME TypeOK, NEW p \in Proc, Die(p)
    PROVE  /\ alive' \in [Proc -> {"unborn", "up", "gone"}]
           /\ alive'[p] = "gone" /\ \A q \in Proc \ {p} : alive'[q] = alive[q]
           /\ port' \in [Service -> Proc \cup {Nobody}]
           /\ \A t \in Service : /\ port[t] = p => port'[t] = Nobody
                                 /\ port[t] # p => port'[t] = port[t]
           /\ \A t \in Service : port'[t] # Nobody => alive'[port'[t]] = "up"
           /\ flight' \in [Proc -> [Service -> BOOLEAN]]
           /\ cut' \in [Proc -> [Service -> BOOLEAN]]
           /\ \A q \in Proc, t \in Service :
                 /\ flight'[q][t] <=> flight[q][t] /\ q # p
                 /\ cut'[q][t] <=> cut[q][t] \/ (q = p /\ flight[q][t])
<1>1. /\ alive' \in [Proc -> {"unborn", "up", "gone"}]
      /\ alive'[p] = "gone" /\ \A q \in Proc \ {p} : alive'[q] = alive[q]
  BY DEF Die, TypeOK
<1>2. /\ port' \in [Service -> Proc \cup {Nobody}]
      /\ \A t \in Service : /\ port[t] = p => port'[t] = Nobody
                            /\ port[t] # p => port'[t] = port[t]
  BY DEF Die, TypeOK
<1>3. \A t \in Service : port'[t] # Nobody => alive'[port'[t]] = "up"
  BY <1>1, <1>2 DEF TypeOK, Up
<1> QED
  BY <1>1, <1>2, <1>3, CutOffEffect DEF Die

\* The signal goroutines of q get a signal.
LEMMA ReceivedEffect ==
    ASSUME TypeOK, NEW q \in Proc, NEW sig \in {"HUP", "INT", "TERM"},
           hnd' = [hnd EXCEPT ![q] = Received(q, sig)]
    PROVE  /\ hnd' \in [Proc -> [Service -> HND]]
           /\ \A x \in Proc, t \in Service :
                 IF x = q /\ hnd[x][t] = "wait" THEN hnd'[x][t] = sig
                 ELSE hnd'[x][t] = hnd[x][t]
<1>1. hnd \in [Proc -> [Service -> HND]]
  BY DEF TypeOK, HND
<1>2. Received(q, sig) \in [Service -> HND]
  BY <1>1 DEF Received, HND
<1>3. \A t \in Service : Received(q, sig)[t] = IF hnd[q][t] = "wait" THEN sig ELSE hnd[q][t]
  BY DEF Received
<1> QED
  BY <1>1, <1>2, <1>3

\* Serve of s in p returns.
LEMMA ReturnedEffect ==
    ASSUME TypeOK, NEW p \in Proc, NEW s \in Service, Returned(p, s)
    PROVE  /\ pc' \in [Proc -> [Service -> PC]]
           /\ pc'[p][s] = "returned"
           /\ \A q \in Proc, t \in Service : q # p \/ t # s => pc'[q][t] = pc[q][t]
           /\ port' \in [Service -> Proc \cup {Nobody}]
           /\ port'[s] = IF port[s] = p THEN Nobody ELSE port[s]
           /\ \A t \in Service \ {s} : port'[t] = port[t]
           /\ \A t \in Service : port'[t] # Nobody => port'[t] = port[t]
<1>1. pc \in [Proc -> [Service -> PC]] /\ "returned" \in PC
  BY DEF TypeOK, PC
<1>2. pc' = [pc EXCEPT ![p][s] = "returned"]
  BY DEF Returned
<1> QED
  BY <1>1, <1>2, Assign DEF Returned, TypeOK

\* GracefulStop of s in p: a server that serves returns.
LEMMA GracefulStopEffect ==
    ASSUME TypeOK, NEW p \in Proc, NEW s \in Service, GracefulStop(p, s)
    PROVE  /\ stop' \in [Proc -> [Service -> STOP]]
           /\ stop'[p][s] \in {"draining", "done"}
           /\ \A q \in Proc, t \in Service : q # p \/ t # s => stop'[q][t] = stop[q][t]
           /\ \/ pc[p][s] = "serving" /\ Returned(p, s)
              \/ pc[p][s] # "serving" /\ UNCHANGED <<pc, port>>
           /\ flight' \in [Proc -> [Service -> BOOLEAN]]
           /\ cut' \in [Proc -> [Service -> BOOLEAN]]
           /\ \A q \in Proc, t \in Service :
                 /\ flight'[q][t] => flight[q][t]
                 /\ cut'[q][t] => cut[q][t] \/ q = p
<1>1. PICK x \in {"draining", "done"} : stop' = [stop EXCEPT ![p][s] = x]
  BY DEF GracefulStop, GrpcStop, HttpShutdown
<1>2. stop \in [Proc -> [Service -> STOP]] /\ x \in STOP
  BY DEF TypeOK, STOP
<1>3. /\ stop' \in [Proc -> [Service -> STOP]]
      /\ stop'[p][s] \in {"draining", "done"}
      /\ \A q \in Proc, t \in Service : q # p \/ t # s => stop'[q][t] = stop[q][t]
  BY <1>1, <1>2, Assign
<1>4. CutOff(p, {s}) \/ UNCHANGED <<flight, cut>>
  BY DEF GracefulStop, GrpcStop, HttpShutdown
<1>5. /\ flight' \in [Proc -> [Service -> BOOLEAN]]
      /\ cut' \in [Proc -> [Service -> BOOLEAN]]
      /\ \A q \in Proc, t \in Service :
            /\ flight'[q][t] => flight[q][t]
            /\ cut'[q][t] => cut[q][t] \/ q = p
  <2>1. CASE CutOff(p, {s})
    BY <2>1, CutOffEffect
  <2>2. CASE UNCHANGED <<flight, cut>>
    BY <2>2 DEF TypeOK
  <2> QED
    BY <1>4, <2>1, <2>2
<1>6. \/ pc[p][s] = "serving" /\ Returned(p, s)
      \/ pc[p][s] # "serving" /\ UNCHANGED <<pc, port>>
  BY DEF GracefulStop
<1> QED
  BY <1>3, <1>5, <1>6

\* The server of s in p deregisters.
LEMMA DeRegisterEffect ==
    ASSUME TypeOK, NEW p \in Proc, NEW s \in Service, DeRegister(p, s)
    PROVE  /\ reg' \in [Service -> Proc \cup {Nobody}]
           /\ kept' \in [Service -> BOOLEAN]
           /\ \A t \in Service \ {s} : reg'[t] = reg[t] /\ kept'[t] = kept[t]
           /\ reg'[s] \in {reg[s], Nobody}
           /\ reg'[s] = p => ~kept'[s]
<1>1. /\ reg' \in [Service -> Proc \cup {Nobody}]
      /\ \A t \in Service \ {s} : reg'[t] = reg[t]
      /\ reg'[s] \in {reg[s], Nobody}
  BY DEF DeRegister, TypeOK
<1> QED
  BY <1>1 DEF DeRegister, TypeOK

\* The places and the traffic when the server of s in p is stopped, now or
\* after DefaultTimeout.
StopsAt(p, s) ==
    /\ stop' \in [Proc -> [Service -> STOP]]
    /\ stop'[p][s] # "no"
    /\ \A q \in Proc, t \in Service : q # p \/ t # s => stop'[q][t] = stop[q][t]
    /\ \/ pc[p][s] = "serving" /\ Returned(p, s)
       \/ UNCHANGED <<pc, port>>
    /\ flight' \in [Proc -> [Service -> BOOLEAN]]
    /\ cut' \in [Proc -> [Service -> BOOLEAN]]
    /\ \A q \in Proc, t \in Service :
          /\ flight'[q][t] => flight[q][t]
          /\ cut'[q][t] => cut[q][t] \/ q = p

LEMMA ShutdownEffect ==
    ASSUME TypeOK, NEW p \in Proc, NEW s \in Service, NEW now, Shutdown(p, s, now)
    PROVE  /\ runing' \in [Proc -> [Service -> BOOLEAN]]
           /\ ~runing'[p][s]
           /\ \A q \in Proc, t \in Service : q # p \/ t # s => runing'[q][t] = runing[q][t]
           /\ \/ runing[p][s] /\ DeRegister(p, s) /\ StopsAt(p, s)
              \/ UNCHANGED <<registry, stop, pc, port, flight, cut>>
<1>1. runing' = [runing EXCEPT ![p][s] = FALSE] /\ runing \in [Proc -> [Service -> BOOLEAN]]
  BY DEF Shutdown, TypeOK
<1>2. /\ runing' \in [Proc -> [Service -> BOOLEAN]]
      /\ ~runing'[p][s]
      /\ \A q \in Proc, t \in Service : q # p \/ t # s => runing'[q][t] = runing[q][t]
  BY <1>1, Assign
<1>3. CASE ~runing[p][s]
  BY <1>2, <1>3 DEF Shutdown
<1>4. CASE runing[p][s]
  <2>1. DeRegister(p, s)
    BY <1>4 DEF Shutdown
  <2>2. CASE GracefulStop(p, s)
    BY <1>2, <1>4, <2>1, <2>2, GracefulStopEffect DEF StopsAt
  <2>3. CASE stop' = [stop EXCEPT ![p][s] = "pending"] /\ UNCHANGED <<pc, port, flight, cut>>
    <3>1. stop \in [Proc -> [Service -> STOP]] /\ "pending" \in STOP
      BY DEF TypeOK, STOP
    <3>2. /\ stop' \in [Proc -> [Service -> STOP]]
          /\ stop'[p][s] = "pending"
          /\ \A q \in Proc, t \in Service : q # p \/ t # s => stop'[q][t] = stop[q][t]
      BY <2>3, <3>1, Assign
    <3> QED
      BY <1>2, <1>4, <2>1, <2>3, <3>2 DEF StopsAt, TypeOK
  <2> QED
    BY <1>4, <2>2, <2>3 DEF Shutdown
<1> QED
  BY <1>3, <1>4

-----------------------------------------------------------------------------
(* Type correctness *)

\* The steps of the main program keep the types.
LEMMA MainType ==
    ASSUME TypeOK, NEW p \in Proc, NEW s \in Service,
           MainStep(p, s) \/ RegisterFails(p, s) \/ ServeFails(p, s) \/ Exit(p)
    PROVE  TypeOK'
<1> USE DEF procs, server, traffic, registry, operator
<1>1. CASE Listen(p, s)
  <2>1. CASE Die(p) /\ UNCHANGED pc
    BY <1>1, <2>1, DieEffect DEF Listen, TypeOK, Up
  <2>2. CASE /\ port' = [port EXCEPT ![s] = p]
             /\ pc' = [pc EXCEPT ![p][s] = "bound"]
             /\ UNCHANGED <<alive, flight, cut>>
    <3>1. pc' \in [Proc -> [Service -> PC]]
      BY <2>2 DEF TypeOK, PC
    <3>2. /\ port' \in [Service -> Proc \cup {Nobody}]
          /\ \A t \in Service : port'[t] # Nobody => alive'[port'[t]] = "up"
      BY <1>1, <2>2 DEF Listen, TypeOK, Up
    <3> QED
      BY <1>1, <2>2, <3>1, <3>2 DEF Listen, TypeOK, PC, Up
  <2> QED
    BY <1>1, <2>1, <2>2 DEF Listen
<1>2. CASE Register(p, s)
  BY <1>2 DEF Register, TypeOK, Up
<1>3. CASE ListenAndServe(p, s)
  BY <1>3 DEF ListenAndServe, TypeOK, Up
<1>4. CASE SignalParent(p, s)
  <2>1. pc' \in [Proc -> [Service -> PC]]
    <3>1. PICK x \in {"ready", "returned"} : pc' = [pc EXCEPT ![p][s] = x]
      BY <1>4 DEF SignalParent
    <3> QED
      BY <3>1 DEF TypeOK, PC
  <2>2. hnd' \in [Proc -> [Service -> HND]]
    <3>1. CASE hnd' = hnd
      BY <3>1 DEF TypeOK, HND
    <3>2. CASE hnd' = [hnd EXCEPT ![parent[p]] = Received(parent[p], "TERM")]
      BY <3>2 DEF TypeOK, HND, Received
    <3> QED
      BY <1>4, <3>1, <3>2 DEF SignalParent
  <2> QED
    BY <1>4, <2>1, <2>2 DEF SignalParent, TypeOK, PC, HND, Up
<1>5. CASE Serve(p, s)
  <2>1. CASE Returned(p, s)
    <3>1. UNCHANGED alive
      BY <1>5 DEF Serve
    <3>2. \A t \in Service : port'[t] # Nobody => alive'[port'[t]] = "up"
      <4>1. \A t \in Service : port'[t] # Nobody => port'[t] = port[t]
        BY <2>1, ReturnedEffect
      <4> QED
        BY <3>1, <4>1 DEF TypeOK, Up
    <3> QED
      BY <1>5, <2>1, <3>2, ReturnedEffect DEF Serve, TypeOK, PC, Up
  <2>2. CASE pc' = [pc EXCEPT ![p][s] = "serving"] /\ UNCHANGED port
    BY <1>5, <2>2 DEF Serve, TypeOK, Up
  <2> QED
    BY <1>5, <2>1, <2>2 DEF Serve
<1>6. CASE RegisterFails(p, s)
  <2>1. reg' \in [Service -> Proc \cup {Nobody}] /\ kept' \in [Service -> BOOLEAN]
    BY <1>6 DEF RegisterFails, TypeOK
  <2> QED
    BY <1>6, <2>1, DieEffect DEF RegisterFails, TypeOK, Up
<1>7. CASE Exit(p)
  BY <1>7, DieEffect DEF Exit, TypeOK, Up
<1>8. CASE ServeFails(p, s)
  <2>1. /\ Returned(p, s) /\ UNCHANGED <<procs, hnd, stop, traffic, registry, heard>>
        /\ runing' = [runing EXCEPT ![p][s] = FALSE]
        /\ asked' = [asked EXCEPT ![p] = TRUE]
        /\ signals < MaxSignals /\ signals' = signals + 1
    BY <1>8 DEF ServeFails
  <2>2. signals' \in 0 .. MaxSignals
    BY <2>1, GraceAssumption DEF TypeOK
  <2>3. runing' \in [Proc -> [Service -> BOOLEAN]] /\ asked' \in [Proc -> BOOLEAN]
    BY <2>1 DEF TypeOK
  <2>4. \A t \in Service : port'[t] # Nobody => alive'[port'[t]] = "up"
    <3>1. \A t \in Service : port'[t] # Nobody => port'[t] = port[t]
      BY <2>1, ReturnedEffect
    <3> QED
      BY <2>1, <3>1 DEF TypeOK, Up
  <2>5. pc' \in [Proc -> [Service -> PC]] /\ port' \in [Service -> Proc \cup {Nobody}]
    BY <2>1, ReturnedEffect
  <2> QED
    BY <2>1, <2>2, <2>3, <2>4, <2>5 DEF TypeOK, PC, Up
<1> QED
  BY <1>1, <1>2, <1>3, <1>4, <1>5, <1>6, <1>7, <1>8 DEF MainStep

\* Stopping a server keeps the types.
LEMMA StopsAtType ==
    ASSUME TypeOK, NEW p \in Proc, NEW s \in Service, StopsAt(p, s), UNCHANGED alive
    PROVE  /\ stop' \in [Proc -> [Service -> STOP]]
           /\ pc' \in [Proc -> [Service -> PC]]
           /\ port' \in [Service -> Proc \cup {Nobody}]
           /\ \A t \in Service : port'[t] # Nobody => alive'[port'[t]] = "up"
           /\ flight' \in [Proc -> [Service -> BOOLEAN]]
           /\ cut' \in [Proc -> [Service -> BOOLEAN]]
<1>1. CASE Returned(p, s)
  <2>1. \A t \in Service : port'[t] # Nobody => alive'[port'[t]] = "up"
    <3>1. \A t \in Service : port'[t] # Nobody => port'[t] = port[t]
      BY <1>1, ReturnedEffect
    <3> QED
      BY <3>1 DEF TypeOK, Up
  <2> QED
    BY <1>1, <2>1, ReturnedEffect DEF StopsAt
<1>2. CASE UNCHANGED <<pc, port>>
  BY <1>2 DEF StopsAt, TypeOK, Up, PC
<1> QED
  BY <1>1, <1>2 DEF StopsAt

\* The steps of the signal goroutines and the timers keep the types.
LEMMA SignalType ==
    ASSUME TypeOK, NEW p \in Proc, NEW s \in Service,
           SignalStep(p, s) \/ StopStep(p, s)
    PROVE  TypeOK'
<1> USE DEF procs, server, traffic, registry, operator
<1>1. CASE Notify(p, s)
  BY <1>1 DEF Notify, TypeOK, Up
<1>2. CASE Fork(p, s)
  <2>1. hnd' \in [Proc -> [Service -> HND]] /\ forked' \in [Proc -> BOOLEAN]
    BY <1>2 DEF Fork, Loop, TypeOK, HND
  <2>2. CASE UNCHANGED <<alive, parent>>
    BY <1>2, <2>1, <2>2 DEF Fork, TypeOK, HND, Up
  <2>3. ASSUME NEW q \in Unborn, alive' = [alive EXCEPT ![q] = "up"],
               parent' = [parent EXCEPT ![q] = p]
        PROVE  TypeOK'
    <3>1. /\ alive' \in [Proc -> {"unborn", "up", "gone"}]
          /\ parent' \in [Proc -> Proc \cup {Nobody}]
          /\ \A x \in Proc : alive[x] = "up" => alive'[x] = "up"
      BY <2>3 DEF TypeOK, Unborn
    <3>2. \A t \in Service : port[t] # Nobody => alive'[port[t]] = "up"
      BY <3>1 DEF TypeOK, Up
    <3> QED
      BY <1>2, <2>1, <3>1, <3>2 DEF Fork, TypeOK, HND, Up
  <2> QED
    BY <1>2, <2>2, <2>3 DEF Fork
<1>3. CASE Stop(p, s)
  <2>1. Shutdown(p, s, quick'[p]) /\ runing' \in [Proc -> [Service -> BOOLEAN]]
    BY <1>3, ShutdownEffect DEF Stop
  <2>2. hnd' \in [Proc -> [Service -> HND]] /\ quick' \in [Proc -> BOOLEAN]
    BY <1>3 DEF Stop, Loop, TypeOK, HND
  <2>3. CASE DeRegister(p, s) /\ StopsAt(p, s)
    BY <1>3, <2>1, <2>2, <2>3, DeRegisterEffect, StopsAtType DEF Stop, TypeOK, PC, HND, STOP, Up
  <2>4. CASE UNCHANGED <<registry, stop, pc, port, flight, cut>>
    BY <1>3, <2>1, <2>2, <2>4 DEF Stop, TypeOK, HND, Up
  <2> QED
    BY <2>1, <2>3, <2>4, ShutdownEffect
<1>4. CASE Timeout(p, s)
  <2>1. StopsAt(p, s)
    BY <1>4, GracefulStopEffect DEF Timeout, StopsAt
  <2> QED
    BY <1>4, <2>1, StopsAtType DEF Timeout, TypeOK, PC, STOP, Up
<1>5. CASE Drained(p, s)
  BY <1>5 DEF Drained, TypeOK, Up
<1>6. CASE DrainFails(p, s)
  BY <1>6, DieEffect DEF DrainFails, TypeOK, Up
<1> QED
  BY <1>1, <1>2, <1>3, <1>4, <1>5, <1>6 DEF SignalStep, StopStep

\* Every step keeps the types, and no address stays with a dead process.
LEMMA TypeStep == TypeOK /\ [Next]_vars => TypeOK'
<1> SUFFICES ASSUME TypeOK, [Next]_vars PROVE TypeOK'
  OBVIOUS
<1> USE DEF procs, server, traffic, registry, operator
<1>1. ASSUME NEW p \in Proc, NEW s \in Service, Request(p, s) PROVE TypeOK'
  <2>1. requests' \in 0 .. MaxRequests
    BY <1>1, GraceAssumption DEF Request, TypeOK
  <2>2. flight' \in [Proc -> [Service -> BOOLEAN]]
    BY <1>1 DEF Request, TypeOK
  <2> QED
    BY <1>1, <2>1, <2>2 DEF Request, TypeOK, Up
<1>2. ASSUME NEW p \in Proc, NEW s \in Service, Answer(p, s) PROVE TypeOK'
  BY <1>2 DEF Answer, TypeOK, Up
<1>3. ASSUME NEW p \in Proc, NEW sig \in Sent, Kill(p, sig) PROVE TypeOK'
  <2>1. signals' \in 0 .. MaxSignals
    BY <1>3, GraceAssumption DEF Kill, TypeOK
  <2>2. asked' \in [Proc -> BOOLEAN] /\ heard' \in [Proc -> BOOLEAN]
    BY <1>3 DEF Kill, TypeOK
  <2>3. CASE Die(p) /\ UNCHANGED hnd
    BY <1>3, <2>1, <2>2, <2>3, DieEffect DEF Kill, TypeOK, Up
  <2>4. CASE hnd' = [hnd EXCEPT ![p] = Received(p, sig)] /\ UNCHANGED <<alive, port, flight, cut>>
    BY <1>3, <2>1, <2>2, <2>4, ReceivedEffect, GraceAssumption DEF Kill, TypeOK, HND, Up
  <2> QED
    BY <1>3, <2>3, <2>4 DEF Kill
<1>4. ASSUME NEW s \in Service, LeaseExpires(s) PROVE TypeOK'
  BY <1>4 DEF LeaseExpires, TypeOK, Up
<1>5. ASSUME NEW p \in Proc, Exit(p) PROVE TypeOK'
  BY <1>5, DieEffect DEF Exit, TypeOK, Up
<1>6. CASE UNCHANGED vars
  BY <1>6 DEF vars, TypeOK, Up
<1> QED
  BY <1>1, <1>2, <1>3, <1>4, <1>5, <1>6, MainType, SignalType DEF Next

\* Every reachable state is well typed.
LEMMA InitType == Init => TypeOK
BY GraceAssumption, NobodyAssumption DEF Init, TypeOK, PerServer, Up

\* Every variable keeps its type and no address stays with a process that is
\* gone, whatever signals arrive when (grace.go, server.go).
THEOREM TypeCorrect == Spec => []TypeOK
BY InitType, TypeStep, PTL DEF Spec

-----------------------------------------------------------------------------
(* Every step keeps the invariant *)

GraceRest == Places /\ Family /\ PortHeld /\ Registered /\ DeregisteredFirst /\ OnlyStopCuts

\* The family depends on the start of its members only, which none undoes.
LEMMA FamilyKeeps ==
    ASSUME TypeOK, Family, UNCHANGED <<parent, forked>>,
           \A q \in Proc, t \in Service :
               pc[q][t] \notin {"boot", "bound"} => pc'[q][t] \notin {"boot", "bound"}
    PROVE  Family'
<1>1. \A q \in Proc : parent[q] # Nobody => parent[q] \in Proc
  BY DEF TypeOK
<1> QED
  BY <1>1 DEF Family

\* A process ends that has no request in flight, or was asked to stop.
LEMMA DieKeeps ==
    ASSUME GraceInv, NEW p \in Proc, Die(p), UNCHANGED <<parent, forked, server>>,
           \A q \in Proc : asked[q] => asked'[q],
           \A t \in Service : flight[p][t] => asked'[p]
    PROVE  /\ Places' /\ Family' /\ PortHeld' /\ OnlyStopCuts'
           /\ UNCHANGED registry => Registered' /\ DeregisteredFirst'
<1> USE DEF GraceInv, server, registry
<1>1. /\ alive'[p] = "gone" /\ \A q \in Proc \ {p} : alive'[q] = alive[q]
      /\ \A t \in Service : /\ port[t] = p => port'[t] = Nobody
                            /\ port[t] # p => port'[t] = port[t]
      /\ \A q \in Proc, t \in Service :
            /\ flight'[q][t] <=> flight[q][t] /\ q # p
            /\ cut'[q][t] <=> cut[q][t] \/ (q = p /\ flight[q][t])
  BY DieEffect
<1>2. Places'
  BY <1>1 DEF Places
<1>3. Family'
  BY DEF Family
<1>4. PortHeld'
  BY <1>1 DEF PortHeld, Up
<1>5. OnlyStopCuts'
  BY <1>1 DEF OnlyStopCuts
<1>6. UNCHANGED registry => Registered' /\ DeregisteredFirst'
  BY <1>1 DEF Registered, DeregisteredFirst, Up
<1> QED
  BY <1>2, <1>3, <1>4, <1>5, <1>6

\* Main listens: the address was free, so nobody was to hold it.
LEMMA ListenKeeps ==
    ASSUME GraceInv, NEW p \in Proc, NEW s \in Service, Listen(p, s)
    PROVE  GraceRest'
<1> USE DEF GraceInv, GraceRest, server, registry, operator
<1>1. Up(p) /\ pc[p][s] = "boot" /\ UNCHANGED <<parent, forked, quick, runing, hnd, stop, reg, kept, asked>>
  BY DEF Listen
<1>2. CASE Die(p) /\ UNCHANGED pc
  <2>1. \A t \in Service : ~flight[p][t]
    BY <1>1 DEF Places, Later
  <2> QED
    BY <1>1, <1>2, <2>1, DieKeeps
<1>3. CASE /\ port[s] = Nobody /\ port' = [port EXCEPT ![s] = p]
           /\ pc' = [pc EXCEPT ![p][s] = "bound"]
           /\ UNCHANGED <<alive, flight, cut>>
  <2>1. pc \in [Proc -> [Service -> PC]] /\ "bound" \in PC
    BY DEF TypeOK, PC
  <2>2. /\ pc'[p][s] = "bound"
        /\ \A q \in Proc, t \in Service : q # p \/ t # s => pc'[q][t] = pc[q][t]
    BY <1>3, <2>1, Assign
  <2>3. port'[s] = p /\ \A t \in Service \ {s} : port'[t] = port[t]
    BY <1>3 DEF TypeOK
  <2>4. Places'
    BY <1>1, <1>3, <2>2 DEF Places, Later, Up
  <2>5. Family'
    <3>1. \A q \in Proc : parent[q] # p
      BY <1>1, NobodyAssumption DEF Family
    <3> QED
      BY <1>1, <2>2, <3>1 DEF Family, TypeOK
  <2>6. PortHeld'
    BY <1>1, <1>3, <2>2, <2>3, NobodyAssumption DEF PortHeld, Up
  <2>7. Registered' /\ DeregisteredFirst' /\ OnlyStopCuts'
    BY <1>1, <1>3, <2>2 DEF Registered, DeregisteredFirst, OnlyStopCuts, Up
  <2> QED
    BY <2>4, <2>5, <2>6, <2>7
<1> QED
  BY <1>2, <1>3 DEF Listen

\* A process that has bound the address is the only one, and has not stopped.
LEMMA BoundAlone ==
    ASSUME GraceInv, NEW p \in Proc, NEW s \in Service, Up(p), pc[p][s] = "bound"
    PROVE  /\ stop[p][s] = "no" /\ port[s] = p
           /\ \A t \in Service : ~flight[p][t]
           /\ \A q \in Proc \ {p} :
                 Up(q) /\ pc[q][s] \in {"registered", "child", "ready", "serving"} => FALSE
BY DEF GraceInv, Places, PortHeld, Later

\* Main registers.
LEMMA RegisterKeeps ==
    ASSUME GraceInv, NEW p \in Proc, NEW s \in Service,
           Register(p, s) \/ RegisterFails(p, s)
    PROVE  GraceRest'
<1> USE DEF GraceInv, GraceRest, procs, server, traffic, registry, operator
<1>1. Up(p) /\ pc[p][s] = "bound" /\ UNCHANGED <<parent, forked, quick, runing, hnd, stop, asked>>
  BY DEF Register, RegisterFails
<1>2. /\ stop[p][s] = "no" /\ port[s] = p
      /\ \A t \in Service : ~flight[p][t]
      /\ \A q \in Proc \ {p} :
            Up(q) /\ pc[q][s] \in {"registered", "child", "ready", "serving"} => FALSE
  BY <1>1, BoundAlone
<1>3. CASE Register(p, s)
  <2>1. pc \in [Proc -> [Service -> PC]] /\ "registered" \in PC
    BY DEF TypeOK, PC
  <2>2. /\ pc'[p][s] = "registered"
        /\ \A q \in Proc, t \in Service : q # p \/ t # s => pc'[q][t] = pc[q][t]
    BY <1>3, <2>1, Assign DEF Register
  <2>3. /\ reg'[s] = p /\ kept'[s]
        /\ \A t \in Service \ {s} : reg'[t] = reg[t] /\ kept'[t] = kept[t]
        /\ UNCHANGED <<alive, port, flight, cut>>
    BY <1>3 DEF Register, TypeOK
  <2>4. Places'
    BY <1>1, <2>2, <2>3 DEF Places, Later
  <2>5. Family'
    BY <1>1, <2>2, FamilyKeeps
  <2>6. PortHeld' /\ OnlyStopCuts'
    BY <1>1, <2>2, <2>3 DEF PortHeld, OnlyStopCuts, Up
  <2>7. Registered'
    BY <1>1, <1>2, <2>2, <2>3 DEF Registered, Up
  <2>8. DeregisteredFirst'
    BY <1>1, <1>2, <2>3 DEF DeregisteredFirst
  <2> QED
    BY <2>4, <2>5, <2>6, <2>7, <2>8
<1>4. CASE RegisterFails(p, s)
  <2>1. Die(p) /\ UNCHANGED pc
    BY <1>4 DEF RegisterFails
  <2>2. /\ Places' /\ Family' /\ PortHeld' /\ OnlyStopCuts'
        /\ UNCHANGED registry => Registered' /\ DeregisteredFirst'
    BY <1>1, <1>2, <2>1, DieKeeps
  <2>3. CASE UNCHANGED registry
    BY <2>2, <2>3
  <2>4. CASE reg' = [reg EXCEPT ![s] = p] /\ kept' = [kept EXCEPT ![s] = FALSE]
    <3>1. /\ ~kept'[s]
          /\ \A t \in Service \ {s} : reg'[t] = reg[t] /\ kept'[t] = kept[t]
      BY <2>4 DEF TypeOK
    <3>2. alive'[p] = "gone" /\ \A q \in Proc \ {p} : alive'[q] = alive[q]
      BY <2>1, DieEffect
    <3>3. Registered'
      BY <1>1, <1>2, <2>1, <3>1, <3>2 DEF Registered, Up
    <3>4. DeregisteredFirst'
      BY <1>1, <3>1 DEF DeregisteredFirst
    <3> QED
      BY <2>2, <3>3, <3>4
  <2> QED
    BY <1>4, <2>3, <2>4 DEF RegisterFails
<1> QED
  BY <1>3, <1>4

\* A child gets to signal its parent only when the parent has given up the
\* address, which it does only once it was asked to stop or its StartServ
\* failed.
LEMMA ParentAsked ==
    ASSUME GraceInv, NEW p \in Proc, NEW s \in Service, Up(p), pc[p][s] = "child"
    PROVE  /\ parent[p] \in Proc
           /\ Up(parent[p]) => asked[parent[p]]
<1> USE DEF GraceInv
<1>1. parent[p] \in Proc /\ parent[p] # Nobody
  BY DEF Places, TypeOK
<1>2. parent[p] # p /\ pc[parent[p]][s] # "boot"
  BY <1>1 DEF Family
<1>3. port[s] = p
  BY DEF PortHeld
<1>4. Up(parent[p]) => asked[parent[p]]
  BY <1>1, <1>2, <1>3 DEF PortHeld
<1> QED
  BY <1>1, <1>4

\* ListenAndServe, up to Serve.
LEMMA ServeKeeps ==
    ASSUME GraceInv, NEW p \in Proc, NEW s \in Service,
           ListenAndServe(p, s) \/ SignalParent(p, s) \/ Serve(p, s)
    PROVE  GraceRest'
<1> USE DEF GraceInv, GraceRest, procs, server, traffic, registry, operator
<1>1. Up(p) /\ UNCHANGED <<alive, parent, forked, quick, stop, flight, cut, reg, kept, asked>>
  BY DEF ListenAndServe, SignalParent, Serve
<1>2. pc \in [Proc -> [Service -> PC]] /\ {"child", "ready", "serving", "returned"} \subseteq PC
  BY DEF TypeOK, PC
<1>3. CASE ListenAndServe(p, s)
  <2>1. PICK x \in {"child", "ready"} : /\ pc' = [pc EXCEPT ![p][s] = x]
                                        /\ x = "child" => parent[p] # Nobody
    BY <1>3 DEF ListenAndServe
  <2>2. /\ pc'[p][s] = x
        /\ \A q \in Proc, t \in Service : q # p \/ t # s => pc'[q][t] = pc[q][t]
    BY <1>2, <2>1, Assign
  <2>3. /\ runing'[p][s]
        /\ \A q \in Proc, t \in Service : q # p \/ t # s => runing'[q][t] = runing[q][t]
    <3>1. /\ runing \in [Proc -> [Service -> BOOLEAN]]
          /\ runing' = [runing EXCEPT ![p][s] = TRUE]
      BY <1>3 DEF ListenAndServe, TypeOK
    <3> QED
      BY <3>1, Assign
  <2>4. /\ pc[p][s] = "registered" /\ UNCHANGED <<hnd, port>>
        /\ \A t \in Service : pc[p][t] \notin {"boot", "bound"}
    BY <1>3 DEF ListenAndServe
  <2>5. Places'
    BY <1>1, <2>1, <2>2, <2>3, <2>4 DEF Places, Later, Up
  <2>6. Family'
    BY <1>1, <2>1, <2>2, FamilyKeeps
  <2>7. PortHeld' /\ Registered'
    BY <1>1, <2>1, <2>2, <2>3, <2>4 DEF PortHeld, Registered, Up
  <2>8. DeregisteredFirst' /\ OnlyStopCuts'
    BY <1>1 DEF DeregisteredFirst, OnlyStopCuts
  <2> QED
    BY <2>5, <2>6, <2>7, <2>8
<1>4. CASE SignalParent(p, s)
  <2>1. pc[p][s] = "child" /\ UNCHANGED <<runing, port>>
    BY <1>4 DEF SignalParent
  <2>2. parent[p] \in Proc /\ (Up(parent[p]) => asked[parent[p]])
    BY <1>1, <2>1, ParentAsked
  <2>3. PICK x \in {"ready", "returned"} : pc' = [pc EXCEPT ![p][s] = x]
    BY <1>4 DEF SignalParent
  <2>4. /\ pc'[p][s] = x
        /\ \A q \in Proc, t \in Service : q # p \/ t # s => pc'[q][t] = pc[q][t]
    BY <1>2, <2>3, Assign
  <2>5. \A q \in Proc, t \in Service :
            /\ hnd[q][t] = "off" => hnd'[q][t] = "off"
            /\ hnd'[q][t] # hnd[q][t] => hnd'[q][t] = "TERM" /\ asked[q]
    <3>1. CASE hnd' = hnd
      BY <3>1
    <3>2. CASE Up(parent[p]) /\ hnd' = [hnd EXCEPT ![parent[p]] = Received(parent[p], "TERM")]
      <4> DEFINE q == parent[p]
      <4>1. q \in Proc /\ asked[q] /\ hnd' = [hnd EXCEPT ![q] = Received(q, "TERM")]
        BY <2>2, <3>2
      <4> HIDE DEF q
      <4> QED
        BY <4>1, ReceivedEffect
    <3> QED
      BY <1>4, <3>1, <3>2 DEF SignalParent
  <2>6. Places'
    BY <1>1, <2>1, <2>3, <2>4, <2>5 DEF Places, Later, Up
  <2>7. Family'
    BY <1>1, <2>1, <2>3, <2>4, FamilyKeeps
  <2>8. PortHeld' /\ Registered'
    BY <1>1, <2>1, <2>3, <2>4 DEF PortHeld, Registered, Up
  <2>9. DeregisteredFirst' /\ OnlyStopCuts'
    BY <1>1 DEF DeregisteredFirst, OnlyStopCuts
  <2> QED
    BY <2>6, <2>7, <2>8, <2>9
<1>5. CASE Serve(p, s)
  <2>1. pc[p][s] = "ready" /\ UNCHANGED <<runing, hnd>>
    BY <1>5 DEF Serve
  <2>2. DeregisteredFirst' /\ OnlyStopCuts'
    BY <1>1 DEF DeregisteredFirst, OnlyStopCuts
  <2>3. CASE stop[p][s] = "done" /\ Returned(p, s)
    <3>1. /\ pc'[p][s] = "returned"
          /\ \A q \in Proc, t \in Service : q # p \/ t # s => pc'[q][t] = pc[q][t]
          /\ port'[s] = IF port[s] = p THEN Nobody ELSE port[s]
          /\ \A t \in Service \ {s} : port'[t] = port[t]
      BY <2>3, ReturnedEffect
    <3>2. Places'
      BY <1>1, <2>1, <3>1 DEF Places, Later, Up
    <3>3. Family'
      BY <1>1, <2>1, <3>1, FamilyKeeps
    <3>4. asked[p] /\ ~runing[p][s]
      BY <2>3 DEF Places
    <3>5. PortHeld' /\ Registered'
      BY <1>1, <2>1, <2>3, <3>1, <3>4 DEF PortHeld, Registered, Up
    <3> QED
      BY <2>2, <3>2, <3>3, <3>5
  <2>4. CASE pc' = [pc EXCEPT ![p][s] = "serving"] /\ UNCHANGED port
    <3>1. /\ pc'[p][s] = "serving"
          /\ \A q \in Proc, t \in Service : q # p \/ t # s => pc'[q][t] = pc[q][t]
      BY <1>2, <2>4, Assign
    <3>2. Places'
      BY <1>1, <2>1, <3>1 DEF Places, Later, Up
    <3>3. Family'
      BY <1>1, <2>1, <3>1, FamilyKeeps
    <3>4. PortHeld' /\ Registered'
      BY <1>1, <2>1, <2>4, <3>1 DEF PortHeld, Registered, Up
    <3> QED
      BY <2>2, <3>2, <3>3, <3>4
  <2> QED
    BY <1>5, <2>3, <2>4 DEF Serve
<1> QED
  BY <1>3, <1>4, <1>5

\* StartServ fails: the registration stays, the process is excused.
LEMMA ServeFailsKeeps ==
    ASSUME GraceInv, NEW p \in Proc, NEW s \in Service, ServeFails(p, s)
    PROVE  GraceRest'
<1> USE DEF GraceInv, GraceRest, procs, server, traffic, registry, operator
<1>1. /\ Returned(p, s) /\ pc[p][s] = "serving"
      /\ UNCHANGED <<alive, parent, forked, hnd, stop, flight, cut, reg, kept>>
  BY DEF ServeFails, Serves
<1>2. /\ runing'[p][s] = FALSE
      /\ \A q \in Proc, t \in Service : q # p \/ t # s => runing'[q][t] = runing[q][t]
  <2>1. /\ runing \in [Proc -> [Service -> BOOLEAN]]
        /\ runing' = [runing EXCEPT ![p][s] = FALSE]
    BY DEF ServeFails, TypeOK
  <2> QED
    BY <2>1, Assign
<1>3. asked'[p] = TRUE /\ \A q \in Proc \ {p} : asked'[q] = asked[q]
  BY DEF ServeFails, TypeOK
<1>4. /\ pc'[p][s] = "returned"
      /\ \A q \in Proc, t \in Service : q # p \/ t # s => pc'[q][t] = pc[q][t]
      /\ port[s] # p => port'[s] = port[s]
      /\ \A t \in Service \ {s} : port'[t] = port[t]
  BY <1>1, ReturnedEffect
<1>5. Places'
  BY <1>1, <1>2, <1>3, <1>4 DEF Places, Later
<1>6. Family'
  BY <1>1, <1>4, FamilyKeeps
<1>7. PortHeld'
  BY <1>1, <1>2, <1>3, <1>4 DEF PortHeld, Up
<1>8. Registered' /\ DeregisteredFirst' /\ OnlyStopCuts'
  BY <1>1, <1>3, <1>4 DEF Registered, DeregisteredFirst, OnlyStopCuts, Up
<1> QED
  BY <1>5, <1>6, <1>7, <1>8

\* A server of a process that was asked to stop is stopped, and has
\* deregistered before or does so now.
LEMMA StopsKeeps ==
    ASSUME GraceInv, NEW p \in Proc, NEW s \in Service, StopsAt(p, s),
           asked[p], pc[p][s] \in Later,
           UNCHANGED <<alive, parent, forked, asked>>,
           \A q \in Proc, t \in Service :
               /\ hnd'[q][t] # "off" => hnd[q][t] # "off"
               /\ hnd'[q][t] \in {"INT", "TERM"} => hnd[q][t] \in {"INT", "TERM"}
               /\ runing'[q][t] => runing[q][t],
           ~runing'[p][s],
           \A t \in Service \ {s} : reg'[t] = reg[t] /\ kept'[t] = kept[t],
           \A q \in Proc \ {p} : port[s] = q => reg'[s] = reg[s] /\ kept'[s] = kept[s],
           \A q \in Proc : stop'[q][s] # "no" /\ reg'[s] = q => ~kept'[s]
    PROVE  GraceRest'
<1> USE DEF GraceInv, GraceRest
<1>1. /\ stop'[p][s] # "no"
      /\ \A q \in Proc, t \in Service : q # p \/ t # s => stop'[q][t] = stop[q][t]
      /\ \A q \in Proc, t \in Service : /\ flight'[q][t] => flight[q][t]
                                        /\ cut'[q][t] => cut[q][t] \/ q = p
  BY DEF StopsAt
<1>2. /\ pc'[p][s] \in Later
      /\ pc'[p][s] = pc[p][s] \/ (pc[p][s] = "serving" /\ pc'[p][s] = "returned")
      /\ \A q \in Proc, t \in Service : q # p \/ t # s => pc'[q][t] = pc[q][t]
      /\ pc'[p][s] # "returned" => port'[s] = port[s]
      /\ port'[s] = port[s] \/ (port[s] = p /\ port'[s] = Nobody)
      /\ \A t \in Service \ {s} : port'[t] = port[t]
  <2>1. CASE pc[p][s] = "serving" /\ Returned(p, s)
    BY <2>1, ReturnedEffect DEF Later
  <2>2. CASE UNCHANGED <<pc, port>>
    BY <2>2
  <2> QED
    BY <2>1, <2>2 DEF StopsAt
<1>3. Places'
  BY <1>1, <1>2 DEF Places, Later
<1>4. Family'
  BY <1>2, FamilyKeeps DEF Later
<1>5. PortHeld'
  BY <1>1, <1>2 DEF PortHeld, Up
<1>6. Registered'
  <2> SUFFICES ASSUME NEW q \in Proc, NEW t \in Service, Up(q),
                      pc'[q][t] \in {"registered", "child", "ready", "serving"},
                      stop'[q][t] = "no"
               PROVE  reg'[t] = q /\ kept'[t]
    BY DEF Registered, Up
  <2>1. q # p \/ t # s
    BY <1>1
  <2>2. pc[q][t] \in {"registered", "child", "ready", "serving"} /\ stop[q][t] = "no"
    BY <1>1, <1>2, <2>1
  <2>3. reg[t] = q /\ kept[t] /\ port[t] = q
    BY <2>2 DEF Registered, PortHeld
  <2> QED
    BY <2>1, <2>3
<1>7. DeregisteredFirst'
  <2> SUFFICES ASSUME NEW q \in Proc, NEW t \in Service, stop'[q][t] # "no", reg'[t] = q
               PROVE  ~kept'[t]
    BY DEF DeregisteredFirst
  <2>1. CASE t = s
    BY <2>1
  <2>2. CASE t # s
    BY <1>1, <2>2 DEF DeregisteredFirst
  <2> QED
    BY <2>1, <2>2
<1>8. OnlyStopCuts'
  BY <1>1 DEF OnlyStopCuts
<1> QED
  BY <1>3, <1>4, <1>5, <1>6, <1>7, <1>8

\* The steps of the signal goroutines.
LEMMA NotifyKeeps ==
    ASSUME GraceInv, NEW p \in Proc, NEW s \in Service, Notify(p, s)
    PROVE  GraceRest'
<1> USE DEF GraceInv, GraceRest, procs, server, traffic, registry, operator
<1>1. PICK x \in {"wait", "ended"} : hnd' = [hnd EXCEPT ![p][s] = x]
  BY DEF Notify
<1>2. hnd \in [Proc -> [Service -> HND]] /\ x \in HND
  BY DEF TypeOK, HND
<1>3. /\ hnd'[p][s] = x
      /\ \A q \in Proc, t \in Service : q # p \/ t # s => hnd'[q][t] = hnd[q][t]
  BY <1>1, <1>2, Assign
<1>4. /\ pc[p][s] \in Later
      /\ UNCHANGED <<alive, parent, forked, pc, runing, stop, port, flight, cut, reg, kept, asked>>
  BY DEF Notify, Later
<1>5. Places'
  BY <1>1, <1>3, <1>4 DEF Places
<1>6. Family' /\ PortHeld' /\ Registered' /\ DeregisteredFirst' /\ OnlyStopCuts'
  BY <1>4 DEF Family, PortHeld, Registered, DeregisteredFirst, OnlyStopCuts, Up
<1> QED
  BY <1>5, <1>6

\* The loop of a signal goroutine goes on or ends.
LEMMA LoopEffect ==
    ASSUME TypeOK, NEW p \in Proc, NEW s \in Service, Loop(p, s)
    PROVE  /\ hnd'[p][s] \in {"wait", "ended"}
           /\ \A q \in Proc, t \in Service : q # p \/ t # s => hnd'[q][t] = hnd[q][t]
<1>1. PICK x \in {"wait", "ended"} : hnd' = [hnd EXCEPT ![p][s] = x]
  BY DEF Loop
<1>2. hnd \in [Proc -> [Service -> HND]] /\ x \in HND
  BY DEF TypeOK, HND
<1> QED
  BY <1>1, <1>2, Assign

\* A fork: the child is a process nobody has heard of, and its parent notes
\* that it has one.
LEMMA ForkKeeps ==
    ASSUME GraceInv, NEW p \in Proc, NEW s \in Service, Fork(p, s)
    PROVE  GraceRest'
<1> USE DEF GraceInv, GraceRest, procs, server, traffic, registry, operator
<1>1. /\ Up(p) /\ hnd[p][s] = "HUP"
      /\ UNCHANGED <<pc, runing, stop, port, flight, cut, reg, kept, asked>>
  BY DEF Fork
<1>2. /\ hnd'[p][s] \in {"wait", "ended"}
      /\ \A q \in Proc, t \in Service : q # p \/ t # s => hnd'[q][t] = hnd[q][t]
  BY LoopEffect DEF Fork
<1>3. forked'[p] /\ \A q \in Proc : forked[q] => forked'[q]
  BY DEF Fork, TypeOK
<1>4. DeregisteredFirst' /\ OnlyStopCuts'
  BY <1>1 DEF DeregisteredFirst, OnlyStopCuts
<1>5. \A t \in Service : pc[p][t] \notin {"boot", "bound"}
  BY <1>1 DEF Places
<1>6. CASE UNCHANGED <<alive, parent>>
  <2>1. Places'
    BY <1>1, <1>2, <1>6 DEF Places
  <2>2. Family'
    <3>1. \A q \in Proc : parent[q] # Nobody => parent[q] \in Proc
      BY DEF TypeOK
    <3> QED
      BY <1>1, <1>3, <1>6, <3>1 DEF Family
  <2>3. PortHeld' /\ Registered'
    BY <1>1, <1>6 DEF PortHeld, Registered, Up
  <2> QED
    BY <1>4, <2>1, <2>2, <2>3
<1>7. ASSUME NEW c \in Unborn, ~forked[p], alive' = [alive EXCEPT ![c] = "up"],
             parent' = [parent EXCEPT ![c] = p]
      PROVE  GraceRest'
  <2>1. /\ c \in Proc /\ alive[c] = "unborn" /\ c # p
        /\ \A t \in Service : pc[c][t] = "boot"
    BY <1>1, <1>7 DEF Unborn, Up, Places
  <2>2. /\ alive'[c] = "up" /\ \A q \in Proc \ {c} : alive'[q] = alive[q]
        /\ parent'[c] = p /\ \A q \in Proc \ {c} : parent'[q] = parent[q]
    BY <1>7, <2>1 DEF TypeOK
  <2>3. Places'
    BY <1>1, <1>2, <2>1, <2>2 DEF Places, Later
  <2>4. Family'
    <3>1. \A q \in Proc : parent[q] # Nobody => parent[q] \in Proc /\ parent[q] # p
      BY <1>7 DEF TypeOK, Family
    <3> QED
      BY <1>1, <1>3, <1>5, <2>1, <2>2, <3>1 DEF Family
  <2>5. PortHeld' /\ Registered'
    BY <1>1, <2>1, <2>2 DEF PortHeld, Registered, Up
  <2> QED
    BY <1>4, <2>3, <2>4, <2>5
<1> QED
  BY <1>6, <1>7 DEF Fork

\* A signal to stop.  Only the process that holds the address still has a
\* registration to take back.
LEMMA StopKeeps ==
    ASSUME GraceInv, NEW p \in Proc, NEW s \in Service, Stop(p, s)
    PROVE  GraceRest'
<1> USE DEF GraceInv, GraceRest, procs, server, traffic, registry, operator
<1>1. /\ Up(p) /\ hnd[p][s] \in {"INT", "TERM"} /\ Shutdown(p, s, quick'[p])
      /\ UNCHANGED <<alive, parent, forked, asked>>
  BY DEF Stop
<1>2. asked[p] /\ pc[p][s] \in Later
  BY <1>1 DEF Places
<1>3. /\ hnd'[p][s] \in {"wait", "ended"}
      /\ \A q \in Proc, t \in Service : q # p \/ t # s => hnd'[q][t] = hnd[q][t]
  BY LoopEffect DEF Stop
<1>4. /\ ~runing'[p][s]
      /\ \A q \in Proc, t \in Service : q # p \/ t # s => runing'[q][t] = runing[q][t]
  BY <1>1, ShutdownEffect
<1>5. \A q \in Proc, t \in Service :
          /\ hnd'[q][t] # "off" => hnd[q][t] # "off"
          /\ hnd'[q][t] \in {"INT", "TERM"} => hnd[q][t] \in {"INT", "TERM"}
          /\ runing'[q][t] => runing[q][t]
  BY <1>1, <1>3, <1>4
<1>6. CASE runing[p][s] /\ DeRegister(p, s) /\ StopsAt(p, s)
  <2>1. port[s] = p
    BY <1>1, <1>2, <1>6 DEF Places, PortHeld, Later
  <2>2. /\ \A t \in Service \ {s} : reg'[t] = reg[t] /\ kept'[t] = kept[t]
        /\ reg'[s] \in {reg[s], Nobody}
        /\ reg'[s] = p => ~kept'[s]
        /\ kept'[s] => kept[s]
    BY <1>6, DeRegisterEffect DEF DeRegister, TypeOK
  <2>3. \A q \in Proc : stop'[q][s] # "no" /\ reg'[s] = q => ~kept'[s]
    <3> SUFFICES ASSUME NEW q \in Proc, stop'[q][s] # "no", reg'[s] = q, q # p PROVE ~kept'[s]
      BY <2>2
    <3>1. stop[q][s] # "no" /\ reg[s] = q
      BY <1>6, <2>2, NobodyAssumption DEF StopsAt
    <3> QED
      BY <2>2, <3>1 DEF DeregisteredFirst
  <2> QED
    BY <1>1, <1>2, <1>4, <1>5, <1>6, <2>1, <2>2, <2>3, StopsKeeps
<1>7. CASE UNCHANGED <<registry, stop, pc, port, flight, cut>>
  <2>1. Places'
    BY <1>1, <1>4, <1>5, <1>7 DEF Places
  <2>2. Family' /\ PortHeld' /\ Registered' /\ DeregisteredFirst' /\ OnlyStopCuts'
    BY <1>1, <1>5, <1>7 DEF Family, PortHeld, Registered, DeregisteredFirst, OnlyStopCuts, Up
  <2> QED
    BY <2>1, <2>2
<1> QED
  BY <1>1, <1>6, <1>7, ShutdownEffect

\* The timers and the end of the draining.
LEMMA StopStepKeeps ==
    ASSUME GraceInv, NEW p \in Proc, NEW s \in Service, StopStep(p, s)
    PROVE  GraceRest'
<1> USE DEF GraceInv, GraceRest, procs, server, traffic, registry, operator
<1>1. CASE Timeout(p, s)
  <2>1. StopsAt(p, s)
    BY <1>1, GracefulStopEffect DEF Timeout, StopsAt
  <2>2. /\ stop[p][s] = "pending"
        /\ UNCHANGED <<alive, parent, forked, asked, hnd, runing, reg, kept>>
    BY <1>1 DEF Timeout
  <2>3. asked[p] /\ pc[p][s] \in Later /\ ~runing[p][s]
    BY <2>2 DEF Places
  <2>4. \A q \in Proc : stop'[q][s] # "no" /\ reg'[s] = q => ~kept'[s]
    BY <2>1, <2>2 DEF DeregisteredFirst, StopsAt
  <2> QED
    BY <2>1, <2>2, <2>3, <2>4, StopsKeeps
<1>2. CASE Drained(p, s)
  <2>1. /\ stop \in [Proc -> [Service -> STOP]] /\ "done" \in STOP
        /\ stop' = [stop EXCEPT ![p][s] = "done"]
        /\ stop[p][s] = "draining"
        /\ UNCHANGED <<alive, parent, forked, asked, hnd, runing, pc, port, flight, cut, reg, kept>>
    BY <1>2 DEF Drained, TypeOK, STOP
  <2>2. /\ stop'[p][s] = "done"
        /\ \A q \in Proc, t \in Service : q # p \/ t # s => stop'[q][t] = stop[q][t]
    BY <2>1, Assign
  <2>3. \A q \in Proc, t \in Service : stop'[q][t] = "no" <=> stop[q][t] = "no"
    BY <2>1, <2>2
  <2>4. Places'
    BY <2>1, <2>3 DEF Places
  <2>5. Family' /\ PortHeld' /\ Registered' /\ DeregisteredFirst' /\ OnlyStopCuts'
    BY <2>1, <2>3 DEF Family, PortHeld, Registered, DeregisteredFirst, OnlyStopCuts, Up
  <2> QED
    BY <2>4, <2>5
<1>3. CASE DrainFails(p, s)
  <2>1. asked[p]
    BY <1>3 DEF DrainFails, Places
  <2> QED
    BY <1>3, <2>1, DieKeeps DEF DrainFails
<1> QED
  BY <1>1, <1>2, <1>3 DEF StopStep

\* The end of a process all of whose servers returned: a request still in
\* flight is one of an HTTP server that was asked to stop.
LEMMA ExitKeeps ==
    ASSUME GraceInv, NEW p \in Proc, Exit(p)
    PROVE  GraceRest'
<1> USE DEF GraceInv, GraceRest, procs, server, traffic, registry, operator
<1>1. /\ Die(p) /\ \A t \in Service : pc[p][t] = "returned"
      /\ UNCHANGED <<parent, forked, server, registry, asked>>
  BY DEF Exit
<1>2. \A t \in Service : flight[p][t] => asked[p]
  BY <1>1 DEF Places
<1> QED
  BY <1>1, <1>2, DieKeeps

\* Clients.
LEMMA TrafficKeeps ==
    ASSUME GraceInv, NEW p \in Proc, NEW s \in Service, Request(p, s) \/ Answer(p, s)
    PROVE  GraceRest'
<1> USE DEF GraceInv, GraceRest, procs, server, traffic, registry, operator
<1>1. PICK x \in BOOLEAN : /\ flight' = [flight EXCEPT ![p][s] = x]
                           /\ x => pc[p][s] = "serving"
  BY DEF Request, Answer, Serves
<1>2. flight \in [Proc -> [Service -> BOOLEAN]]
  BY DEF TypeOK
<1>3. /\ flight'[p][s] = x
      /\ \A q \in Proc, t \in Service : q # p \/ t # s => flight'[q][t] = flight[q][t]
  BY <1>1, <1>2, Assign
<1>4. UNCHANGED <<alive, parent, forked, pc, hnd, runing, stop, port, cut, reg, kept, asked>>
  BY DEF Request, Answer
<1>5. Places'
  BY <1>1, <1>3, <1>4 DEF Places
<1>6. Family' /\ PortHeld' /\ Registered' /\ DeregisteredFirst' /\ OnlyStopCuts'
  BY <1>4 DEF Family, PortHeld, Registered, DeregisteredFirst, OnlyStopCuts, Up
<1> QED
  BY <1>5, <1>6

\* The operator.
LEMMA KillKeeps ==
    ASSUME GraceInv, NEW p \in Proc, NEW sig \in Sent, Kill(p, sig)
    PROVE  GraceRest'
<1> USE DEF GraceInv, GraceRest, procs, server, traffic, registry, operator
<1>1. /\ asked'[p] <=> asked[p] \/ sig # "HUP" \/ ~Notified(p)
      /\ \A q \in Proc \ {p} : asked'[q] = asked[q]
  BY DEF Kill, TypeOK
<1>2. UNCHANGED <<parent, forked, pc, runing, stop, reg, kept>>
  BY DEF Kill
<1>3. CASE Notified(p)
  <2>1. /\ hnd' = [hnd EXCEPT ![p] = Received(p, sig)]
        /\ UNCHANGED <<alive, port, flight, cut>>
    BY <1>3 DEF Kill
  <2>2. sig \in {"HUP", "INT", "TERM"}
    BY GraceAssumption
  <2>3. \A x \in Proc, t \in Service :
            IF x = p /\ hnd[x][t] = "wait" THEN hnd'[x][t] = sig ELSE hnd'[x][t] = hnd[x][t]
    BY <2>1, <2>2, ReceivedEffect
  <2>4. \A x \in Proc, t \in Service :
            /\ hnd'[x][t] # "off" => hnd[x][t] # "off"
            /\ hnd'[x][t] \in {"INT", "TERM"} => hnd[x][t] \in {"INT", "TERM"} \/ asked'[x]
            /\ asked[x] => asked'[x]
    BY <1>1, <2>2, <2>3
  <2>5. Places'
    BY <1>2, <2>1, <2>4 DEF Places
  <2>6. Family' /\ PortHeld' /\ Registered' /\ DeregisteredFirst' /\ OnlyStopCuts'
    BY <1>2, <2>1, <2>4 DEF Family, PortHeld, Registered, DeregisteredFirst, OnlyStopCuts, Up
  <2> QED
    BY <2>5, <2>6
<1>4. CASE ~Notified(p)
  <2>1. Die(p) /\ UNCHANGED hnd
    BY <1>4 DEF Kill
  <2>2. /\ asked'[p] /\ \A q \in Proc : asked[q] => asked'[q]
    BY <1>1, <1>4
  <2> QED
    BY <1>2, <2>1, <2>2, DieKeeps
<1> QED
  BY <1>3, <1>4

\* A lease runs out: not that of a process that is up and still registered.
LEMMA LeaseKeeps ==
    ASSUME GraceInv, NEW s \in Service, LeaseExpires(s)
    PROVE  GraceRest'
<1> USE DEF GraceInv, GraceRest, procs, server, traffic, registry, operator
<1>1. /\ ~Up(reg[s]) \/ ~kept[s]
      /\ reg'[s] = Nobody /\ ~kept'[s]
      /\ \A t \in Service \ {s} : reg'[t] = reg[t] /\ kept'[t] = kept[t]
      /\ UNCHANGED <<alive, parent, forked, pc, hnd, runing, stop, port, flight, cut, asked>>
  BY DEF LeaseExpires, TypeOK
<1>2. Places' /\ Family' /\ PortHeld' /\ OnlyStopCuts'
  BY <1>1 DEF Places, Family, PortHeld, OnlyStopCuts, Up
<1>3. Registered' /\ DeregisteredFirst'
  BY <1>1 DEF Registered, DeregisteredFirst, Up
<1> QED
  BY <1>2, <1>3

\* The invariant is inductive.
LEMMA GraceStep == GraceInv /\ [Next]_vars => GraceInv'
<1> SUFFICES ASSUME GraceInv, [Next]_vars PROVE GraceInv'
  OBVIOUS
<1>1. TypeOK'
  BY TypeStep DEF GraceInv
<1>2. SUFFICES GraceRest'
  BY <1>1 DEF GraceInv, GraceRest
<1>3. CASE UNCHANGED vars
  BY <1>3 DEF vars, procs, server, traffic, registry, operator, GraceInv, GraceRest, Places, Family,
     PortHeld, Registered, DeregisteredFirst, OnlyStopCuts, Up
<1>4. ASSUME NEW p \in Proc, NEW s \in Service, MainStep(p, s) \/ RegisterFails(p, s)
      PROVE  GraceRest'
  BY <1>4, ListenKeeps, RegisterKeeps, ServeKeeps DEF MainStep
<1>5. ASSUME NEW p \in Proc, NEW s \in Service, SignalStep(p, s) \/ StopStep(p, s)
      PROVE  GraceRest'
  BY <1>5, NotifyKeeps, ForkKeeps, StopKeeps, StopStepKeeps DEF SignalStep
<1> QED
  BY <1>3, <1>4, <1>5, ServeFailsKeeps, ExitKeeps, TrafficKeeps, KillKeeps, LeaseKeeps DEF Next

\* The invariant holds of every reachable state.
LEMMA GraceInvariant == Spec => []GraceInv
<1>1. Init => GraceInv
  <2> SUFFICES ASSUME Init PROVE GraceInv
    OBVIOUS
  <2>1. TypeOK
    BY InitType
  <2>2. Places /\ Family /\ PortHeld
    BY NobodyAssumption DEF Init, PerServer, Places, Later, Family, PortHeld
  <2>3. Registered /\ DeregisteredFirst /\ OnlyStopCuts
    BY NobodyAssumption DEF Init, PerServer, Registered, DeregisteredFirst, OnlyStopCuts
  <2> QED
    BY <2>1, <2>2, <2>3 DEF GraceInv
<1> QED
  BY <1>1, GraceStep, PTL DEF Spec

-----------------------------------------------------------------------------
(* Safety *)

\* A service that is served and has not begun to shut down is registered:
\* nobody else's shutdown, failed start or lease takes its key away
\* (server.go:109-132, etcd.go:116-127).
THEOREM ServedStaysRegistered == Spec => []ServedIsRegistered
<1>1. GraceInv => ServedIsRegistered
  BY NobodyAssumption DEF GraceInv, Places, Registered, ServedIsRegistered, Serves
<1> QED
  BY <1>1, GraceInvariant, PTL

\* A server that is stopping is no longer registered with a lease that is
\* kept alive (server.go:116-126).
THEOREM DeregistersFirst == Spec => []DeregisteredFirst
<1>1. GraceInv => DeregisteredFirst
  BY DEF GraceInv
<1> QED
  BY <1>1, GraceInvariant, PTL

\* A process forks at most one child, however many of its servers handle the
\* signal and however often it comes (server.go:177-183).
THEOREM OneChildOnly == Spec => []OneChild
<1>1. GraceInv => OneChild
  <2> SUFFICES ASSUME GraceInv, NEW p \in Proc
               PROVE  Cardinality({q \in Proc : parent[q] = p}) <= 1
    BY DEF OneChild
  <2> DEFINE C == {q \in Proc : parent[q] = p}
  <2>1. \A q, x \in C : q = x
    BY NobodyAssumption DEF GraceInv, Family
  <2>2. C = {} \/ \E q \in C : C = {q}
    BY <2>1
  <2> HIDE DEF C
  <2>3. C = {} => Cardinality(C) <= 1
    BY FS_EmptySet
  <2>4. ASSUME NEW q, C = {q} PROVE Cardinality(C) <= 1
    <3>1. Cardinality(C) = 1
      BY <2>4, FS_Singleton, Zenon
    <3> QED
      BY <3>1
  <2>5. Cardinality(C) <= 1
    BY <2>2, <2>3, <2>4
  <2> QED
    BY <2>5 DEF C
<1> QED
  BY <1>1, GraceInvariant, PTL

\* Requests are cut off only in a process the operator stopped or whose
\* StartServ failed: no reload and no child's signal does it (server.go:37-58,
\* 109-132).
THEOREM OnlyAStopCuts == Spec => []OnlyStopCuts
<1>1. GraceInv => OnlyStopCuts
  BY DEF GraceInv
<1> QED
  BY <1>1, GraceInvariant, PTL

\* A server leaves Serve, or its process ends, only after the operator asked
\* for a stop or a StartServ failed.
LEMMA ServesOn ==
    ASSUME GraceInv, [Next]_vars, NEW p \in Proc, NEW s \in Service,
           Serves(p, s), ~asked'[p]
    PROVE  Serves(p, s)'
<1> USE DEF GraceInv, procs, server, traffic, registry, operator
<1>1. Up(p) /\ pc[p][s] = "serving" /\ \A t \in Service : pc[p][t] \notin {"boot", "bound"}
  BY DEF Serves, Places, Later
<1>2. asked[p] => asked'[p]
  <2>1. ASSUME NEW q \in Proc, NEW t \in Service,
               \/ MainStep(q, t) \/ RegisterFails(q, t) \/ SignalStep(q, t) \/ StopStep(q, t)
               \/ Request(q, t) \/ Answer(q, t) \/ LeaseExpires(t)
        PROVE  UNCHANGED asked
    <3>1. CASE MainStep(q, t)
      BY <3>1 DEF MainStep, Listen, Register, ListenAndServe, SignalParent, Serve
    <3>2. CASE SignalStep(q, t)
      BY <3>2 DEF SignalStep, Notify, Fork, Stop
    <3>3. CASE StopStep(q, t)
      BY <3>3 DEF StopStep, Timeout, Drained, DrainFails
    <3> QED
      BY <2>1, <3>1, <3>2, <3>3 DEF RegisterFails, Request, Answer, LeaseExpires
  <2>2. ASSUME NEW q \in Proc, Exit(q) PROVE UNCHANGED asked
    BY <2>2 DEF Exit
  <2>3. ASSUME NEW q \in Proc, NEW t \in Service, ServeFails(q, t) PROVE asked[p] => asked'[p]
    BY <2>3 DEF ServeFails, TypeOK
  <2>4. ASSUME NEW q \in Proc, NEW sig \in Sent, Kill(q, sig) PROVE asked[p] => asked'[p]
    BY <2>4 DEF Kill, TypeOK
  <2>5. CASE UNCHANGED vars
    BY <2>5 DEF vars
  <2> QED
    BY <2>1, <2>2, <2>3, <2>4, <2>5 DEF Next
<1>3. ~asked[p] /\ \A t \in Service : stop[p][t] = "no" /\ hnd[p][t] \notin {"INT", "TERM"}
  BY <1>2 DEF Places
<1>4. CASE UNCHANGED <<alive, pc>>
  BY <1>4 DEF Serves, Up
<1>5. ASSUME NEW q \in Proc, Die(q), UNCHANGED pc, q # p
      PROVE  Serves(p, s)'
  BY <1>1, <1>5, DieEffect DEF Serves, Up
<1>6. ASSUME NEW q \in Proc, NEW t \in Service, NEW x \in PC,
             pc' = [pc EXCEPT ![q][t] = x], q # p \/ t # s, UNCHANGED alive
      PROVE  Serves(p, s)'
  <2>1. pc \in [Proc -> [Service -> PC]]
    BY DEF TypeOK, PC
  <2>2. pc'[p][s] = pc[p][s]
    BY <1>6, <2>1, Assign
  <2> QED
    BY <1>1, <1>6, <2>2 DEF Serves, Up
<1>7. ASSUME NEW q \in Proc, NEW t \in Service, MainStep(q, t) \/ RegisterFails(q, t)
      PROVE  Serves(p, s)'
  <2>1. pc[q][t] \in {"boot", "bound", "registered", "child", "ready"}
    BY <1>7 DEF MainStep, Listen, Register, ListenAndServe, SignalParent, Serve, RegisterFails
  <2>2. q # p \/ t # s
    BY <1>1, <2>1
  <2>3. CASE Die(q) /\ UNCHANGED pc /\ pc[q][t] \in {"boot", "bound"}
    BY <1>1, <1>5, <2>3
  <2>4. CASE UNCHANGED alive /\ \E x \in PC : pc' = [pc EXCEPT ![q][t] = x]
    BY <1>6, <2>2, <2>4
  <2>5. \/ Die(q) /\ UNCHANGED pc /\ pc[q][t] \in {"boot", "bound"}
        \/ UNCHANGED alive /\ \E x \in PC : pc' = [pc EXCEPT ![q][t] = x]
    BY <1>7 DEF MainStep, Listen, Register, ListenAndServe, SignalParent, Serve, RegisterFails,
       Returned, PC
  <2> QED
    BY <2>3, <2>4, <2>5
<1>8. ASSUME NEW q \in Proc, NEW t \in Service, SignalStep(q, t)
      PROVE  Serves(p, s)'
  <2>1. CASE Notify(q, t)
    BY <1>4, <2>1 DEF Notify
  <2>2. CASE Fork(q, t)
    <3>1. UNCHANGED pc /\ alive'[p] = "up"
      BY <1>1, <2>2 DEF Fork, Up, Unborn, TypeOK
    <3> QED
      BY <1>1, <3>1 DEF Serves, Up
  <2>3. CASE Stop(q, t)
    <3>1. q # p /\ UNCHANGED alive /\ Shutdown(q, t, quick'[q])
      BY <1>3, <2>3 DEF Stop
    <3>2. UNCHANGED pc \/ Returned(q, t)
      BY <3>1, ShutdownEffect DEF StopsAt
    <3> QED
      BY <1>4, <1>6, <3>1, <3>2 DEF Returned, PC
  <2> QED
    BY <1>8, <2>1, <2>2, <2>3 DEF SignalStep
<1>9. ASSUME NEW q \in Proc, NEW t \in Service, StopStep(q, t)
      PROVE  Serves(p, s)'
  <2>1. q # p
    BY <1>3, <1>9 DEF StopStep, Timeout, Drained, DrainFails
  <2>2. CASE Timeout(q, t)
    <3>1. UNCHANGED alive /\ (UNCHANGED pc \/ Returned(q, t))
      BY <2>2, GracefulStopEffect DEF Timeout
    <3> QED
      BY <1>4, <1>6, <2>1, <3>1 DEF Returned, PC
  <2>3. CASE Drained(q, t)
    BY <1>4, <2>3 DEF Drained
  <2>4. CASE DrainFails(q, t)
    BY <1>5, <2>1, <2>4 DEF DrainFails
  <2> QED
    BY <1>9, <2>2, <2>3, <2>4 DEF StopStep
<1>10. ASSUME NEW q \in Proc, Exit(q) PROVE Serves(p, s)'
  BY <1>1, <1>5, <1>10 DEF Exit
<1>11. ASSUME NEW q \in Proc, NEW sig \in Sent, Kill(q, sig) PROVE Serves(p, s)'
  <2>1. q = p => Notified(p)
    BY <1>11 DEF Kill, TypeOK
  <2>2. CASE Die(q) /\ UNCHANGED pc /\ ~Notified(q)
    BY <1>5, <2>1, <2>2
  <2>3. CASE UNCHANGED <<alive, pc>>
    BY <1>4, <2>3
  <2> QED
    BY <1>11, <2>2, <2>3 DEF Kill
<1>12. ASSUME NEW q \in Proc, NEW t \in Service, Request(q, t) \/ Answer(q, t) PROVE Serves(p, s)'
  BY <1>4, <1>12 DEF Request, Answer
<1>13. ASSUME NEW t \in Service, LeaseExpires(t) PROVE Serves(p, s)'
  BY <1>4, <1>13 DEF LeaseExpires
<1>14. CASE UNCHANGED vars
  BY <1>4, <1>14 DEF vars
<1>15. ASSUME NEW q \in Proc, NEW t \in Service, ServeFails(q, t) PROVE Serves(p, s)'
  <2>1. q # p
    BY <1>15 DEF ServeFails, TypeOK
  <2> QED
    BY <1>6, <1>15, <2>1 DEF ServeFails, Returned, PC
<1> QED
  BY <1>7, <1>8, <1>9, <1>10, <1>11, <1>12, <1>13, <1>14, <1>15 DEF Next

\* While the operator only asks for reloads and no StartServ fails a served
\* service stays served: a reload that fails, at whatever point, does no harm (server.go:31-49,
\* 177-221).
THEOREM ReloadServesOn == Spec => ReloadKeepsServing
<1>1. GraceInv /\ [Next]_vars =>
        [\A s \in Service : Served(s) /\ (\A p \in Proc : ~asked'[p]) => Served(s)']_vars
  <2> SUFFICES ASSUME GraceInv, [Next]_vars, NEW s \in Service, NEW p \in Proc, Serves(p, s),
                      \A q \in Proc : ~asked'[q]
               PROVE  Served(s)'
    BY DEF Served
  <2>1. Serves(p, s)'
    BY ServesOn
  <2> QED
    BY <2>1 DEF Served
<1> QED
  BY <1>1, GraceInvariant, PTL DEF Spec, ReloadKeepsServing
=============================================================================
