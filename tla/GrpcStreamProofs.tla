-------------------------- MODULE GrpcStreamProofs --------------------------
(***************************************************************************)
(* TLAPS proofs about GrpcStream, for any number of requests and           *)
(* responses and every interleaving of the handler, the goroutines, the    *)
(* timers and the client.                                                  *)
(***************************************************************************)
EXTENDS GrpcStream, TLAPS

-----------------------------------------------------------------------------
(* Type correctness *)

GPC == {"none", "start", "ctx", "select", "done", "timeout", "ended"}

\* The numbers of the requests, as bounds on the integers.
LEMMA Numbers ==
    ASSUME TypeOK
    PROVE  /\ received \in Nat /\ reqs \in Nat /\ MaxReq \in Nat
           /\ received <= reqs /\ reqs <= MaxReq
           /\ received \in 0 .. MaxReq
           /\ \A r \in 0 .. MaxReq : r # 0 => r \in Req
           /\ \A r \in Req : r \in 0 .. MaxReq /\ r # 0 /\ r \in Nat
BY StreamAssumption DEF TypeOK, Req

\* The elements of a sequence, and appending to it.
LEMMA Elements ==
    ASSUME NEW S, NEW q \in Seq(S)
    PROVE  Len(q) \in Nat /\ \A i \in 1 .. Len(q) : q[i] \in S
OBVIOUS

LEMMA Appended ==
    ASSUME NEW S, NEW q \in Seq(S), NEW e \in S
    PROVE  /\ Append(q, e) \in Seq(S)
           /\ Len(q) \in Nat /\ Len(Append(q, e)) = Len(q) + 1
           /\ \A i \in 1 .. Len(q) : Append(q, e)[i] = q[i] /\ q[i] \in S
           /\ Append(q, e)[Len(q) + 1] = e
OBVIOUS

\* Waking the goroutines keeps the type of their places.
LEMMA WokenType ==
    ASSUME TypeOK, NEW C PROVE Woken(C) \in [Req -> GPC]
BY DEF TypeOK, Woken, GPC

\* What the handler does keeps the types.
LEMMA HandlerType ==
    ASSUME TypeOK, RecvCall \/ SendCall \/ Return \/ RecvStep \/ SendStep
    PROVE  TypeOK'
<1> USE DEF fields, watch, client
<1>1. CASE RecvCall \/ SendCall \/ RecvFails
  BY <1>1 DEF RecvCall, SendCall, RecvFails, TypeOK
<1>2. CASE Return
  <2>1. over' \subseteq 0 .. MaxReq /\ gpc' \in [Req -> GPC]
    BY <1>2, Numbers, WokenType DEF Return, Finish, TypeOK
  <2> QED
    BY <1>2, <2>1 DEF Return, TypeOK, GPC
<1>3. CASE RecvMsg
  <2>1. received' \in 0 .. reqs /\ received' \in 0 .. MaxReq
    BY <1>3, Numbers DEF RecvMsg
  <2> QED
    BY <1>3, <2>1 DEF RecvMsg, TypeOK
<1>4. CASE Arm
  <2>1. done' \in 0 .. MaxReq
    BY <1>4, Numbers DEF Arm
  <2>2. gpc' \in [Req -> GPC]
    BY <1>4 DEF Arm, TypeOK, GPC
  <2> QED
    BY <1>4, <2>1, <2>2 DEF Arm, TypeOK, GPC
<1>5. CASE Put
  <2>1. done \in Req /\ done # 0
    BY <1>5, Numbers DEF Put, TypeOK
  <2>2. passed[done] + 1 \in Nat
    BY <2>1 DEF TypeOK
  <2>3. passed' \in [Req -> Nat]
    BY <1>5, <2>1, <2>2 DEF Put, TypeOK
  <2>4. token' \in [0 .. MaxReq -> BOOLEAN] /\ ~token'[0]
    <3>1. token' = token \/ token' = [token EXCEPT ![done] = TRUE]
      BY <1>5 DEF Put
    <3>2. token \in [0 .. MaxReq -> BOOLEAN] /\ ~token[0] /\ 0 \in 0 .. MaxReq
      BY Numbers DEF TypeOK
    <3> QED
      BY <2>1, <3>1, <3>2
  <2>5. gpc' \in [Req -> GPC]
    BY <1>5 DEF Put, TypeOK, GPC
  <2> QED
    BY <1>5, <2>3, <2>4, <2>5 DEF Put, TypeOK, GPC
<1>6. CASE Reply
  <2>1. wire' = wire \/ wire' = Append(wire, traceId)
    BY <1>6 DEF Reply
  <2>2. /\ wire \in Seq(0 .. MaxReq) /\ traceId \in 0 .. MaxReq
        /\ taken \in 0 .. Len(wire)
    BY DEF TypeOK
  <2>3. wire' \in Seq(0 .. MaxReq) /\ Len(wire) \in Nat /\ Len(wire') \in {Len(wire), Len(wire) + 1}
    <3>1. CASE wire' = wire
      BY <2>2, <3>1, Elements
    <3>2. CASE wire' = Append(wire, traceId)
      BY <2>2, <3>2, Appended
    <3> QED
      BY <2>1, <3>1, <3>2
  <2>4. taken \in 0 .. Len(wire')
    BY <2>2, <2>3
  <2>5. ctx' \in 0 .. MaxReq
    BY <1>6, Numbers DEF Reply
  <2> QED
    BY <1>6, <2>3, <2>4, <2>5 DEF Reply, TypeOK
<1> QED
  BY <1>1, <1>2, <1>3, <1>4, <1>5, <1>6 DEF RecvStep, SendStep

\* What the goroutines and the timers do keeps the types.
LEMMA WatchType ==
    ASSUME TypeOK, NEW r \in Req, Watch(r) \/ Deadline(r)
    PROVE  TypeOK'
<1> USE DEF fields, watch, client
<1>1. CASE ReadCtx(r)
  BY <1>1 DEF ReadCtx, Note, TypeOK
<1>2. CASE Select(r)
  <2>1. token' = token \/ token' = [token EXCEPT ![done] = FALSE]
    BY <1>2 DEF Select
  <2>2. token \in [0 .. MaxReq -> BOOLEAN] /\ ~token[0] /\ 0 \in 0 .. MaxReq
    BY Numbers DEF TypeOK
  <2>3. token' \in [0 .. MaxReq -> BOOLEAN] /\ ~token'[0]
    BY <2>1, <2>2
  <2> QED
    BY <1>2, <2>3 DEF Select, Note, TypeOK
<1>3. CASE Cancel(r)
  <2>1. gpc' \in [Req -> GPC]
    BY <1>3, WokenType DEF Cancel, GPC
  <2> QED
    BY <1>3, <2>1 DEF Cancel, Note, TypeOK, GPC
<1>4. CASE Panic(r)
  BY <1>4 DEF Panic, NewFromCode, TypeOK
<1>5. CASE Deadline(r)
  <2>1. over' \subseteq 0 .. MaxReq /\ gpc' \in [Req -> GPC]
    BY <1>5, Numbers, WokenType DEF Deadline, Finish, TypeOK
  <2> QED
    BY <1>5, <2>1 DEF Deadline, TypeOK, GPC
<1> QED
  BY <1>1, <1>2, <1>3, <1>4, <1>5 DEF Watch

\* What the client does keeps the types.
LEMMA ClientType ==
    ASSUME TypeOK, ClientSend \/ CloseSend \/ Abort \/ TakeFirst \/ TakeSecond
    PROVE  TypeOK'
<1> USE DEF fields, watch
<1>1. CASE ClientSend
  <2>1. reqs' \in 0 .. MaxReq /\ received \in 0 .. reqs'
    BY <1>1, Numbers DEF ClientSend
  <2> QED
    BY <1>1, <2>1 DEF ClientSend, TypeOK
<1>2. CASE CloseSend
  BY <1>2 DEF CloseSend, TypeOK
<1>3. CASE Abort
  <2>1. over' \subseteq 0 .. MaxReq /\ gpc' \in [Req -> GPC]
    BY <1>3, Numbers, WokenType DEF Abort, Finish, TypeOK
  <2> QED
    BY <1>3, <2>1 DEF Abort, TypeOK, GPC, client
<1>4. wire \in Seq(0 .. MaxReq) /\ got \in Seq(0 .. MaxReq) /\ taken \in 0 .. Len(wire)
  BY DEF TypeOK
<1>5. CASE TakeFirst
  <2>1. taken' \in 0 .. Len(wire')
    BY <1>4, <1>5 DEF TakeFirst
  <2> QED
    BY <1>5, <2>1 DEF TakeFirst, TypeOK
<1>6. CASE TakeSecond
  <2>1. \/ taken < Len(wire) /\ taken' = taken + 1 /\ got' = Append(got, wire[taken'])
        \/ UNCHANGED <<taken, got>>
    BY <1>6 DEF TakeSecond
  <2>2. Len(wire) \in Nat
    BY <1>4
  <2>3. taken' \in 0 .. Len(wire) /\ (taken' # taken => taken' \in 1 .. Len(wire))
    BY <1>4, <2>1, <2>2
  <2>4. \A i \in 1 .. Len(wire) : wire[i] \in 0 .. MaxReq
    BY <1>4, Elements
  <2>5. got' \in Seq(0 .. MaxReq)
    <3>1. CASE UNCHANGED <<taken, got>>
      BY <1>4, <3>1
    <3>2. CASE taken < Len(wire) /\ taken' = taken + 1 /\ got' = Append(got, wire[taken'])
      <4>1. wire[taken'] \in 0 .. MaxReq
        BY <1>4, <2>2, <2>3, <2>4, <3>2
      <4> QED
        BY <1>4, <3>2, <4>1, Appended
    <3> QED
      BY <2>1, <3>1, <3>2
  <2> QED
    BY <1>6, <2>3, <2>5 DEF TakeSecond, TypeOK
<1> QED
  BY <1>1, <1>2, <1>3, <1>5, <1>6

\* Every step keeps the types.
LEMMA TypeStep == TypeOK /\ [Next]_vars => TypeOK'
<1> SUFFICES ASSUME TypeOK, [Next]_vars PROVE TypeOK'
  OBVIOUS
<1>1. CASE UNCHANGED vars
  BY <1>1 DEF TypeOK, vars, fields, watch, client
<1> QED
  BY <1>1, HandlerType, WatchType, ClientType DEF Next

\* Every reachable state is well typed: in particular no token is ever in the
\* nil channel, and the client never takes a response that was not sent.
THEOREM TypeCorrect == Spec => []TypeOK
<1>1. Init => TypeOK
  BY StreamAssumption DEF Init, TypeOK, Req
<1> QED
  BY <1>1, TypeStep, PTL DEF Spec

-----------------------------------------------------------------------------
(* Why the process may die *)

\* What the comment of PanicExplained allows for.
Excused == expired \/ IsDone(0) \/ overtaken

\* The fields of the stream are those of the last request.
FieldsCurrent == cancel = received /\ ctx \in {0, received}

\* The goroutines that were started are those of the requests received, less
\* the last one while RecvMsg has not started it.
Started ==
    \A r \in Req :
        gpc[r] # "none" => r <= received /\ ~(hpc = "arm" /\ r = received)

\* While nothing excuses it no goroutine is at the timeout, each waits for
\* the stream's context or its own, and its own ends only with it.
OwnContext ==
    Excused \/ \A r \in Req : /\ gpc[r] # "timeout"
                              /\ gctx[r] \in {0, r}
                              /\ r \in over => gpc[r] = "ended"

PanicInv == TypeOK /\ FieldsCurrent /\ Started /\ OwnContext /\ PanicExplained

\* The excuses last.
LEMMA ExcuseLasts == TypeOK /\ [Next]_vars /\ Excused => Excused'
BY DEF TypeOK, Excused, IsDone, Next, vars, fields, watch, client, RecvCall, SendCall, Return,
       RecvStep, RecvMsg, Arm, RecvFails, SendStep, Put, Reply, Watch, ReadCtx, Select, Cancel,
       Panic, Deadline, ClientSend, CloseSend, Abort, TakeFirst, TakeSecond, Finish, Note

\* The fields and the goroutines stay in step with the requests.
LEMMA FieldsStep ==
    TypeOK /\ FieldsCurrent /\ Started /\ [Next]_vars => FieldsCurrent' /\ Started'
<1> SUFFICES ASSUME TypeOK, FieldsCurrent, Started, [Next]_vars
             PROVE  FieldsCurrent' /\ Started'
  OBVIOUS
<1> USE DEF TypeOK, FieldsCurrent, Started, Req, fields, watch, client
<1>1. CASE RecvCall \/ SendCall \/ RecvFails \/ Reply
  BY <1>1 DEF RecvCall, SendCall, RecvFails, Reply
<1>2. CASE Return \/ Abort
  BY <1>2 DEF Return, Abort, Finish, Woken
<1>3. CASE RecvMsg
  BY <1>3 DEF RecvMsg
<1>4. CASE Arm
  BY <1>4 DEF Arm
<1>5. CASE Put
  BY <1>5 DEF Put, Waiting
<1>6. ASSUME NEW r \in Req, Watch(r) \/ Deadline(r) PROVE FieldsCurrent' /\ Started'
  BY <1>6 DEF Watch, ReadCtx, Select, Cancel, Panic, Deadline, Finish, Woken
<1>7. CASE ClientSend \/ CloseSend \/ TakeFirst \/ TakeSecond
  BY <1>7 DEF ClientSend, CloseSend, TakeFirst, TakeSecond
<1>8. CASE UNCHANGED vars
  BY <1>8 DEF vars
<1> QED
  BY <1>1, <1>2, <1>3, <1>4, <1>5, <1>6, <1>7, <1>8 DEF Next, RecvStep, SendStep

\* Without an excuse every goroutine still waits for its own context.
LEMMA ContextStep == PanicInv /\ [Next]_vars => OwnContext'
<1> SUFFICES ASSUME PanicInv, [Next]_vars, ~Excused' PROVE OwnContext'
  BY DEF OwnContext
<1> USE DEF PanicInv
<1>1. ~Excused
  BY ExcuseLasts
<1>2. \A r \in Req : gpc[r] # "timeout" /\ gctx[r] \in {0, r}
                     /\ (r \in over => gpc[r] = "ended")
  BY <1>1 DEF OwnContext
<1>3. ~expired' /\ ~overtaken' /\ 0 \notin over' /\ 0 \notin over
  BY <1>1 DEF Excused, IsDone
<1>4. SUFFICES \A r \in Req : gpc'[r] # "timeout" /\ gctx'[r] \in {0, r}
                              /\ (r \in over' => gpc'[r] = "ended")
  BY DEF OwnContext
<1> USE DEF fields, watch, client
<1>5. CASE RecvCall \/ SendCall \/ RecvFails \/ Reply \/ RecvMsg
  BY <1>2, <1>5 DEF RecvCall, SendCall, RecvFails, Reply, RecvMsg
<1>6. CASE Return \/ Abort
  BY <1>3, <1>6 DEF Return, Abort, Finish
<1>7. CASE Arm
  <2>1. received \in Req => gpc[received] = "none"
    BY <1>7 DEF Arm, Started
  <2> QED
    BY <1>2, <1>7, <2>1 DEF Arm, TypeOK
<1>8. CASE Put
  BY <1>2, <1>8 DEF Put, Waiting, TypeOK
<1>9. ASSUME NEW r \in Req, ReadCtx(r) PROVE \A q \in Req : gctx'[q] \in {0, q}
  <2>1. received = r
    <3>1. ~(received > r) /\ gpc[r] = "start"
      BY <1>3, <1>9 DEF ReadCtx, Note
    <3>2. r <= received
      BY <3>1 DEF Started
    <3> QED
      BY <3>1, <3>2, Numbers
  <2> QED
    BY <1>2, <1>9, <2>1 DEF ReadCtx, FieldsCurrent, TypeOK
<1>10. ASSUME NEW r \in Req, Watch(r) \/ Deadline(r)
       PROVE  \A q \in Req : gpc'[q] # "timeout" /\ gctx'[q] \in {0, q}
                             /\ (q \in over' => gpc'[q] = "ended")
  <2>1. CASE ReadCtx(r)
    BY <1>2, <1>9, <2>1 DEF ReadCtx, TypeOK
  <2>2. CASE Select(r)
    <3>1. ~IsDone(gctx[r])
      BY <1>2, <1>3, <2>2 DEF Select, IsDone
    <3> QED
      BY <1>2, <2>2, <3>1 DEF Select, TypeOK
  <2>3. CASE Cancel(r)
    <3>1. cancel = r /\ r # 0
      <4>1. ~(received > r) /\ gpc[r] = "done"
        BY <1>3, <2>3 DEF Cancel, Note
      <4>2. r <= received
        BY <4>1 DEF Started
      <4> QED
        BY <4>1, <4>2, Numbers DEF FieldsCurrent
    <3>2. gpc[r] = "done" /\ gpc' = [Woken({r}) EXCEPT ![r] = "ended"] /\ over' = over \cup {r}
      BY <2>3, <3>1 DEF Cancel
    <3>3. ASSUME NEW q \in Req, q # r PROVE gpc'[q] = gpc[q]
      BY <1>2, <3>1, <3>2, <3>3 DEF Woken
    <3>4. gpc'[r] = "ended"
      BY <3>2 DEF Woken
    <3> QED
      BY <1>2, <2>3, <3>2, <3>3, <3>4 DEF Cancel
  <2>4. CASE Panic(r)
    BY <1>2, <2>4 DEF Panic
  <2>5. CASE Deadline(r)
    BY <1>3, <2>5 DEF Deadline
  <2> QED
    BY <1>10, <2>1, <2>2, <2>3, <2>4, <2>5 DEF Watch
<1>11. CASE ClientSend \/ CloseSend \/ TakeFirst \/ TakeSecond
  BY <1>2, <1>11 DEF ClientSend, CloseSend, TakeFirst, TakeSecond
<1>12. CASE UNCHANGED vars
  BY <1>2, <1>12 DEF vars
<1> QED
  BY <1>5, <1>6, <1>7, <1>8, <1>10, <1>11, <1>12 DEF Next, RecvStep, SendStep

\* A panic is that of a goroutine at the timeout.
LEMMA PanicStep == PanicInv /\ [Next]_vars => PanicExplained'
<1> SUFFICES ASSUME PanicInv, [Next]_vars, panicked' PROVE Excused'
  BY DEF PanicExplained, Excused
<1>1. CASE panicked
  BY <1>1, ExcuseLasts DEF PanicInv, PanicExplained, Excused
<1>2. CASE ~panicked
  <2>1. PICK r \in Req : gpc[r] = "timeout"
    BY <1>2 DEF Next, vars, fields, watch, client, RecvCall, SendCall, Return, RecvStep, RecvMsg,
       Arm, RecvFails, SendStep, Put, Reply, Watch, ReadCtx, Select, Cancel, Panic, Deadline,
       ClientSend, CloseSend, Abort, TakeFirst, TakeSecond
  <2>2. Excused
    BY <2>1 DEF PanicInv, OwnContext
  <2> QED
    BY <2>2, ExcuseLasts DEF PanicInv
<1> QED
  BY <1>1, <1>2

\* The process dies of a stream only if a processing time ran out, the stream
\* was over or a goroutine acted after a later RecvMsg (grpc.go:79, 103,
\* 122-136).
THEOREM PanicIsExplained == Spec => []PanicExplained
<1>1. Init => PanicInv
  <2>1. Init => TypeOK
    BY StreamAssumption DEF Init, TypeOK, Req
  <2> QED
    BY <2>1 DEF Init, PanicInv, FieldsCurrent, Started, OwnContext, PanicExplained, Req
<1>2. PanicInv /\ [Next]_vars => PanicInv'
  BY TypeStep, FieldsStep, ContextStep, PanicStep DEF PanicInv
<1>3. PanicInv => PanicExplained
  BY DEF PanicInv
<1> QED
  BY <1>1, <1>2, <1>3, PTL DEF Spec
=============================================================================
