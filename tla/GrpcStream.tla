----------------------------- MODULE GrpcStream -----------------------------
(***************************************************************************)
(* One gRPC stream with the wrappers both ends put around it: GrpcStream   *)
(* of components/grpc/server on the server, which starts a goroutine that  *)
(* watches the processing time of every request, and clientStream of       *)
(* components/grpc/client on the client.                                   *)
(*                                                                         *)
(* RecvMsg keeps context, cancel function and channel of the request in    *)
(* the stream itself and overwrites them at the next request; the          *)
(* goroutines read these fields without a lock when they get to run.       *)
(* Contexts, cancel functions, channels and goroutines carry the number of *)
(* the request they were made for; context 0 is that of the stream and     *)
(* channel 0 is nil.                                                       *)
(*                                                                         *)
(* The service's handler and the client program are not in the repository: *)
(* each is one goroutine that makes any calls of the stream in any order.  *)
(***************************************************************************)
EXTENDS Naturals, Sequences

CONSTANTS MaxReq,   \* bound: requests the client sends
          MaxResp   \* bound: responses the handler sends

ASSUME StreamAssumption == MaxReq \in Nat \ {0} /\ MaxResp \in Nat \ {0}

VARIABLES ctx,       \* s.ctx
          cancel,    \* s.cancel
          done,      \* s.processingDone
          token,     \* token[r]: the buffer of r's channel is full
          over,      \* the contexts that are done
          traceId,   \* md["trace_id"], one map for all contexts of the stream
          hpc,       \* where the handler is
          received,  \* requests RecvMsg took from the stream
          passed,    \* passed[r]: SendMsg calls that put into r's channel
          gpc,       \* gpc[r]: where r's goroutine is
          gctx,      \* gctx[r]: the context its select waits for
          gdone,     \* gdone[r]: the channel its select waits for
          panicked,  \* the server process died of a panic
          reqs,      \* requests the client sent
          closed,    \* the client called CloseSend
          cpc,       \* where the client's RecvMsg is
          wire,      \* the responses sent, as the trace ids they carry
          taken,     \* how many of them the client's end has taken
          got,       \* the responses the client's RecvMsg returned
          expired,   \* history: a processing time ran out
          overtaken  \* history: a goroutine acted after a later RecvMsg

fields == <<ctx, cancel, done>>
watch == <<gpc, gctx, gdone>>
client == <<reqs, closed, cpc, taken, got>>
vars == <<fields, token, over, traceId, hpc, received, passed, watch, panicked,
          client, wire, expired, overtaken>>

Req == 1 .. MaxReq
Live == ~panicked

\* A context is done when it was cancelled, timed out, or its parent is done.
IsDone(c) == c \in over \/ 0 \in over

\* Where the goroutines are once the contexts in C are done: a select that
\* waits for one of them takes that case.
Woken(C) ==
    [r \in Req |-> IF gpc[r] = "select" /\ (gctx[r] \in C \/ 0 \in C) THEN "timeout"
                   ELSE gpc[r]]

Finish(C) == over' = over \cup C /\ gpc' = Woken(C)

-----------------------------------------------------------------------------
(* The server: GrpcStream *)

RecvCall ==
    /\ Live /\ hpc = "handler"
    /\ hpc' = "recv"
    /\ UNCHANGED <<fields, token, over, traceId, received, passed, watch, panicked, client,
                   wire, expired, overtaken>>

\* The first half of RecvMsg: a message is there, the context and the cancel
\* function of its request replace the former ones.
RecvMsg ==
    /\ Live /\ hpc = "recv" /\ received < reqs
    /\ received' = received + 1
    /\ ctx' = received'
    /\ cancel' = received'
    /\ traceId' = received'
    /\ hpc' = "arm"
    /\ UNCHANGED <<done, token, over, passed, watch, panicked, client, wire, expired,
                   overtaken>>

\* The second half: a channel with room for one token, and the goroutine.
Arm ==
    /\ Live /\ hpc = "arm"
    /\ done' = received
    /\ gpc' = [gpc EXCEPT ![received] = "start"]
    /\ hpc' = "handler"
    /\ UNCHANGED <<ctx, cancel, token, over, traceId, received, passed, gctx, gdone, panicked,
                   client, wire, expired, overtaken>>

\* RecvMsg returns the error: no message and the stream is over or half closed.
RecvFails ==
    /\ Live /\ hpc = "recv"
    /\ IsDone(0) \/ (closed /\ received = reqs)
    /\ hpc' = "handler"
    /\ UNCHANGED <<fields, token, over, traceId, received, passed, watch, panicked, client,
                   wire, expired, overtaken>>

SendCall ==
    /\ Live /\ hpc = "handler" /\ Len(wire) < MaxResp
    /\ hpc' = "put"
    /\ UNCHANGED <<fields, token, over, traceId, received, passed, watch, panicked, client,
                   wire, expired, overtaken>>

Waiting == {r \in Req : gpc[r] = "select" /\ gdone[r] = done}

\* Mutant: the channel is made without a buffer.
PutMutant ==
    /\ Live /\ hpc = "put" /\ done # 0
    /\ \E r \in Waiting : gpc' = [gpc EXCEPT ![r] = "done"]
    /\ passed' = [passed EXCEPT ![done] = @ + 1]
    /\ hpc' = "reply"
    /\ UNCHANGED <<fields, token, over, traceId, received, gctx, gdone, panicked, client, wire,
                   expired, overtaken>>

\* SendMsg puts 1 into the channel of the last request: a select that waits
\* for it takes the value, otherwise it stays in the buffer, and SendMsg is
\* blocked while the buffer is full or the channel is nil.
Put ==
    /\ Live /\ hpc = "put" /\ done # 0
    /\ \/ \E r \in Waiting : gpc' = [gpc EXCEPT ![r] = "done"] /\ UNCHANGED token
       \/ /\ Waiting = {} /\ ~token[done]
          /\ token' = [token EXCEPT ![done] = TRUE]
          /\ UNCHANGED gpc
    /\ passed' = [passed EXCEPT ![done] = @ + 1]
    /\ hpc' = "reply"
    /\ UNCHANGED <<fields, over, traceId, received, gctx, gdone, panicked, client, wire,
                   expired, overtaken>>

\* Mutant: SendMsg releases the timer of the request itself.
ReplyMutant ==
    /\ Live /\ hpc = "reply"
    /\ ctx' = 0
    /\ Finish({cancel})
    /\ wire' = IF IsDone(0) THEN wire ELSE Append(wire, traceId)
    /\ hpc' = "handler"
    /\ UNCHANGED <<cancel, done, token, traceId, received, passed, gctx, gdone, panicked,
                   client, expired, overtaken>>

\* The rest of SendMsg: the response is stamped and sent, and the context is
\* the stream's again.
Reply ==
    /\ Live /\ hpc = "reply"
    /\ ctx' = 0
    /\ wire' = IF IsDone(0) THEN wire ELSE Append(wire, traceId)
    /\ hpc' = "handler"
    /\ UNCHANGED <<cancel, done, token, over, traceId, received, passed, watch, panicked,
                   client, expired, overtaken>>

\* The handler returns: grpc cancels the stream's context.
Return ==
    /\ Live /\ hpc = "handler"
    /\ hpc' = "returned"
    /\ Finish({0})
    /\ UNCHANGED <<fields, token, traceId, received, passed, gctx, gdone, panicked, client,
                   wire, expired, overtaken>>

-----------------------------------------------------------------------------
(* The goroutine of request r *)

Note(r) == overtaken' = (overtaken \/ received > r)

\* Mutant: the goroutine waits for the context of the stream.
ReadCtxMutant(r) ==
    /\ Live /\ gpc[r] = "start"
    /\ gctx' = [gctx EXCEPT ![r] = 0]
    /\ gpc' = [gpc EXCEPT ![r] = "ctx"]
    /\ Note(r)
    /\ UNCHANGED <<fields, token, over, traceId, hpc, received, passed, gdone, panicked, client,
                   wire, expired>>

\* select evaluates s.ctx.Done() ...
ReadCtx(r) ==
    /\ Live /\ gpc[r] = "start"
    /\ gctx' = [gctx EXCEPT ![r] = ctx]
    /\ gpc' = [gpc EXCEPT ![r] = "ctx"]
    /\ Note(r)
    /\ UNCHANGED <<fields, token, over, traceId, hpc, received, passed, gdone, panicked, client,
                   wire, expired>>

\* ... then s.processingDone, and takes any case that is ready, or waits.
Select(r) ==
    /\ Live /\ gpc[r] = "ctx"
    /\ gdone' = [gdone EXCEPT ![r] = done]
    /\ \/ /\ IsDone(gctx[r])
          /\ gpc' = [gpc EXCEPT ![r] = "timeout"]
          /\ UNCHANGED token
       \/ /\ token[done]
          /\ token' = [token EXCEPT ![done] = FALSE]
          /\ gpc' = [gpc EXCEPT ![r] = "done"]
       \/ /\ ~IsDone(gctx[r]) /\ ~token[done]
          /\ gpc' = [gpc EXCEPT ![r] = "select"]
          /\ UNCHANGED token
    /\ Note(r)
    /\ UNCHANGED <<fields, over, traceId, hpc, received, passed, gctx, panicked, client, wire,
                   expired>>

\* The handler was in time: s.cancel(), of whatever request is current now.
Cancel(r) ==
    /\ Live /\ gpc[r] = "done"
    /\ over' = over \cup {cancel}
    /\ gpc' = [Woken({cancel}) EXCEPT ![r] = "ended"]
    /\ Note(r)
    /\ UNCHANGED <<fields, token, traceId, hpc, received, passed, gctx, gdone, panicked, client,
                   wire, expired>>

\* errors.NewFromCode asserts that the code has a String method; CommonError
\* has none, so it panics, and in a goroutine nobody recovers.
NewFromCode == panicked' = TRUE

\* The context is done: the timeout response is never put together.
Panic(r) ==
    /\ Live /\ gpc[r] = "timeout"
    /\ NewFromCode
    /\ UNCHANGED <<fields, token, over, traceId, hpc, received, passed, watch, client, wire,
                   expired, overtaken>>

\* The processing time of request r is over.
Deadline(r) ==
    /\ Live /\ r <= received /\ ~IsDone(r)
    /\ Finish({r})
    /\ expired' = TRUE
    /\ UNCHANGED <<fields, token, traceId, hpc, received, passed, gctx, gdone, panicked, client,
                   wire, overtaken>>

-----------------------------------------------------------------------------
(* The client: clientStream *)

ClientSend ==
    /\ ~closed /\ reqs < MaxReq
    /\ reqs' = reqs + 1
    /\ UNCHANGED <<fields, token, over, traceId, hpc, received, passed, watch, panicked, closed,
                   cpc, wire, taken, got, expired, overtaken>>

CloseSend ==
    /\ ~closed
    /\ closed' = TRUE
    /\ UNCHANGED <<fields, token, over, traceId, hpc, received, passed, watch, panicked, reqs,
                   cpc, wire, taken, got, expired, overtaken>>

\* The client gives up, or its connection breaks.
Abort ==
    /\ Live /\ ~IsDone(0)
    /\ Finish({0})
    /\ UNCHANGED <<fields, token, traceId, hpc, received, passed, gctx, gdone, panicked, client,
                   wire, expired, overtaken>>

\* Mutant: the end of the stream is taken for one more response.
TakeFirstMutant ==
    /\ cpc = "idle" /\ (taken < Len(wire) \/ IsDone(0))
    /\ taken' = taken + 1
    /\ cpc' = "again"
    /\ UNCHANGED <<fields, token, over, traceId, hpc, received, passed, watch, panicked, reqs,
                   closed, wire, got, expired, overtaken>>

\* RecvMsg takes a response into m ...
TakeFirst ==
    /\ cpc = "idle" /\ taken < Len(wire)
    /\ taken' = taken + 1
    /\ cpc' = "again"
    /\ UNCHANGED <<fields, token, over, traceId, hpc, received, passed, watch, panicked, reqs,
                   closed, wire, got, expired, overtaken>>

\* ... and then calls g.RecvMsg(m) once more, which overwrites it, or fails
\* with the error of a stream that is over.
TakeSecond ==
    /\ cpc = "again"
    /\ IF taken < Len(wire)
       THEN taken' = taken + 1 /\ got' = Append(got, wire[taken'])
       ELSE (IsDone(0) \/ panicked) /\ UNCHANGED <<taken, got>>
    /\ cpc' = "idle"
    /\ UNCHANGED <<fields, token, over, traceId, hpc, received, passed, watch, panicked, reqs,
                   closed, wire, expired, overtaken>>

-----------------------------------------------------------------------------
\* New and NewStream: no request yet, so no channel and no cancel function.
Init ==
    /\ ctx = 0 /\ cancel = 0 /\ done = 0
    /\ token = [r \in 0 .. MaxReq |-> FALSE]
    /\ over = {}
    /\ traceId = 0
    /\ hpc = "handler" /\ received = 0
    /\ passed = [r \in Req |-> 0]
    /\ gpc = [r \in Req |-> "none"]
    /\ gctx = [r \in Req |-> 0] /\ gdone = [r \in Req |-> 0]
    /\ panicked = FALSE
    /\ reqs = 0 /\ closed = FALSE /\ cpc = "idle"
    /\ wire = <<>> /\ taken = 0 /\ got = <<>>
    /\ expired = FALSE /\ overtaken = FALSE

RecvStep == RecvMsg \/ Arm \/ RecvFails
SendStep == Put \/ Reply
Watch(r) == ReadCtx(r) \/ Select(r) \/ Cancel(r) \/ Panic(r)

Next ==
    \/ RecvCall \/ SendCall \/ Return \/ RecvStep \/ SendStep
    \/ \E r \in Req : Watch(r) \/ Deadline(r)
    \/ ClientSend \/ CloseSend \/ Abort \/ TakeFirst \/ TakeSecond

\* Goroutines run and timers fire; which calls the handler and the client
\* make is up to them.
Fairness ==
    /\ WF_vars(RecvStep) /\ WF_vars(SendStep)
    /\ \A r \in Req : WF_vars(Watch(r)) /\ WF_vars(Deadline(r))

Spec == Init /\ [][Next]_vars /\ Fairness

-----------------------------------------------------------------------------
(* Properties *)

\* Every variable has its type; a channel has its token from SendMsg only.
TypeOK ==
    /\ ctx \in 0 .. MaxReq /\ cancel \in 0 .. MaxReq /\ done \in 0 .. MaxReq
    /\ token \in [0 .. MaxReq -> BOOLEAN] /\ ~token[0]
    /\ over \subseteq 0 .. MaxReq /\ traceId \in 0 .. MaxReq
    /\ hpc \in {"handler", "recv", "arm", "put", "reply", "returned"}
    /\ received \in 0 .. reqs /\ reqs \in 0 .. MaxReq
    /\ passed \in [Req -> Nat]
    /\ gpc \in [Req -> {"none", "start", "ctx", "select", "done", "timeout", "ended"}]
    /\ gctx \in [Req -> 0 .. MaxReq] /\ gdone \in [Req -> 0 .. MaxReq]
    /\ panicked \in BOOLEAN /\ closed \in BOOLEAN
    /\ expired \in BOOLEAN /\ overtaken \in BOOLEAN
    /\ cpc \in {"idle", "again"}
    /\ wire \in Seq(0 .. MaxReq) /\ got \in Seq(0 .. MaxReq)
    /\ taken \in 0 .. Len(wire)

\* The process does not die of this stream as long as no processing time
\* runs out, the stream is not over, and every goroutine finishes before the
\* next RecvMsg (grpc.go:79, 103, 122-136).
PanicExplained == panicked => expired \/ IsDone(0) \/ overtaken

\* The first two responses to a request get out, or the process dies: only
\* a third one, or one before the first request, can block for ever
\* (grpc.go:79, 118, 134).
SendsGetOut ==
    \A r \in Req :
        hpc = "put" /\ done = r /\ passed[r] < 2 ~> hpc # "put" \/ panicked

\* A request is answered, or a later one is received, or its processing time
\* is noticed: the handler cannot sit on a request unseen (grpc.go:103,
\* 122-124).
RequestEnds ==
    \A r \in Req :
        received = r /\ passed[r] = 0 ~> received # r \/ passed[r] # 0 \/ panicked
=============================================================================
