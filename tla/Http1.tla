-------------------------------- MODULE Http1 --------------------------------
(***************************************************************************)
(* The HTTP/1 dispatcher, ntex/src/http/h1/dispatcher.rs: one task per     *)
(* connection that reads requests, asks a control service about them,      *)
(* calls the application, feeds the request's payload to it, writes the    *)
(* response and its body, and ends with at most one disconnect message     *)
(* and the shutdown of the transport.                                      *)
(*                                                                         *)
(* Everything runs on one thread.  A poll of the dispatcher is a sequence  *)
(* of steps during which nothing else happens: pc is "idle" between two    *)
(* polls, "run" at the loop of Dispatcher::poll, "payload" in the loop of  *)
(* poll_request_payload_inner(), "return" where that has returned, and     *)
(* "send" in the loop of poll_send_payload().                              *)
(*                                                                         *)
(* The input is a sequence of tokens: request heads by kind, "part" of a   *)
(* head, "data" and the "end" of a payload, and "bad" bytes.  The peer     *)
(* sends the script of a scenario, one token at a time, and may go silent. *)
(***************************************************************************)
EXTENDS Http1Timers, Sequences

CONSTANT Scenarios  \* what the peer, the services and the filters may do

\* "both" is a request with an expectation and an upgrade.
Expecting == {"expect", "both"}
Upgrading == {"upgrade", "both"}
Bodied == {"post", "fixed"} \cup Expecting \cup Upgrading
Heads == Bodied \cup {"get", "bye"}
Tokens == Heads \cup {"part", "data", "end", "bad"}
Limits == {"headers", "payload", "write", "keepalive"}
Replies == {"empty", "last", "body", "broken", "err"}

\* Tokens of a payload follow the head of its request.
Carried(s, i) ==
  \E j \in 1..(i - 1) : s[j] \in Bodied /\ \A k \in (j + 1)..(i - 1) : s[k] = "data"
AtHead(s) == \A i \in 1..Len(s) : s[i] \in {"data", "end"} => Carried(s, i)

\* What a peer sends, how it ends, how often the environment interferes, which timeouts
\* are configured and how the application answers.
ScenarioType ==
  [script : Seq(Tokens), end : {"silent", "eof", "gone"}, control : BOOLEAN, rejects : BOOLEAN,
   fills : Nat, busy : Nat, pauses : Nat, shutdown : BOOLEAN, half : BOOLEAN,
   limits : SUBSET Limits, budget : Nat, replies : SUBSET Replies]

ASSUME Http1Assumption ==
  Scenarios \subseteq ScenarioType /\ \A s \in Scenarios : AtHead(s.script)

VARIABLES
  st,     \* State of the dispatcher
  inner,  \* DispatcherInner: disconnect, payload and its pending error, the codec
  tm,     \* Timers
  io,     \* the transport as the dispatcher sees it
  rx,     \* the payload stream of the last request with one
  fut,    \* the call or the body that the state waits for
  log,    \* history: what was read, written and reported
  pc, pl, \* where the poll is, and the locals of poll_request_payload_inner()
  woken,  \* the task is scheduled
  svc,    \* readiness of the application
  env,    \* what is left of the scenario
  sc      \* the scenario

disp == <<st, inner, tm, io, rx, fut, log, woken>>
vars == <<disp, pc, pl, svc, env, sc>>

NoPayload == [alive |-> FALSE, end |-> "none", full |-> FALSE, task |-> FALSE, whole |-> FALSE]
Call(what) == [what |-> what, res |-> "pending", chunks |-> 0]

Conn(s) ==
  [st |-> "read", woken |-> TRUE, sc |-> s, tm |-> NoTimers,
   inner |-> [disc |-> "none", pend |-> "none", started |-> FALSE, pay |-> FALSE, complete |-> FALSE,
              keep |-> "keepalive" \in s.limits, kind |-> "none", hdrs |-> FALSE],
   io |-> [phase |-> "active", eof |-> FALSE, in |-> <<>>, paused |-> FALSE, filter |-> FALSE,
           full |-> FALSE, drained |-> FALSE, waker |-> FALSE, timer |-> "none",
           timeout |-> FALSE, for |-> <<"none", 0>>, exp |-> <<"none", 0>>],
   rx |-> NoPayload, fut |-> Call("none"),
   log |-> [reqs |-> 0, resp |-> 0, open |-> FALSE, mixed |-> FALSE, told |-> 0,
            stale |-> FALSE, misread |-> FALSE]]

Ctx == [st |-> st, woken |-> woken, sc |-> sc, tm |-> tm, inner |-> inner, io |-> io,
        rx |-> rx, fut |-> fut, log |-> log]

Becomes(next) ==
  \E c \in {next} :
    /\ st' = c.st /\ woken' = c.woken /\ tm' = c.tm /\ inner' = c.inner /\ io' = c.io
    /\ rx' = c.rx /\ fut' = c.fut /\ log' = c.log

Init ==
  /\ sc \in Scenarios
  /\ LET c == NewTimers(Conn(sc))
     IN /\ st = c.st /\ woken = c.woken /\ tm = c.tm /\ inner = c.inner /\ io = c.io
        /\ rx = c.rx /\ fut = c.fut /\ log = c.log
  /\ pc = "idle" /\ pl = [hold |-> "none", updated |-> FALSE, res |-> "none"]
  /\ svc = "ready"
  /\ env = [left |-> sc.script, fills |-> sc.fills, busy |-> sc.busy, pauses |-> sc.pauses,
            shutdown |-> FALSE]

\* The loop of the poll goes on with the next state, or the poll is pending.
Goes(c) == Becomes(c) /\ pc' = "run" /\ UNCHANGED <<pl, svc, env, sc>>
Waits(c) == Becomes(c) /\ pc' = "idle" /\ UNCHANGED <<pl, svc, env, sc>>

Registered(c) == [c EXCEPT !.io.waker = TRUE]
Active(c) == c.io.phase = "active"
Gone(c) == c.io.phase = "gone"
Close(c) == IF Active(c) THEN [c EXCEPT !.io.phase = "closing"] ELSE c

-----------------------------------------------------------------------------
(* Control messages *)

\* Without a control service the default action is applied at once.
Control(c, msg) ==
  [c EXCEPT !.st = "control",
            !.fut = [Call(msg) EXCEPT !.res = IF c.sc.control THEN "pending" ELSE "ack"]]

Stop(c) == [StopTimers(c) EXCEPT !.st = "stop"]

SetDisconnect(c) ==
  IF c.inner.disc = "sent" THEN c ELSE [c EXCEPT !.inner.disc = "pending"]

CtlDisconnect(c, msg) ==
  IF c.inner.disc = "sent" THEN Stop(c)
  ELSE Control([c EXCEPT !.inner.disc = "sent", !.log.told = @ + 1], msg)

CheckDisconnect(c) ==
  IF c.inner.disc = "sent" THEN Stop(c)
  ELSE Control([c EXCEPT !.inner.disc = "sent", !.log.told = @ + 1], "service")

CtlPeerGone(c) == CtlDisconnect(c, "gone")
CtlProtoErr(c) == CtlDisconnect(c, "proto")
CtlError(c) == CtlDisconnect(c, "error")
CtlKeepAlive(c) == CtlDisconnect(c, "keepalive")
CtlSvcDisconnect(c) == CtlDisconnect(c, "service")

CtlPayloadErr(c, failure) == IF failure = "proto" THEN CtlProtoErr(c) ELSE CtlPeerGone(c)

TakePayloadError(c) ==
  CtlPayloadErr([c EXCEPT !.inner.pend = "none"], c.inner.pend)

-----------------------------------------------------------------------------
(* Payload stream and timeouts *)

\* The sender ends the stream, unless the receiver is gone.  An error is read
\* before the end, and both sides are woken: the dispatcher waits for a stream it fed.
EndStream(c, end) ==
  IF ~c.inner.pay \/ ~c.rx.alive THEN c
  ELSE [c EXCEPT !.rx.end = IF @ = "error" THEN @ ELSE end, !.woken = @ \/ c.rx.task,
                 !.rx.task = FALSE]

SetError(c) == EndStream(c, "error")
FeedEof(c) == EndStream(c, "eof")

\* Drop of the sender: a stream that is not ended otherwise ends regularly.
DropSender(c) == [EndStream(c, "eof") EXCEPT !.inner.pay = FALSE]

\* Mutant: the sender is dropped without an error.
SetPayloadErrorDrops(c) == DropSender(c)

SetPayloadError(c) == DropSender(SetError(c))

\* The dispatcher completes and is dropped with what it holds.
DropDispatcher(c) == [SetPayloadError(c) EXCEPT !.st = "done"]

\* The expiry that is acted on was not the one of a timer started for this.
Late(c, purpose) == [c EXCEPT !.log.stale = @ \/ c.io.exp # purpose]

\* write_timer_expired(): Ok or an error.
WriteTimerFails(c) == c.io.full /\ ~c.io.filter
WriteTimerExpired(c) ==
  IF WriteTimerFails(c) THEN SetPayloadError(Late(c, <<"Write", 0>>))
  ELSE IF c.io.full THEN StartWrite(c)
  ELSE StopWrite(c)

ReleaseWrite(c) == IF IsWrite(c) /\ ~c.io.full THEN StopWrite(c) ELSE c

\* poll_flush_timed(): "ok", "pending" or "failed".  Nothing drains during a poll.
FlushResult(c) ==
  LET w == StartWrite(c)
  IN IF Gone(c) THEN "failed"
     ELSE IF ~c.io.full \/ c.io.drained THEN "ok"
     ELSE IF IsWrite(w) /\ w.io.timeout /\ ~w.io.filter THEN "failed"
     ELSE "pending"

FlushTimed(c) ==
  LET w == Registered(StartWrite(c))
      expired == [w EXCEPT !.io.timeout = FALSE]
  IN IF Gone(c) THEN StopWrite(c)
     ELSE IF ~c.io.full \/ c.io.drained THEN StopWrite([c EXCEPT !.io.full = FALSE])
     ELSE IF IsWrite(w) /\ w.io.timeout THEN WriteTimerExpired(expired)
     ELSE w

\* handle_timeout() fails a head or a payload that comes too slowly.
TimesOut(c, enough) ==
  /\ \/ c.tm.act = "Headers" /\ "headers" \in c.sc.limits
     \/ c.tm.act = "Payload" /\ "payload" \in c.sc.limits
  /\ ~Extends(c, enough)

HandleTimeout(c, enough) ==
  LET n == Extend(c, enough)
  IN IF c.tm.act \notin {"Headers", "Payload"} THEN c
     ELSE IF ~TimesOut(c, enough) THEN n
     ELSE IF c.tm.act = "Headers" THEN Late(n, Purpose(n))
     ELSE SetPayloadError(Late(n, Purpose(n)))

StartPayloadTimer(c) ==
  IF c.inner.pay /\ c.tm.act \in {"Stopped", "Idle", "Write"} THEN StartPayload(c) ELSE c

-----------------------------------------------------------------------------
(* Responses *)

\* encode() of a response, an interim response or a chunk.  It may fill the
\* write buffer, which wakes the task that is registered.
Fill(c, fills) ==
  IF ~fills \/ c.io.full THEN [c EXCEPT !.io.drained = @ /\ ~fills]
  ELSE [c EXCEPT !.io.full = TRUE, !.io.drained = FALSE, !.io.waker = FALSE,
                 !.woken = @ \/ c.io.waker]

NextRequest(c) ==
  IF c.inner.keep THEN [c EXCEPT !.st = "read"] ELSE CtlKeepAlive(Close(c))

\* Mutant: the next request is read although the payload is not.
ResponseDoneHasty(c) ==
  LET n == [c EXCEPT !.inner.started = FALSE, !.log.open = FALSE]
  IN IF c.inner.disc # "none" THEN CheckDisconnect(n) ELSE NextRequest(n)

ResponseDone(c) ==
  LET n == [c EXCEPT !.inner.started = FALSE, !.log.open = FALSE]
  IN IF c.inner.disc # "none" THEN CheckDisconnect(n)
     ELSE IF c.inner.pay THEN [StartPayloadTimer(n) EXCEPT !.st = "payload"]
     ELSE NextRequest(n)

\* A response without a body ("empty"), the last one of the connection ("last"),
\* one with a body, and one that cannot be encoded ("broken").
SendResponse(c, res, fills) ==
  LET close == c.inner.disc = "pending" \/ (c.inner.pay /\ ~c.rx.alive) \/ res = "last"
      head == Fill([c EXCEPT !.inner.keep = @ /\ ~close, !.log.resp = @ + 1,
                             !.log.mixed = @ \/ c.log.open,
                             !.inner.complete = res # "body"], fills)
  IN IF ~Active(c) THEN CtlPeerGone(c)
     ELSE CASE res = "broken" -> CtlProtoErr(SetError(c))
            [] res = "body" -> [head EXCEPT !.inner.started = TRUE, !.log.open = TRUE,
                                            !.st = "send", !.fut = Call("body")]
            [] OTHER -> ResponseDone(head)

Publish(c) ==
  IF c.inner.pend # "none" THEN TakePayloadError(c)
  ELSE [StartPayloadTimer(c) EXCEPT !.st = "publish", !.fut = Call("publish")]

\* Control::Upgrade: the codec is reset, its connection is not persistent.
CtlUpgrade(c) == Control([c EXCEPT !.inner.keep = FALSE], "upgrade")

\* The transport is moved out of the dispatcher, a closed one is left.
TakeIo(c) ==
  [IoStopTimer(c) EXCEPT !.io.phase = "gone", !.io.in = <<>>, !.io.full = FALSE,
                         !.io.waker = FALSE, !.io.eof = FALSE]

ControlContinue(c, fills) ==
  IF ~Active(c) THEN CtlPeerGone(c)
  ELSE LET n == StartPayloadTimer(Fill([c EXCEPT !.log.mixed = @ \/ c.log.open], fills))
       IN IF c.inner.kind \in Upgrading THEN CtlUpgrade(n) ELSE Publish(n)

\* Mutant: an error response is written although another one is not complete.
ControlProtoMixes(c, res, fills) == SendResponse(c, res, fills)

\* An error response would be written into the body that is not complete.
ControlProto(c, res, fills) ==
  IF c.inner.started THEN Stop(Close([c EXCEPT !.inner.started = FALSE]))
  ELSE SendResponse(c, res, fills)

\* control_result() for the acknowledgement of a message.
ControlAck(c, res, fills) ==
  LET msg == c.fut.what
      kind == c.inner.kind
  IN CASE msg = "request" /\ kind \in Expecting -> Control(c, "expect")
       [] msg = "request" /\ kind \in Upgrading \ Expecting -> CtlUpgrade(c)
       [] msg = "request" /\ kind \notin Expecting \cup Upgrading -> Publish(c)
       [] msg = "expect" -> ControlContinue(c, fills)
       [] msg = "upgrade" -> Publish(SetDisconnect(c))
       [] msg = "proto" -> ControlProto(c, res, fills)
       [] msg = "error" -> SendResponse(c, res, fills)
       [] OTHER -> Stop(c)

\* The control service fails the request, the expectation or the upgrade.
ControlFail(c, res, fills) ==
  SendResponse(IF c.fut.what = "request" THEN c ELSE SetDisconnect(c), res, fills)

-----------------------------------------------------------------------------
(* Dispatcher::poll *)

PollStarts ==
  /\ pc = "idle" /\ woken /\ st # "done"
  /\ Goes([Ctx EXCEPT !.woken = FALSE])

Turn(state) == pc = "run" /\ st = state

\* The response may fill the write buffer.
MayFill(fills) == fills => env.fills > 0 /\ Active(Ctx)
Spends(fills) == env' = IF fills THEN [env EXCEPT !.fills = @ - 1] ELSE env
Sends(c, fills) == Becomes(c) /\ pc' = "run" /\ Spends(fills) /\ UNCHANGED <<pl, svc, sc>>

\* CallPublish: the response, or the application's error.
PublishDone ==
  /\ Turn("publish") /\ fut.res # "pending"
  /\ \E fills \in BOOLEAN :
       /\ MayFill(fills)
       /\ Sends(IF fut.res = "err" THEN CtlError(Ctx) ELSE SendResponse(Ctx, fut.res, fills),
                fills /\ fut.res \notin {"err", "broken"})

\* poll_request() while the call is pending.  A failure leaves the call to a
\* task of its own.
PollRequest ==
  /\ Turn("publish") /\ fut.res = "pending"
  /\ IF inner.pay
     THEN pc' = "payload" /\ pl' = [hold |-> "start", updated |-> FALSE, res |-> "none"]
          /\ UNCHANGED <<disp, svc, env, sc>>
     ELSE IF inner.pend # "none" THEN Goes(TakePayloadError(Ctx))
     ELSE LET c == Registered(Ctx)
              expired == WriteTimerExpired([c EXCEPT !.io.timeout = FALSE])
              released == ReleaseWrite([c EXCEPT !.io.full = FALSE])
          IN IF Gone(c) THEN Goes(CtlPeerGone(c))
             ELSE IF io.timeout /\ IsWrite(c)
             THEN IF WriteTimerFails(c) THEN Goes(CtlPeerGone(expired)) ELSE Waits(expired)
             ELSE IF io.timeout THEN Waits([c EXCEPT !.io.timeout = FALSE])
             ELSE IF io.full /\ ~io.drained THEN Waits(StartWrite(c))
             ELSE Waits(released)

\* CallControl: the acknowledgement, or its refusal.
ControlDone ==
  /\ Turn("control") /\ fut.res \in {"ack", "fail"}
  /\ \E res \in {"empty", "body"}, fills \in BOOLEAN :
       /\ MayFill(fills)
       /\ LET c(f) == IF fut.res = "ack" THEN ControlAck(Ctx, res, f) ELSE ControlFail(Ctx, res, f)
          IN Sends(c(fills), c(fills) # c(FALSE))

\* Upgrade::handle: the control service takes the connection over.
ControlHandled ==
  /\ Turn("control") /\ fut.res = "handled"
  /\ Goes(CtlSvcDisconnect(TakeIo(Ctx)))

\* The control service fails; the dispatcher and what it holds are dropped.
ControlFails ==
  /\ Turn("control") /\ fut.res = "err"
  /\ Waits(DropDispatcher(Ctx))

\* The payload is read while the control service is called.
ControlPending ==
  /\ Turn("control") /\ fut.res = "pending"
  /\ IF inner.pend = "none" /\ inner.pay
     THEN pc' = "payload" /\ pl' = [hold |-> "start", updated |-> FALSE, res |-> "none"]
          /\ UNCHANGED <<disp, svc, env, sc>>
     ELSE Waits(Ctx)

\* ReadPayload
ReadPayload ==
  /\ Turn("payload")
  /\ pc' = "payload" /\ pl' = [hold |-> "start", updated |-> FALSE, res |-> "none"]
  /\ UNCHANGED <<disp, svc, env, sc>>

\* Stop: poll_shutdown(), then the dispatcher is dropped with what it holds.
StopTurn ==
  /\ Turn("stop")
  /\ IF Gone(Ctx) THEN Waits(DropDispatcher(Ctx))
     ELSE Waits(Registered([Close(Ctx) EXCEPT !.io.paused = FALSE]))

-----------------------------------------------------------------------------
(* poll_read_request() *)

Reading == Turn("read") /\ inner.disc = "none" /\ ~env.shutdown

\* The service is shut down, or a disconnect is due.
ReadEnds ==
  /\ Turn("read") /\ (inner.disc # "none" \/ env.shutdown)
  /\ Goes(IF inner.disc # "none" THEN CheckDisconnect(Ctx) ELSE CtlSvcDisconnect(Ctx))

ReadyFails == Reading /\ svc = "failed" /\ Goes(CtlError(ReleaseWrite(Ctx)))

\* The application is not ready: poll_read_pause().
ReadPaused ==
  LET c == Registered([SuspendRead(ReleaseWrite(Ctx)) EXCEPT !.io.paused = TRUE])
      expired == WriteTimerExpired([c EXCEPT !.io.timeout = FALSE])
      flushed == FlushTimed(c)
  IN /\ Reading /\ svc = "busy"
     /\ IF Gone(c) THEN Goes(CtlPeerGone(c))
        ELSE IF c.io.timeout
        THEN Goes(IF ~IsWrite(c) THEN [c EXCEPT !.io.timeout = FALSE]
                  ELSE IF WriteTimerFails(c) THEN CtlPeerGone(expired) ELSE expired)
        ELSE IF c.io.full /\ c.io.drained THEN Waits([c EXCEPT !.io.full = FALSE])
        ELSE IF ~c.io.full THEN Waits(c)
        ELSE CASE FlushResult(c) = "ok" -> Goes(flushed)
               [] FlushResult(c) = "failed" -> Goes(CtlPeerGone(flushed))
               [] FlushResult(c) = "pending" -> Waits(flushed)

\* The head decoder: parts of a head stay with it until the head is complete.
\* Bytes of a payload are not a head, whatever they are.
SkipParts(in) ==
  LET n == CHOOSE k \in 0..Len(in) : /\ \A j \in 1..k : in[j] = "part"
                                     /\ k < Len(in) => in[k + 1] # "part"
  IN SubSeq(in, n + 1, Len(in))

DecodeHead(c) ==
  LET rest == SkipParts(c.io.in)
      received == rest # c.io.in
      decoded == [c EXCEPT !.io.in = IF rest = <<>> THEN <<>> ELSE Tail(rest), !.io.paused = FALSE,
                           !.inner.hdrs = (c.inner.hdrs \/ received) /\ rest = <<>>,
                           !.log.misread = @ \/ (rest # <<>> /\ Head(rest) \in {"data", "end"})]
  IN [c |-> decoded, received |-> received \/ rest # <<>>,
      item |-> IF rest = <<>> THEN "none" ELSE IF Head(rest) \in Heads THEN Head(rest) ELSE "bad"]

\* update_hdrs_timer() without an item.  The connection ends if nothing bounds
\* the wait for a request that nobody asked to keep it open for.
UpdateHdrsTimer(c) ==
  IF c.tm.act = "Headers" THEN c
  ELSE IF c.inner.hdrs /\ "headers" \in c.sc.limits THEN StartHeaders(c)
  ELSE IF c.tm.act = "ClientTimeout" THEN c
  ELSE IF "keepalive" \in c.sc.limits THEN StartKeepAlive(c)
  ELSE c

Unbounded(c) ==
  /\ c.tm.act \notin {"Headers", "ClientTimeout"} /\ ~c.inner.hdrs /\ ~c.inner.keep

\* A payload of known length that came with its head is taken at once.
Buffered(c) ==
  /\ c.inner.kind = "fixed"
  /\ \E k \in 1..Len(c.io.in) : c.io.in[k] = "end" /\ \A j \in 1..k - 1 : c.io.in[j] = "data"

AfterEnd(in) ==
  LET k == CHOOSE k \in 1..Len(in) : in[k] = "end" /\ \A j \in 1..k - 1 : in[j] = "data"
  IN SubSeq(in, k + 1, Len(in))

\* A request: reset the timers, set up its payload, tell the control service.
Received(d, kind) ==
  LET c == ResetTimers([d EXCEPT !.log.reqs = @ + 1, !.inner.kind = kind,
                                 !.inner.keep = /\ kind \notin {"bye"} \cup Upgrading
                                                /\ "keepalive" \in d.sc.limits])
      chan == [c EXCEPT !.inner.pay = TRUE, !.rx = [NoPayload EXCEPT !.alive = TRUE]]
  IN Control(IF kind \notin Bodied THEN c
             ELSE IF Buffered(c) THEN [c EXCEPT !.io.in = AfterEnd(@)]
             ELSE IF kind \in Expecting THEN chan
             ELSE StartPayloadTimer(chan), "request")

Receiving == Reading /\ svc = "ready"
Input == LET c == ReleaseWrite(Ctx) IN IF io.filter THEN c ELSE ResumeRead(c)
TimerDue(c) == ~Gone(c) /\ c.io.timeout

\* poll_recv_decode() with neither a timeout nor backpressure.
Recv ==
  LET c == Input
      d == DecodeHead(c)
      u == UpdateHdrsTimer(HeadersDecoded(Registered(d.c), d.received))
  IN /\ Receiving /\ ~TimerDue(c) /\ (~Gone(c) => ~c.io.full)
     /\ CASE d.item = "bad" -> Goes(CtlProtoErr(d.c))
          [] d.item \in Heads -> Goes(Received(HeadersDecoded(d.c, TRUE), d.item))
          [] d.item = "none" /\ (Gone(c) \/ c.io.eof) -> Goes(CtlPeerGone(d.c))
          [] d.item = "none" /\ ~Gone(c) /\ ~c.io.eof ->
               IF Unbounded(d.c) THEN Goes(CtlKeepAlive(Close(d.c)))
               ELSE Waits(IF u.io.filter THEN SuspendRead(u) ELSE u)

RecvBackpressure ==
  LET c == Input
      flushed == FlushTimed(c)
  IN /\ Receiving /\ ~TimerDue(c) /\ ~Gone(c) /\ c.io.full
     /\ CASE FlushResult(c) = "ok" -> Goes(flushed)
          [] FlushResult(c) = "failed" -> Goes(CtlPeerGone(flushed))
          [] FlushResult(c) = "pending" -> Waits(flushed)

\* The write timer, and the keep-alive timer left armed for the last request.
RecvOtherTimeout ==
  LET c == [Input EXCEPT !.io.timeout = FALSE]
      expired == WriteTimerExpired(c)
  IN /\ Receiving /\ TimerDue(Input) /\ (IsWrite(c) \/ c.tm.act = "Idle")
     /\ Goes(IF ~IsWrite(c) THEN c
             ELSE IF WriteTimerFails(c) THEN CtlPeerGone(expired) ELSE expired)

\* Mutant: the expiry wins over a request that came with it.
RecvTimeoutFirst ==
  LET c == [Input EXCEPT !.io.timeout = FALSE]
  IN /\ Receiving /\ TimerDue(Input) /\ ~IsWrite(c) /\ c.tm.act # "Idle"
     /\ Goes(IF c.tm.act = "KeepAlive" THEN CtlKeepAlive(c) ELSE CtlProtoErr(c))

\* A read timer: what was received with its expiry is decoded first.
RecvTimeout ==
  LET c == [Input EXCEPT !.io.timeout = FALSE]
      d == DecodeHead(c)
      h == HeadersDecoded(d.c, d.received)
      partial == h.inner.hdrs /\ "headers" \in sc.limits
  IN /\ Receiving /\ TimerDue(Input) /\ ~IsWrite(c) /\ c.tm.act # "Idle"
     /\ \E enough \in BOOLEAN :
          Goes(CASE d.item = "bad" -> CtlProtoErr(d.c)
                 [] d.item \in Heads -> Received(h, d.item)
                 [] d.item = "none" ->
                      IF h.tm.act = "Headers"
                      THEN IF TimesOut(h, enough) THEN CtlProtoErr(HandleTimeout(h, enough))
                           ELSE HandleTimeout(h, enough)
                      ELSE IF partial THEN StartHeaders(h)
                      ELSE IF h.tm.act = "ClientTimeout" THEN CtlProtoErr(Late(h, Purpose(h)))
                      ELSE CtlKeepAlive(Late(h, <<"KeepAlive", h.log.reqs>>)))

-----------------------------------------------------------------------------
(* poll_request_payload_inner() *)

Returns(c, res) ==
  Becomes(c) /\ pc' = "return" /\ pl' = [pl EXCEPT !.res = res] /\ UNCHANGED <<svc, env, sc>>
Loops(c, hold, updated) ==
  Becomes(c) /\ pc' = "payload" /\ pl' = [pl EXCEPT !.hold = hold, !.updated = updated]
  /\ UNCHANGED <<svc, env, sc>>
Breaks(c) == Returns(c, IF pl.updated THEN "ok" ELSE "pending")

InPayload == pc = "payload"

\* A pending error, no payload, or the state of the stream: dropped, full, ready.
PayloadStart ==
  /\ InPayload /\ pl.hold = "start"
  /\ IF inner.pend # "none" /\ st = "payload"
     THEN Returns([Ctx EXCEPT !.inner.pend = "none"], inner.pend)
     ELSE IF ~inner.pay THEN Returns(Ctx, "ok")
     ELSE IF ~rx.alive \/ rx.end # "none"
     THEN Returns(SetDisconnect(DropSender(Ctx)), "pending")
     ELSE IF rx.full THEN Returns([PausePayload(Ctx) EXCEPT !.rx.task = TRUE], "pending")
     ELSE Loops(ReleaseWrite(Ctx), "none", FALSE)

\* Backpressure and read timeouts wait until the buffered input is decoded.
PayloadHolds ==
  LET c == [Ctx EXCEPT !.io.timeout = FALSE]
      expired == WriteTimerExpired(c)
  IN /\ InPayload /\ pl.hold = "none" /\ ~Gone(Ctx) /\ (io.timeout \/ io.full)
     /\ IF ~io.timeout THEN Loops(Ctx, "full", pl.updated)
        ELSE IF ~IsWrite(c) THEN Loops(c, "timeout", pl.updated)
        ELSE IF WriteTimerFails(c) THEN Returns(expired, "gone")
        ELSE Loops(expired, "none", pl.updated)

Decoding ==
  InPayload /\ pl.hold # "start" /\ (pl.hold = "none" => Gone(Ctx) \/ (~io.timeout /\ ~io.full))
Took(c) == [c EXCEPT !.io.in = Tail(@), !.io.paused = FALSE]

PayloadChunk ==
  /\ Decoding /\ io.in # <<>> /\ Head(io.in) = "data"
  /\ \E full \in BOOLEAN :
       Loops([PayloadDecoded(Took(Ctx), TRUE) EXCEPT !.rx.full = @ \/ full], pl.hold, TRUE)

PayloadEnd ==
  /\ Decoding /\ io.in # <<>> /\ Head(io.in) = "end"
  /\ LET c == PayloadDecoded(Took(Ctx), TRUE)
     IN Returns(DropSender(PayloadDone(FeedEof([c EXCEPT !.rx.whole = TRUE]))), "ok")

PayloadBad ==
  /\ Decoding /\ io.in # <<>> /\ Head(io.in) \notin {"data", "end"}
  /\ Returns(SetPayloadError(Took(Ctx)), "proto")

\* No more input: the peer is gone, or the dispatcher waits for it.
PayloadDry ==
  LET c == PayloadDecoded(Registered([Ctx EXCEPT !.io.paused = FALSE]), FALSE)
  IN /\ Decoding /\ io.in = <<>> /\ pl.hold = "none"
     /\ IF Gone(Ctx) \/ io.eof THEN Returns(SetPayloadError(Ctx), "gone")
        ELSE Breaks(IF io.filter THEN SuspendRead(c) ELSE c)

PayloadHeld ==
  LET flushed == FlushTimed(Ctx)
  IN /\ Decoding /\ io.in = <<>> /\ pl.hold = "full"
     /\ CASE FlushResult(Ctx) = "ok" -> Loops(flushed, "none", pl.updated)
          [] FlushResult(Ctx) = "failed" -> Returns(SetPayloadError(flushed), "gone")
          [] FlushResult(Ctx) = "pending" -> Breaks(PausePayload(flushed))

PayloadTimeout ==
  /\ Decoding /\ io.in = <<>> /\ pl.hold = "timeout"
  /\ \E enough \in BOOLEAN :
       IF TimesOut(Ctx, enough) THEN Returns(HandleTimeout(Ctx, enough), "proto")
       ELSE Loops(HandleTimeout(Ctx, enough), "none", pl.updated)

\* The state that polled the payload goes on with the result.
Failed == pl.res \in {"proto", "gone"}

PublishReturn ==
  /\ pc = "return" /\ st = "publish"
  /\ IF Failed THEN Goes(CtlPayloadErr(Ctx, pl.res)) ELSE Waits(Ctx)

ControlReturn ==
  /\ pc = "return" /\ st = "control"
  /\ Waits(IF Failed THEN [Ctx EXCEPT !.inner.pend = pl.res] ELSE Ctx)

\* A failure is reported, but the disconnect that is due by now ends the
\* dispatcher: the call of a control service is dropped before its first poll,
\* and so is the body of the default error response.
PayloadReturn ==
  LET report == CtlPayloadErr(Ctx, pl.res)
      default(res) == IF pl.res = "proto" THEN SendResponse(report, res, FALSE) ELSE report
  IN /\ pc = "return" /\ st = "payload"
     /\ IF Failed /\ sc.control THEN Goes(Stop([Ctx EXCEPT !.inner.disc = "sent"]))
        ELSE IF Failed THEN \E res \in {"empty", "body"} : Goes(Stop(default(res)))
        ELSE IF inner.disc # "none" THEN Goes(CheckDisconnect(Ctx))
        ELSE IF pl.res = "pending" THEN Waits(Ctx)
        ELSE IF inner.pay THEN Goes(Ctx)
        ELSE Goes(NextRequest(Ctx))

-----------------------------------------------------------------------------
(* poll_send_payload() *)

Sending(c) == Becomes(c) /\ pc' = "send" /\ UNCHANGED <<pl, svc, env, sc>>

\* The response goes on after a failed payload, and is the last thing sent.
AfterFailure(c, failure) ==
  IF failure = "gone" THEN Goes(CtlPeerGone(c)) ELSE Sending([c EXCEPT !.inner.disc = "sent"])

SendPayload ==
  /\ Turn("send")
  /\ IF inner.pend # "none" THEN AfterFailure([Ctx EXCEPT !.inner.pend = "none"], inner.pend)
     ELSE IF ~Active(Ctx) THEN Goes(CtlPeerGone(Ctx))
     ELSE IF inner.disc = "pending" \/ ~inner.pay THEN Sending(Ctx)
     ELSE /\ pc' = "payload" /\ pl' = [hold |-> "start", updated |-> FALSE, res |-> "none"]
          /\ UNCHANGED <<disp, svc, env, sc>>

SendReturn ==
  /\ pc = "return" /\ st = "send"
  /\ IF Failed THEN AfterFailure(Ctx, pl.res) ELSE Sending(Ctx)

\* Output is flushed before the body is polled.
SendStops ==
  /\ pc = "send"
  /\ \/ ~Active(Ctx) /\ Goes(CtlPeerGone(Ctx))
     \/ /\ Active(Ctx) /\ io.full /\ FlushResult(Ctx) # "ok"
        /\ IF FlushResult(Ctx) = "failed" THEN Goes(CtlPeerGone(FlushTimed(Ctx)))
           ELSE Waits(FlushTimed(Ctx))

Flushed == IF io.full THEN FlushTimed(Ctx) ELSE ReleaseWrite(Ctx)
CanSend == pc = "send" /\ Active(Ctx) /\ (io.full => FlushResult(Ctx) = "ok")

\* The body is pending: a peer that has half closed is not waited for.
BodyPending ==
  /\ CanSend /\ fut.res = "pending"
  /\ IF ~sc.half /\ io.eof /\ io.in = <<>> THEN Goes(CtlPeerGone(Flushed))
     ELSE Waits(Registered(Flushed))

\* A chunk; "full" is one that completes the declared length, its output is
\* flushed first under backpressure.
BodyChunk ==
  /\ CanSend /\ fut.res \in {"chunk", "full"}
  /\ \E fills \in BOOLEAN :
       LET c == Fill([Flushed EXCEPT !.fut.res = "pending", !.fut.chunks = @ + 1,
                                     !.inner.complete = @ \/ fut.res = "full"], fills)
       IN /\ MayFill(fills) /\ (inner.complete => ~fills)
          /\ Becomes(IF inner.complete \/ (c.inner.complete /\ ~c.io.full) THEN ResponseDone(c) ELSE c)
          /\ pc' = IF inner.complete \/ (c.inner.complete /\ ~c.io.full) THEN "run" ELSE "send"
          /\ Spends(fills) /\ UNCHANGED <<pl, svc, sc>>

\* The end of the body, or an error of the body or of its length.
BodyEnds ==
  /\ CanSend /\ fut.res \in {"end", "err"}
  /\ Goes(IF fut.res = "end" THEN ResponseDone(Flushed) ELSE CtlProtoErr(Flushed))

PollStep ==
  \/ PollStarts \/ PublishDone \/ PollRequest \/ ControlDone \/ ControlHandled \/ ControlFails
  \/ ControlPending \/ ReadPayload \/ StopTurn \/ ReadEnds \/ ReadyFails \/ ReadPaused
  \/ Recv \/ RecvBackpressure \/ RecvOtherTimeout \/ RecvTimeout
  \/ PayloadStart \/ PayloadHolds \/ PayloadChunk \/ PayloadEnd \/ PayloadBad \/ PayloadDry
  \/ PayloadHeld \/ PayloadTimeout \/ PublishReturn \/ ControlReturn \/ PayloadReturn
  \/ SendPayload \/ SendReturn \/ SendStops \/ BodyPending \/ BodyChunk \/ BodyEnds

-----------------------------------------------------------------------------
(* The application and the control service *)

Listening == st \notin {"stop", "done"}
Wakes(c) == [c EXCEPT !.woken = TRUE]
Outside(c) == pc = "idle" /\ Listening /\ Becomes(c) /\ UNCHANGED <<pc, pl, sc>>

AppAnswers ==
  /\ st = "publish" /\ fut.res = "pending"
  /\ \E res \in sc.replies : Outside(Wakes([Ctx EXCEPT !.fut.res = res]))
  /\ UNCHANGED <<svc, env>>

\* RequestHead::take_io of an upgrade that the control service has let through.
AppTakesIo ==
  /\ st = "publish" /\ fut.res = "pending" /\ inner.kind \in Upgrading /\ Active(Ctx)
  /\ Outside(TakeIo(Ctx)) /\ UNCHANGED <<svc, env>>

ControlAnswers ==
  /\ st = "control" /\ fut.res = "pending"
  /\ \E res \in {"ack", "err"} \cup (IF fut.what = "upgrade" THEN {"fail", "handled"} ELSE {})
                 \cup (IF fut.what = "expect" \/ (fut.what = "request" /\ sc.rejects) THEN {"fail"} ELSE {}) :
       Outside(Wakes([Ctx EXCEPT !.fut.res = res]))
  /\ UNCHANGED <<svc, env>>

\* A body has at most one chunk more than the one that may complete its length.
BodyYields ==
  /\ st = "send" /\ fut.res = "pending"
  /\ \E res \in {"end", "err"} \cup (IF fut.chunks < 2 THEN {"chunk", "full"} ELSE {}) :
       /\ res = "chunk" => fut.chunks = 0 \/ inner.complete
       /\ Outside(Wakes([Ctx EXCEPT !.fut.res = res]))
  /\ UNCHANGED <<svc, env>>

SenderWoken(c) == [c EXCEPT !.rx.task = FALSE, !.woken = @ \/ c.rx.task]

AppReads ==
  rx.full /\ rx.alive /\ Outside(SenderWoken([Ctx EXCEPT !.rx.full = FALSE])) /\ UNCHANGED <<svc, env>>

AppDrops ==
  rx.alive /\ Outside(SenderWoken([Ctx EXCEPT !.rx.alive = FALSE])) /\ UNCHANGED <<svc, env>>

\* The readiness changes, the dispatcher hears of it where it has asked.
ServiceBecomes(s) ==
  /\ svc # s /\ svc # "failed" /\ svc' = s
  /\ s # "ready" => env.busy > 0
  /\ env' = IF s = "ready" THEN env ELSE [env EXCEPT !.busy = @ - 1]
  /\ Outside([Ctx EXCEPT !.woken = @ \/ st = "read"])

\* DispatcherConfig::shutdown
Shutdown ==
  /\ sc.shutdown /\ ~env.shutdown /\ env' = [env EXCEPT !.shutdown = TRUE]
  /\ Outside([Ctx EXCEPT !.woken = @ \/ io.waker, !.io.waker = FALSE]) /\ UNCHANGED svc

-----------------------------------------------------------------------------
(* The transport *)

Transport(c) == Outside([c EXCEPT !.woken = @ \/ io.waker, !.io.waker = FALSE]) /\ UNCHANGED svc

Arrives ==
  /\ env.left # <<>> /\ Active(Ctx) /\ ~io.eof /\ ~io.paused /\ ~io.filter
  /\ env' = [env EXCEPT !.left = Tail(@)]
  /\ Transport([Ctx EXCEPT !.io.in = Append(@, Head(env.left))])

PeerEof ==
  /\ sc.end = "eof" /\ env.left = <<>> /\ Active(Ctx) /\ ~io.eof /\ ~io.paused /\ ~io.filter
  /\ Transport([Ctx EXCEPT !.io.eof = TRUE]) /\ UNCHANGED env

PeerGone ==
  /\ sc.end = "gone" /\ Active(Ctx)
  /\ Transport([Ctx EXCEPT !.io.phase = "gone"]) /\ UNCHANGED env

\* The output falls to the release threshold.
Drains ==
  /\ Active(Ctx) /\ io.full /\ ~io.drained /\ ~io.filter
  /\ Transport([Ctx EXCEPT !.io.drained = TRUE]) /\ UNCHANGED env

FilterPauses ==
  /\ Active(Ctx) /\ ~io.filter /\ env.pauses > 0 /\ env' = [env EXCEPT !.pauses = @ - 1]
  /\ Transport([Ctx EXCEPT !.io.filter = TRUE])

FilterResumes ==
  /\ Active(Ctx) /\ io.filter /\ Transport([Ctx EXCEPT !.io.filter = FALSE]) /\ UNCHANGED env

TimerFires ==
  /\ io.timer = "armed" /\ Outside(NotifyTimeout([Ctx EXCEPT !.io.timer = "expired"]))
  /\ UNCHANGED <<svc, env>>

\* A close that was started is completed, whether the dispatcher waits for it or not.
TransportCloses ==
  /\ pc = "idle" /\ io.phase = "closing"
  /\ Becomes([Ctx EXCEPT !.io.phase = "gone", !.woken = @ \/ io.waker, !.io.waker = FALSE])
  /\ UNCHANGED <<pc, pl, svc, env, sc>>

-----------------------------------------------------------------------------
Next ==
  \/ PollStep
  \/ AppAnswers \/ AppTakesIo \/ ControlAnswers \/ BodyYields \/ AppReads \/ AppDrops
  \/ \E s \in {"ready", "busy", "failed"} : ServiceBecomes(s)
  \/ Shutdown \/ Arrives \/ PeerEof \/ PeerGone \/ Drains \/ FilterPauses \/ FilterResumes
  \/ TimerFires \/ TransportCloses

\* The task runs when it is woken, timers fire, and the application answers,
\* yields its bodies and reads its payloads; of the peer nothing is assumed.
Fairness ==
  /\ WF_vars(PollStep) /\ WF_vars(TimerFires) /\ WF_vars(TransportCloses)
  /\ WF_vars(AppAnswers) /\ WF_vars(ControlAnswers) /\ WF_vars(BodyYields) /\ WF_vars(AppReads)
  /\ WF_vars(ServiceBecomes("ready")) /\ WF_vars(FilterResumes)

Spec == Init /\ [][Next]_vars /\ Fairness

-----------------------------------------------------------------------------
(* Properties *)

TmType ==
  [act : {"Stopped", "ClientTimeout", "KeepAlive", "Idle", "Headers", "Payload",
          "PayloadPaused", "Write", "WriteWithPayload"},
   susp : {"no", "left", "zero"}, wsusp : BOOLEAN, fast : BOOLEAN, budget : Nat, zero : BOOLEAN]
InnerType ==
  [disc : {"none", "pending", "sent"}, pend : {"none", "proto", "gone"},
   started : BOOLEAN, pay : BOOLEAN, complete : BOOLEAN, keep : BOOLEAN,
   kind : Heads \cup {"none"}, hdrs : BOOLEAN]
Purposes ==
  {"none", "Stopped", "ClientTimeout", "KeepAlive", "Idle", "Headers", "Payload",
   "PayloadPaused", "Write", "WriteWithPayload"} \X Nat
IoType ==
  [phase : {"active", "closing", "gone"}, eof : BOOLEAN, in : Seq(Tokens), paused : BOOLEAN,
   filter : BOOLEAN, full : BOOLEAN, drained : BOOLEAN, waker : BOOLEAN,
   timer : {"none", "armed", "expired"}, timeout : BOOLEAN, for : Purposes,
   exp : Purposes]
RxType ==
  [alive : BOOLEAN, end : {"none", "eof", "error"}, full : BOOLEAN, task : BOOLEAN,
   whole : BOOLEAN]
FutType ==
  [what : {"none", "body", "publish", "request", "expect", "upgrade", "gone", "proto",
           "error", "keepalive", "service"},
   res : Replies \cup {"pending", "ack", "fail", "handled", "chunk", "full", "end"},
   chunks : Nat]
LogType ==
  [reqs : Nat, resp : Nat, open : BOOLEAN, mixed : BOOLEAN, told : Nat, stale : BOOLEAN,
   misread : BOOLEAN]
CtxType ==
  [st : {"read", "control", "publish", "payload", "send", "stop", "done"}, woken : BOOLEAN,
   sc : Scenarios, tm : TmType, inner : InnerType, io : IoType, rx : RxType, fut : FutType,
   log : LogType]

\* The type invariant.
TypeOK ==
  /\ Ctx \in CtxType
  /\ pc \in {"idle", "run", "payload", "return", "send"}
  /\ pl \in [hold : {"none", "start", "full", "timeout"}, updated : BOOLEAN,
            res : {"none", "ok", "pending", "proto", "gone"}]
  /\ svc \in {"ready", "busy", "failed"}
  /\ env \in [left : Seq(Tokens), fills : Nat, busy : Nat, pauses : Nat, shutdown : BOOLEAN]

\* The client can tell the responses apart: none is written inside the body of
\* another, and there are no more of them than requests, but for one error
\* response that ends the connection (send_response, control_result).
ResponseFraming ==
  /\ ~log.mixed
  /\ log.resp <= log.reqs + (IF inner.disc = "sent" THEN 1 ELSE 0)

\* The application sees the regular end of a payload only if all of it has been
\* decoded.  Every drop of the sender ends the stream regularly unless an error was
\* set before: a peer that goes away, a timeout, bad bytes, a response that cannot be
\* encoded and the end of the dispatcher each set one (set_payload_error, Drop).
PayloadWhole == rx.end = "eof" => rx.whole

\* An expiry that ends the connection or fails a payload is that of a timer which
\* was started for this purpose and this request, although one transport timer
\* serves all purposes, is suspended and resumed, is left armed between requests,
\* and a restart does not take back an expiry that is already pending (Timers).
TimerNotStale == ~log.stale

\* Bytes of a payload are never decoded as the head of a request: the payload is
\* read to its end, or the connection is not used again (ReadPayload, and
\* payload.rs on a stream that is dropped early).
BodyBeforeHead == ~log.misread

\* The keep-alive timeout ends idle connections only: a request that arrived
\* together with the expiry is served (headers_timeout, poll_read_request).
KeepAliveIdle ==
  [][inner'.keep /\ log.told' # log.told /\ fut'.what = "keepalive" =>
       \A i \in DOMAIN io.in : io.in[i] \notin Heads]_vars

\* Every limit of the configuration is enforced in every state: whatever the
\* peer does or stops doing, the dispatcher completes (the timers and Stop).
ConnectionEnds == <>(st = "done")

=============================================================================
