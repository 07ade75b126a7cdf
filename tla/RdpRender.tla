------------------------------ MODULE RdpRender ------------------------------
(***************************************************************************)
(* The picture of one RDP session, from the bitmaps of the remote desktop  *)
(* to the canvas: rdpApplyBitmaps, the render pump and RDPRenderEndpoint   *)
(* of client/rdp.go, the RDPRenderHub of client/rdp_render.go and          *)
(* startRDPRenderStream of client/frontend/src/App.tsx.                    *)
(*                                                                         *)
(* The surface is a row of tiles, and what a tile shows is the number of   *)
(* the batch of bitmaps that drew it last; 0 is the blank tile a new       *)
(* surface and a new canvas start with.  A frame gives tiles their         *)
(* content; a full frame gives it to all.  Two goroutines publish frames:  *)
(* the pump and the call of RDPRenderEndpoint.  Each registration of the   *)
(* hub has a channel of its own, and only the latest one is open.          *)
(***************************************************************************)
EXTENDS Naturals, SequencesExt

CONSTANTS TileCount,  \* tiles of the surface
          MaxDraws,   \* bound on the batches of bitmaps
          QueueCap,   \* rdpRenderQueueSize, 16
          MaxOpens    \* bound on the render streams opened

VARIABLES session, \* s.rdps[id]: open or closed
          fb,      \* the framebuffer
          dirty,   \* the tiles of the dirty rectangle
          applier, \* OnBitmap: idle, or about to call signalRender
          wake,    \* renderWake holds a token
          pending, \* the pump's pending
          at,      \* where each publisher is
          frame,   \* the frame it publishes
          to,      \* the registration it publishes to
          opened,  \* registrations so far
          gen,     \* the registration in h.sessions, 0 for none
          queue,   \* the channel of each registration
          view,    \* the render stream of the user interface
          batch,   \* rdpRenderFrameQueues[id]
          canvas,
          skipped, raced, failed   \* history, for the properties

surface == <<session, fb, dirty, applier, wake>>
hub     == <<opened, gen, queue>>
ui      == <<view, batch, canvas>>
history == <<skipped, raced, failed>>
renderVars == <<surface, pending, at, frame, to, hub, ui, history>>

Tiles    == 1..TileCount
Contents == [Tiles -> 0..MaxDraws]
Frames   == UNION {[S -> 0..MaxDraws] : S \in SUBSET Tiles}
Pubs     == {"pump", "endpoint"}

\* The steps of a call of Publish.
Publishing == {"lookup", "send", "drain", "resend"}

IsFullSurface(f) == DOMAIN f = Tiles

ASSUME RenderAssumption == {TileCount, MaxDraws, QueueCap, MaxOpens} \subseteq Nat \ {0}

-----------------------------------------------------------------------------
RenderInit ==
  /\ session = "open" /\ fb = [t \in Tiles |-> 0] /\ dirty = {}
  /\ applier = "idle" /\ wake = FALSE /\ pending = FALSE
  /\ at = [p \in Pubs |-> "idle"] /\ frame = [p \in Pubs |-> <<>>] /\ to = [p \in Pubs |-> 0]
  /\ opened = 0 /\ gen = 0 /\ queue = [g \in 1..MaxOpens |-> <<>>]
  /\ view = "none" /\ batch = <<>> /\ canvas = [t \in Tiles |-> 0]
  /\ skipped = {} /\ raced = FALSE /\ failed = FALSE

(* The callback for bitmaps *)

\* markDirtyLocked: the dirty rectangle grows to hold what was drawn.
markDirtyLocked(drawn) ==
  dirty' = {t \in Tiles : \E a, b \in dirty \cup drawn : a <= t /\ t <= b}

\* rdpApplyBitmaps: a bitmap that is refused ends the batch; those before it
\* stay drawn and dirty, but nobody is woken.
rdpApplyBitmaps(drawn, ok) ==
  /\ session = "open" /\ applier = "idle"
  /\ \E n \in 1..MaxDraws :
       /\ \A t \in Tiles : fb[t] < n
       /\ \E t \in Tiles : fb[t] = n - 1
       /\ fb' = [t \in Tiles |-> IF t \in drawn THEN n ELSE fb[t]]
  /\ markDirtyLocked(drawn)
  /\ applier' = IF ok THEN "signal" ELSE "idle"
  /\ failed' = ~ok
  /\ UNCHANGED <<session, wake, pending, at, frame, to, hub, ui, skipped, raced>>

\* Faulty variant: the pump is woken only when it has nothing to do.
signalIdlePump ==
  /\ applier = "signal"
  /\ applier' = "idle"
  /\ wake' = (wake \/ ~pending)
  /\ UNCHANGED <<session, fb, dirty, pending, at, frame, to, hub, ui, history>>

signalRender ==
  /\ applier = "signal"
  /\ applier' = "idle" /\ wake' = TRUE
  /\ UNCHANGED <<session, fb, dirty, pending, at, frame, to, hub, ui, history>>

(* RDPRenderHub.Publish, for the pump and for RDPRenderEndpoint *)

\* The call returns to the pump, or to the user interface.
finish(p) ==
  /\ at' = [at EXCEPT ![p] = "idle"]
  /\ frame' = [frame EXCEPT ![p] = <<>>]
  /\ to' = [to EXCEPT ![p] = 0]
  /\ pending' = (pending /\ p # "pump")
  /\ view' = IF p = "endpoint" THEN "answered" ELSE view

Closed(p) == to[p] # gen

\* It goes on to its next step.
goto(p, label) == at' = [at EXCEPT ![p] = label] /\ UNCHANGED <<pending, view, frame, to>>

Lookup(p) ==
  /\ at[p] = "lookup"
  /\ IF gen = 0 THEN finish(p)
     ELSE /\ to' = [to EXCEPT ![p] = gen]
          /\ at' = [at EXCEPT ![p] = "send"]
          /\ UNCHANGED <<pending, view, frame>>
  /\ UNCHANGED <<surface, hub, batch, canvas, history>>

deliver(p) ==
  /\ queue' = [queue EXCEPT ![to[p]] = Append(@, frame[p])]
  /\ skipped' = skipped \ DOMAIN frame[p]
  /\ finish(p)

\* Sending to a closed channel panics, which drops the frame.
Send(p) ==
  /\ at[p] = "send"
  /\ IF Closed(p) THEN finish(p) /\ UNCHANGED <<queue, skipped>>
     ELSE IF Len(queue[to[p]]) < QueueCap THEN deliver(p)
     ELSE goto(p, "drain") /\ UNCHANGED <<queue, skipped>>
  /\ UNCHANGED <<surface, opened, gen, batch, canvas, raced, failed>>

\* The full queue is emptied frame by frame, the oldest first.
Drain(p) ==
  /\ at[p] = "drain"
  /\ IF queue[to[p]] # <<>>
     THEN /\ queue' = [queue EXCEPT ![to[p]] = Tail(@)]
          /\ skipped' = IF Closed(p) THEN skipped
                        ELSE skipped \cup DOMAIN Head(queue[to[p]])
          /\ goto(p, "drain")
     ELSE /\ IF Closed(p) THEN finish(p) ELSE goto(p, "resend")
          /\ UNCHANGED <<queue, skipped>>
  /\ UNCHANGED <<surface, opened, gen, batch, canvas, raced, failed>>

\* The other publisher may have filled the channel meanwhile: the frame is lost.
Resend(p) ==
  /\ at[p] = "resend"
  /\ IF ~Closed(p) /\ Len(queue[to[p]]) < QueueCap THEN deliver(p)
     ELSE /\ skipped' = IF Closed(p) THEN skipped ELSE skipped \cup DOMAIN frame[p]
          /\ UNCHANGED queue
          /\ finish(p)
  /\ UNCHANGED <<surface, opened, gen, batch, canvas, raced, failed>>

(* runRDPRenderPump *)

PumpWake ==
  /\ at["pump"] = "idle" /\ wake
  /\ wake' = FALSE /\ pending' = TRUE
  /\ UNCHANGED <<session, fb, dirty, applier, at, frame, to, hub, ui, history>>

\* rdpAdaptiveSnapshot: the dirty rectangle, or all when it is large, made of
\* many bitmaps, or when the last full frame is a second old.
rdpAdaptiveSnapshot(region) ==
  /\ frame' = [frame EXCEPT !["pump"] = [t \in region |-> fb[t]]]
  /\ dirty' = {}
  /\ raced' = (at["endpoint"] \in Publishing
               \/ (raced /\ region # Tiles))

PumpTick ==
  /\ at["pump"] = "idle" /\ pending
  /\ IF dirty = {} THEN pending' = FALSE /\ UNCHANGED <<at, frame, dirty, raced>>
     ELSE /\ \E region \in {dirty, Tiles} : rdpAdaptiveSnapshot(region)
          /\ at' = [at EXCEPT !["pump"] = "lookup"]
          /\ UNCHANGED pending
  /\ UNCHANGED <<session, fb, applier, wake, to, hub, ui, skipped, failed>>

PumpEnd ==
  /\ at["pump"] = "idle" /\ session = "closed"
  /\ at' = [at EXCEPT !["pump"] = "ended"]
  /\ UNCHANGED <<surface, pending, frame, to, hub, ui, history>>

(* RDPRenderEndpoint *)

\* startRDPRenderStream: a new renderer, then the call, which finds the session.
Ask ==
  /\ view = "none" /\ opened < MaxOpens /\ session = "open"
  /\ view' = "asking" /\ canvas' = [t \in Tiles |-> 0] /\ batch' = <<>>
  /\ at' = [at EXCEPT !["endpoint"] = "register"]
  /\ UNCHANGED <<surface, pending, frame, to, hub, history>>

\* Faulty variant: the registration of an earlier stream stays in place.
RegisterOnce ==
  /\ at["endpoint"] = "register"
  /\ opened' = opened + 1 /\ gen' = IF gen = 0 THEN opened + 1 ELSE gen
  /\ skipped' = {} /\ raced' = FALSE
  /\ at' = [at EXCEPT !["endpoint"] = "snapshot"]
  /\ UNCHANGED <<surface, pending, frame, to, queue, ui, failed>>

\* RDPRenderHub.Register closes the channel of the registration before.
Register ==
  /\ at["endpoint"] = "register"
  /\ opened' = opened + 1 /\ gen' = opened + 1
  /\ skipped' = {} /\ raced' = FALSE
  /\ at' = [at EXCEPT !["endpoint"] = "snapshot"]
  /\ UNCHANGED <<surface, pending, frame, to, queue, ui, failed>>

\* rdpFullSnapshot, when something was drawn; the tiles stay dirty.
rdpFullSnapshot ==
  /\ at["endpoint"] = "snapshot"
  /\ IF \E t \in Tiles : fb[t] > 0
     THEN /\ frame' = [frame EXCEPT !["endpoint"] = fb]
          /\ at' = [at EXCEPT !["endpoint"] = "lookup"]
          /\ UNCHANGED <<pending, view, to>>
     ELSE finish("endpoint")
  /\ UNCHANGED <<surface, hub, batch, canvas, history>>

(* The user interface *)

\* The websocket is accepted for the registration in h.sessions only.
Connect ==
  /\ view = "answered"
  /\ view' = IF gen = opened THEN "up" ELSE "lost"
  /\ UNCHANGED <<surface, pending, at, frame, to, hub, batch, canvas, history>>

\* No websocket is made: the stream is closed, and opened again later.
ConnectFails ==
  /\ view = "answered"
  /\ view' = "none"
  /\ UNCHANGED <<surface, pending, at, frame, to, hub, batch, canvas, history>>

\* Faulty variant: a full frame does not stand for those before it.
serveFullFirst ==
  /\ view = "up" /\ queue[opened] # <<>>
  /\ LET f == Head(queue[opened]) IN
     batch' = IF IsFullSurface(f) THEN <<f>> \o batch ELSE Append(batch, f)
  /\ queue' = [queue EXCEPT ![opened] = Tail(@)]
  /\ UNCHANGED <<surface, pending, at, frame, to, opened, gen, view, canvas, history>>

\* serveWS takes a frame, and onmessage enters it in the batch.
serveWS ==
  /\ view = "up" /\ queue[opened] # <<>>
  /\ LET f == Head(queue[opened]) IN
     batch' = IF IsFullSurface(f) THEN <<f>> ELSE Append(batch, f)
  /\ queue' = [queue EXCEPT ![opened] = Tail(@)]
  /\ UNCHANGED <<surface, pending, at, frame, to, opened, gen, view, canvas, history>>

\* presentBatch, in the next animation frame: one frame is drawn over the other.
Present ==
  /\ batch # <<>>
  /\ canvas' = [t \in Tiles |->
                 LET with == {k \in DOMAIN batch : t \in DOMAIN batch[k]} IN
                 IF with = {} THEN canvas[t] ELSE batch[Max(with)][t]]
  /\ batch' = <<>>
  /\ UNCHANGED <<surface, pending, at, frame, to, hub, view, history>>

\* A write takes more than two seconds, or the channel is closed and read out.
\* The renderer is still there, so nobody opens the stream again.
StreamEnds ==
  /\ view = "up"
  /\ view' = "lost"
  /\ UNCHANGED <<surface, pending, at, frame, to, hub, batch, canvas, history>>

\* cleanupSession, with Unregister
cleanupSession ==
  /\ session = "open"
  /\ session' = "closed" /\ gen' = 0
  /\ UNCHANGED <<fb, dirty, applier, wake, pending, at, frame, to, opened, queue, ui, history>>

-----------------------------------------------------------------------------
Publish(p) == Lookup(p) \/ Send(p) \/ Drain(p) \/ Resend(p)
Pump       == Publish("pump") \/ PumpWake \/ PumpTick
Endpoint   == Publish("endpoint") \/ Register \/ rdpFullSnapshot
Stream     == serveWS \/ Present

RenderNext ==
  \/ \E drawn \in SUBSET Tiles \ {{}}, ok \in BOOLEAN : rdpApplyBitmaps(drawn, ok)
  \/ signalRender
  \/ Pump
  \/ PumpEnd
  \/ Endpoint
  \/ Stream
  \/ Ask
  \/ Connect
  \/ ConnectFails
  \/ StreamEnds
  \/ cleanupSession

RenderSpec == RenderInit /\ [][RenderNext]_renderVars

\* Goroutines, timers and animation frames go on; the desktop need not draw,
\* and nobody need open or close a stream.
FairSpec ==
  /\ RenderSpec
  /\ WF_renderVars(signalRender) /\ WF_renderVars(Pump) /\ WF_renderVars(Endpoint)
  /\ WF_renderVars(serveWS) /\ WF_renderVars(Present)

-----------------------------------------------------------------------------
(* Properties *)

\* The parts have their shapes; no channel holds more than its capacity.
RenderTypeOK ==
  /\ session \in {"open", "closed"} /\ applier \in {"idle", "signal"}
  /\ wake \in BOOLEAN /\ pending \in BOOLEAN /\ raced \in BOOLEAN /\ failed \in BOOLEAN
  /\ fb \in Contents /\ canvas \in Contents /\ dirty \subseteq Tiles /\ skipped \subseteq Tiles
  /\ at \in [Pubs -> Publishing \cup {"idle", "register", "snapshot", "ended"}]
  /\ at["pump"] \notin {"register", "snapshot"} /\ at["endpoint"] # "ended"
  /\ frame \in [Pubs -> Frames] /\ to \in [Pubs -> 0..MaxOpens]
  /\ opened \in 0..MaxOpens /\ gen \in {0, opened}
  /\ queue \in [1..MaxOpens -> Seq(Frames)]
  /\ \A g \in 1..MaxOpens : Len(queue[g]) <= QueueCap
  /\ batch \in Seq(Frames)
  /\ view \in {"none", "asking", "answered", "up", "lost"}

\* A frame that can still reach the canvas has the tile's latest content.
Underway(t) ==
  \E f \in ToSet(batch) \cup ToSet(queue[opened])
             \cup {frame[p] : p \in {q \in Pubs : to[q] \in {0, gen}}} :
    t \in DOMAIN f /\ f[t] = fb[t]

\* However often the stream is opened while frames are under way, a tile of the
\* canvas is out of date only as long as the tile is dirty or its content is
\* under way, unless backpressure skipped it, or the full frame of
\* RDPRenderEndpoint came after a newer frame of the pump.
StaleForAReason ==
  (view = "up" /\ session = "open" /\ ~raced) =>
    \A t \in Tiles : canvas[t] = fb[t] \/ t \in dirty \cup skipped \/ Underway(t)

\* What the desktop draws is on the canvas in the end, with those exceptions.
CanvasCatchesUp ==
  (view = "up") ~> (\/ canvas = fb
                    \/ skipped # {} \/ raced \/ failed
                    \/ view = "lost" \/ session = "closed")

\* "Periodic full keyframes heal any dirty rects skipped during backpressure"
\* (client/rdp_render.go:136-137).
KeyframesHeal ==
  \A t \in Tiles : (view = "up" /\ t \in skipped)
                     ~> (canvas[t] = fb[t] \/ view = "lost" \/ session = "closed")
=============================================================================
