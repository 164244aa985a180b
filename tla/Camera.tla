------------------------------- MODULE Camera -------------------------------
(***************************************************************************)
(* The camera driver while it runs (components/esp32-camera/driver/        *)
(* camera.c): the sensor's lines come through DMA buffers and a queue of   *)
(* their numbers to a task, which puts them together in a ring of frame    *)
(* buffers; other tasks borrow the finished ones.                          *)
(*                                                                         *)
(*   config    how the driver was initialised, and what it meets           *)
(*   fbs       the frame buffers: ref, bad, len and what is in them        *)
(*   cur       s_state->fb                                                 *)
(*   filtered  dma_filtered_count                                          *)
(*   bus       rx: I2S0.conf.rx_start; vsync: its interrupt is enabled;    *)
(*             desc: dma_desc_cur; received: dma_received_count            *)
(*   dma       what is in the DMA buffers                                  *)
(*   ready     data_ready: numbers of DMA buffers, and End for SIZE_MAX    *)
(*   fbIn, fbOut, frameReady   fb_in, fb_out, frame_ready                  *)
(*   filter    what dma_filter_task has in hands                           *)
(*   sensor    the frame and the line it sends; active: VSYNC is high      *)
(*   task      what the callers of esp_camera_fb_get do                    *)
(*                                                                         *)
(* A frame buffer holds lines, each named by its frame and its place in    *)
(* it.  The interrupt handlers run on the core of the task and are atomic  *)
(* for it; between its steps they run at any time.                         *)
(***************************************************************************)
EXTENDS Integers, Sequences, FiniteSets

CONSTANTS
  Task,
  Configs     \* how the driver was initialised and what it meets, see below

\* fbCount, jpeg  fb_count, pixel_format = PIXFORMAT_JPEG
\* queue          places of data_ready (16)
\* descs          dma_desc_count (4 for every DMA buffer of a line)
\* room           fb_size in DMA buffers
\* tasks          the tasks that ask for frames
\* lines          how many full DMA buffers a frame may have
\* frames         frames are numbered modulo this
\* timeouts       how many calls may time out
\* lag            DMA buffers the driver's task may be behind
ASSUME CameraAssumption ==
  \A c \in Configs :
    /\ {c.fbCount, c.queue, c.descs, c.room, c.frames} \cup c.lines \subseteq Nat \ {0}
    /\ c.jpeg \in BOOLEAN /\ c.tasks \subseteq Task /\ {c.timeouts, c.lag} \subseteq Nat

VARIABLES config, fbs, cur, filtered, bus, dma, ready, fbIn, fbOut, frameReady,
          filter, sensor, task, timeouts

driver == <<fbs, cur, filtered, bus, dma, ready, fbIn, fbOut, frameReady, filter>>
vars   == <<config, driver, sensor, task, timeouts>>

End     == -1     \* SIZE_MAX
None    == -2
Closing == -3

Fb     == 1 .. config.fbCount
Single == config.fbCount = 1
Next1(b) == (b % config.fbCount) + 1

Zero  == [frame |-> 0, line |-> 0, last |-> FALSE]
Chunk == [frame : 0 .. config.frames - 1, line : Nat, last : BOOLEAN]

Range1(q) == {q[k] : k \in DOMAIN q}

CameraTypeOK ==
  /\ config \in Configs
  /\ \A b \in Fb : /\ fbs[b].ref \in BOOLEAN /\ fbs[b].bad \in BOOLEAN
                   /\ fbs[b].len \in 0 .. config.room
                   /\ Len(fbs[b].data) <= config.room /\ Range1(fbs[b].data) \subseteq Chunk
  /\ cur \in Fb /\ filtered \in 0 .. config.room
  /\ bus \in [rx : BOOLEAN, vsync : BOOLEAN, desc : 0 .. config.descs - 1, received : Nat]
  /\ DOMAIN dma = 0 .. config.descs - 1 /\ \A d \in DOMAIN dma : dma[d] \in Chunk
  /\ Len(ready) <= config.queue /\ Range1(ready) \subseteq (0 .. config.descs - 1) \cup {End}
  /\ Len(fbIn) <= config.fbCount /\ Len(fbOut) <= 1
  /\ Range1(fbIn) \cup Range1(fbOut) \subseteq Fb
  /\ frameReady \in BOOLEAN
  /\ filter \in (0 .. config.descs - 1) \cup {None, End, Closing}
  /\ \A t \in config.tasks : task[t].at \in {"idle", "run", "wait", "held"}
                             /\ task[t].fb \in Fb \cup {0}

Idle == [at |-> "idle", fb |-> 0]

Init ==
  /\ config \in Configs
  /\ fbs = [b \in Fb |-> [ref |-> FALSE, bad |-> FALSE, len |-> 0, data |-> <<>>]]
  /\ cur = 1 /\ filtered = 0
  /\ bus = [rx |-> FALSE, vsync |-> FALSE, desc |-> 0, received |-> 0]
  /\ dma = [d \in 0 .. config.descs - 1 |-> Zero]
  /\ ready = <<>> /\ fbIn = <<>> /\ fbOut = <<>> /\ frameReady = FALSE
  /\ filter = None
  /\ sensor = [active |-> FALSE, frame |-> 0, line |-> 0, lines |-> 0]
  /\ task = [t \in config.tasks |-> Idle]
  /\ timeouts = 0

----------------------------------------------------------------------------
(* The bus and the interrupt handlers, on [bus, ready, fbs] *)

StartBus(b) ==
  [rx |-> TRUE, vsync |-> b.vsync \/ config.jpeg, desc |-> 0, received |-> 0]

StopBus(b) == [b EXCEPT !.rx = FALSE, !.vsync = FALSE]

Queued(q, e) == IF Len(q) < config.queue THEN Append(q, e) ELSE q

\* i2s_stop: the mark of the end is lost when the queue is full.
I2sStop(s) ==
  [s EXCEPT !.bus = IF Single /\ ~s.fbs[cur].bad THEN StopBus(@)
                    ELSE [@ EXCEPT !.received = 0],
            !.ready = Queued(@, End)]

\* signal_dma_buf_received
Received(s) ==
  LET taken == ~s.fbs[cur].ref /\ s.fbs[cur].bad
      full  == Len(s.ready) = config.queue
  IN [bus   |-> [s.bus EXCEPT !.desc = (@ + 1) % config.descs, !.received = @ + 1],
      ready |-> IF taken THEN s.ready ELSE Queued(s.ready, s.bus.desc),
      fbs   |-> IF full /\ ~s.fbs[cur].ref THEN [s.fbs EXCEPT ![cur].bad = TRUE]
                ELSE s.fbs]

Now == [bus |-> bus, ready |-> ready, fbs |-> fbs]

I2sIsr ==
  LET s == Received(Now)
  IN IF ~config.jpeg /\ s.bus.received = sensor.lines THEN I2sStop(s) ELSE s

Rewound(s) ==
  [s EXCEPT !.bus = [s.bus EXCEPT !.rx = TRUE, !.desc = (@ + 1) % config.descs,
                                  !.received = 0]]

\* Mutant: a frame is not ended when there are more buffers.
VsyncIsrRuns ==
  LET s == IF bus.received > 0 THEN Received(Now) ELSE Now
      e == IF bus.received > 0 /\ (filtered > 1 \/ s.fbs[cur].bad) THEN I2sStop(s) ELSE s
  IN IF ~Single \/ filtered < 2 THEN Rewound(e) ELSE e

VsyncIsr ==
  LET s == IF bus.received > 0 THEN Received(Now) ELSE Now
      e == IF bus.received > 0 /\ (filtered > 1 \/ s.fbs[cur].bad \/ ~Single)
             THEN I2sStop(s) ELSE s
  IN IF ~Single \/ filtered < 2 THEN Rewound(e) ELSE e

Handled(s) == bus' = s.bus /\ ready' = s.ready /\ fbs' = s.fbs

----------------------------------------------------------------------------
(* The sensor: VSYNC is high while it sends a frame *)

Behind == Len(ready) + (IF filter = None THEN 0 ELSE 1)

\* The task reads a DMA buffer before it is filled again.
KeepsUp == config.lag < config.descs - 1

SensorStart(n) ==
  /\ ~sensor.active
  /\ sensor' = [active |-> TRUE, frame |-> (sensor.frame + 1) % config.frames, line |-> 0,
                lines |-> n]
  /\ UNCHANGED <<config, driver, task, timeouts>>

Sent(last) == [frame |-> sensor.frame, line |-> sensor.line + 1, last |-> last]

\* A DMA buffer is full.
SensorLine ==
  /\ sensor.active /\ sensor.line < sensor.lines
  /\ sensor' = [sensor EXCEPT !.line = @ + 1]
  /\ IF bus.rx
       THEN /\ Behind <= config.lag
            /\ dma' = [dma EXCEPT ![bus.desc] = Sent(~config.jpeg /\ sensor.line + 1 = sensor.lines)]
            /\ Handled(I2sIsr)
       ELSE UNCHANGED <<bus, ready, fbs, dma>>
  /\ UNCHANGED <<config, cur, filtered, fbIn, fbOut, frameReady, filter, task, timeouts>>

\* The frame ends, a JPEG with a buffer that is not full.
SensorEnd ==
  /\ sensor.active /\ sensor.line = sensor.lines
  /\ sensor' = [sensor EXCEPT !.active = FALSE]
  /\ dma' = IF config.jpeg /\ bus.rx THEN [dma EXCEPT ![bus.desc] = Sent(TRUE)] ELSE dma
  /\ IF bus.vsync
       THEN Behind <= config.lag /\ Handled(VsyncIsr)
       ELSE UNCHANGED <<bus, ready, fbs>>
  /\ UNCHANGED <<config, cur, filtered, fbIn, fbOut, frameReady, filter, task, timeouts>>

----------------------------------------------------------------------------
(* dma_filter_task *)

Take ==
  /\ filter = None /\ ready # <<>>
  /\ filter' = Head(ready) /\ ready' = Tail(ready)
  /\ UNCHANGED <<config, fbs, cur, filtered, bus, dma, fbIn, fbOut, frameReady,
                 sensor, task, timeouts>>

Written(b) == [fbs EXCEPT ![b].data = Append(SubSeq(@, 1, filtered), dma[filter])]

\* Mutant: a frame that somebody has is written to.
InUseBad == fbs[cur].bad

InUse == fbs[cur].ref \/ fbs[cur].bad

NoRoom == filtered > config.room - 1

\* The first bytes are those of a JPEG.
Header == config.jpeg => dma[filter].line = 1

\* dma_filter_buffer
FilterBuffer ==
  /\ filter \in DOMAIN dma
  /\ IF InUse \/ NoRoom
       THEN UNCHANGED <<fbs, filtered>>
     ELSE IF filtered = 0 /\ ~Header
       THEN fbs' = [Written(cur) EXCEPT ![cur].bad = TRUE] /\ UNCHANGED filtered
     ELSE fbs' = Written(cur) /\ filtered' = filtered + 1
  /\ filter' = None
  /\ UNCHANGED <<config, cur, bus, dma, ready, fbIn, fbOut, frameReady, sensor,
                 task, timeouts>>

Dist(b, c) == ((c - b + config.fbCount - 1) % config.fbCount) + 1
After(b, k) == ((b - 1 + k) % config.fbCount) + 1

MinOf(S) == CHOOSE k \in S : \A j \in S : k <= j

\* The next buffer that is free, or the old one.
NextFree(f, from, old) ==
  LET free == {k \in 0 .. Dist(from, old) - 1 : ~f[After(from, k)].ref}
  IN IF free = {} THEN old ELSE After(from, MinOf(free))

\* Mutant: the buffer a newer frame displaces stays referenced.
GivenUpKept(f, popped) == f

\* Buffers that may be filled again; what is in them is of no more use.
GivenUp(f, popped) ==
  [b \in Fb |-> IF b \in popped THEN [f[b] EXCEPT !.ref = FALSE, !.len = 0, !.data = <<>>]
               ELSE f[b]]

\* Mutant: what tasks return is taken from the queue and forgotten.
ReclaimedNot(f) == f

Reclaimed(f) == GivenUp(f, Range1(fbIn))

\* camera_fb_done: f are the buffers with the length of the current one set.
FbDone(f) ==
  IF Single
    THEN frameReady' = TRUE /\ fbs' = f /\ UNCHANGED <<cur, fbIn, fbOut>>
    ELSE LET new      == ~f[cur].ref /\ f[cur].len > 0
             offered  == IF new THEN GivenUp([f EXCEPT ![cur].ref = TRUE], Range1(fbOut))
                         ELSE f
             returned == Reclaimed(offered)
             from     == IF returned[cur].len > 0 THEN Next1(cur) ELSE cur
             next     == NextFree(returned, from, cur)
         IN /\ fbOut' = IF new THEN <<cur>> ELSE fbOut
            /\ fbIn' = <<>>
            /\ cur' = next
            /\ fbs' = IF returned[next].ref THEN returned
                      ELSE [returned EXCEPT ![next].len = 0, ![next].data = <<>>]
            /\ UNCHANGED frameReady

\* The data behind the end marker of a JPEG is discarded.
Length ==
  LET marks == {k \in 1 .. filtered : fbs[cur].data[k].last}
  IN IF config.jpeg /\ marks # {} THEN CHOOSE k \in marks : \A j \in marks : j <= k
     ELSE filtered

\* dma_finish_frame, up to its last assignment
FinishFrame ==
  /\ filter = End
  /\ IF fbs[cur].ref /\ fbs[cur].len > 0
       THEN FbDone(fbs) /\ UNCHANGED bus
     ELSE IF ~fbs[cur].ref /\ ~fbs[cur].bad /\ filtered > 0
       THEN FbDone([fbs EXCEPT ![cur].len = Length, ![cur].data = SubSeq(@, 1, Length)]) /\ UNCHANGED bus
     ELSE /\ fbs' = IF fbs[cur].ref THEN fbs
                    ELSE [fbs EXCEPT ![cur].bad = FALSE, ![cur].len = 0, ![cur].data = <<>>]
          /\ bus' = IF Single /\ ~fbs[cur].ref THEN StartBus(bus) ELSE bus
          /\ UNCHANGED <<cur, fbIn, fbOut, frameReady>>
  /\ filter' = Closing
  /\ UNCHANGED <<config, filtered, dma, ready, sensor, task, timeouts>>

Close ==
  /\ filter = Closing
  /\ filtered' = 0 /\ filter' = None
  /\ UNCHANGED <<config, fbs, cur, bus, dma, ready, fbIn, fbOut, frameReady,
                 sensor, task, timeouts>>

----------------------------------------------------------------------------
(* The tasks that want frames: esp_camera_fb_get, esp_camera_fb_return *)

Goes(t, at, fb) == task' = [task EXCEPT ![t] = [at |-> at, fb |-> fb]]

FbGet(t) ==
  /\ task[t].at = "idle"
  /\ IF bus.rx
       THEN Goes(t, "wait", 0) /\ UNCHANGED <<dma, cur>>
       ELSE /\ \E b \in Fb : Single \/ ~fbs[b].ref
            /\ Goes(t, "run", 0)
            /\ dma' = [d \in DOMAIN dma |-> Zero]
            /\ cur' = IF Single THEN cur ELSE NextFree(fbs, cur, cur)
  /\ UNCHANGED <<config, fbs, filtered, bus, ready, fbIn, fbOut, frameReady, filter,
                 sensor, timeouts>>

\* i2s_run has seen VSYNC low.
Run(t) ==
  /\ task[t].at = "run" /\ ~sensor.active
  /\ bus' = StartBus(bus)
  /\ Goes(t, "wait", 0)
  /\ UNCHANGED <<config, fbs, cur, filtered, dma, ready, fbIn, fbOut, frameReady,
                 filter, sensor, timeouts>>

\* i2s_run has waited too long for it.
RunTimeout(t) ==
  /\ task[t].at = "run" /\ sensor.active /\ timeouts < config.timeouts
  /\ timeouts' = timeouts + 1
  /\ Goes(t, "idle", 0)
  /\ UNCHANGED <<config, driver, sensor>>

FbGot(t) ==
  /\ task[t].at = "wait"
  /\ IF Single
       THEN frameReady /\ frameReady' = FALSE /\ Goes(t, "held", cur) /\ UNCHANGED fbOut
       ELSE fbOut # <<>> /\ fbOut' = Tail(fbOut) /\ Goes(t, "held", Head(fbOut))
            /\ UNCHANGED frameReady
  /\ UNCHANGED <<config, fbs, cur, filtered, bus, dma, ready, fbIn, filter, sensor,
                 timeouts>>

FbTimeout(t) ==
  /\ task[t].at = "wait" /\ ~frameReady /\ fbOut = <<>>
  /\ timeouts < config.timeouts /\ timeouts' = timeouts + 1
  /\ Handled(I2sStop(Now))
  /\ Goes(t, "idle", 0)
  /\ UNCHANGED <<config, cur, filtered, dma, fbIn, fbOut, frameReady, filter, sensor>>

FbReturn(t) ==
  /\ task[t].at = "held"
  /\ IF Single THEN UNCHANGED fbIn
     ELSE Len(fbIn) < config.fbCount /\ fbIn' = Append(fbIn, task[t].fb)
  /\ Goes(t, "idle", 0)
  /\ UNCHANGED <<config, fbOut, fbs, cur, filtered, bus, dma, ready, frameReady, filter,
                 sensor, timeouts>>

Next ==
  \/ \E n \in config.lines : SensorStart(n)
  \/ SensorLine \/ SensorEnd
  \/ Take \/ FilterBuffer \/ FinishFrame \/ Close
  \/ \E t \in config.tasks : FbGet(t) \/ Run(t) \/ RunTimeout(t) \/ FbGot(t)
                             \/ FbTimeout(t) \/ FbReturn(t)

\* The sensor sends frames for ever, the driver's task runs, and a task goes
\* on with its call and gives back the frame it got; none has to ask.
Fairness ==
  /\ WF_vars(SensorLine \/ SensorEnd \/ \E n \in config.lines : SensorStart(n))
  /\ WF_vars(Take \/ FilterBuffer \/ FinishFrame \/ Close)
  /\ \A t \in Task : WF_vars(t \in config.tasks /\ (FbGot(t) \/ FbReturn(t)))
  /\ \A t \in Task : SF_vars(t \in config.tasks /\ Run(t))

Spec == Init /\ [][Next]_vars
FairSpec == Spec /\ Fairness

----------------------------------------------------------------------------
Held(b) == {t \in config.tasks : task[t].at = "held" /\ task[t].fb = b}

Times(b, q) == Cardinality({k \in DOMAIN q : q[k] = b})

\* With several buffers, each that is referenced is in exactly one place: the
\* queue of finished frames, that of returned ones or the hands of one task
\* (camera_fb_done, esp_camera_fb_get, esp_camera_fb_return).  None is lost,
\* none is given to two tasks.
OnePlace ==
  Single \/ \A b \in Fb :
    Times(b, fbIn) + Times(b, fbOut) + Cardinality(Held(b)) = IF fbs[b].ref THEN 1 ELSE 0

\* What a task gets is one photo from its first line on, and all of it unless
\* a call timed out (i2s_stop ends the frame where it is).  Only if
\* dma_filter_task keeps up: nothing tests that a DMA buffer is still the one
\* that was signalled, and a lost end mark joins two photos.
OneFrame ==
  KeepsUp => \A t \in config.tasks : task[t].at = "held" =>
    LET f == fbs[task[t].fb]
    IN /\ \A k \in 1 .. f.len : /\ f.data[k].line = k
                                /\ f.data[k].frame = f.data[1].frame
       /\ f.len > 0
       /\ f.data[f.len].last \/ timeouts > 0

\* The driver does not write to the frame a task has (dma_filter_buffer).
FrameKept ==
  [][\A t \in config.tasks : task[t].at = "held" /\ task'[t] = task[t] =>
       fbs'[task[t].fb].data = fbs[task[t].fb].data
       /\ fbs'[task[t].fb].len = fbs[task[t].fb].len]_vars

\* While a task waits for a frame, some task gets one or a call times out
\* (camera_fb_done keeps a buffer free or takes it from the queue).
SomeServed ==
  (KeepsUp /\ \E t \in config.tasks : task[t].at = "wait") ~>
    (\E t \in config.tasks : task[t].at \in {"held", "idle"})
=============================================================================
