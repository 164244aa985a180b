---------------------------- MODULE CameraSetup ----------------------------
(***************************************************************************)
(* How a device brings its camera up and changes its settings: the two     *)
(* halves of esp_camera_init (driver/camera.c), camera_setup of the        *)
(* program (main/router.c), the settings of the configuration web page     *)
(* (cmd_handler, main/app_httpd.c), and the lines of pixels the driver     *)
(* makes of what comes through its DMA buffers.                            *)
(*                                                                         *)
(*   config   the camera and what it is asked for                          *)
(*   phase    how far camera_setup is                                      *)
(*   held     what esp_camera_init has taken                               *)
(*   wild     esp_camera_deinit freed pointers that were never set         *)
(*   sensor   s_state->sensor and the sensor itself, see Sccb              *)
(*   answer   the last setting of the web page and whether it was confirmed*)
(*   clean    no transaction and no setting has failed                     *)
(*   lines    the line in the frame buffer: for every byte the bytes of    *)
(*            the sensor it is made from                                   *)
(***************************************************************************)
EXTENDS Sccb

CONSTANT Configs     \* see MCCameraSetup

\* model      the camera: its driver, or "none"
\* format, framesize, quality, fbCount, fast   what camera_config_t asks for;
\*            fast: xclk_freq_hz is above 10 MHz
\* settings   what the web page may set, to which values
\* left       where transactions fail: while the camera is set up, later
\* fails      steps of camera_init that may fail
ASSUME SetupAssumption ==
  \A c \in Configs :
    /\ c.model \in {"ov2640", "ov3660", "ov7725", "none"}
    /\ c.framesize \in 0 .. INVALID - 1 /\ c.fbCount \in Nat \ {0}
    /\ c.fast \in BOOLEAN

VARIABLES config, phase, held, wild, sensor, answer, clean, lines

vars == <<config, phase, held, wild, sensor, answer, clean, lines>>

O2 == INSTANCE Ov2640
O3 == INSTANCE Ov3660
O7 == INSTANCE Ov7725

----------------------------------------------------------------------------
(* sensor_t: the functions the driver of the camera found fills in *)

Set(s, f, v) ==
  CASE config.model = "ov2640" -> O2!Set(s, f, v)
    [] config.model = "ov3660" -> O3!Set(s, f, v)
    [] config.model = "ov7725" -> O7!Set(s, f, v)

SetPixformat(s, p) ==
  CASE config.model = "ov2640" -> O2!SetPixformat(s, p)
    [] config.model = "ov3660" -> O3!SetPixformat(s, p)
    [] config.model = "ov7725" -> O7!SetPixformat(s, p)

SoftReset(s) ==
  CASE config.model = "ov2640" -> O2!SoftReset(s)
    [] config.model = "ov3660" -> O3!SoftReset(s)
    [] config.model = "ov7725" -> O7!SoftReset(s)

InitStatus(s) ==
  CASE config.model = "ov2640" -> O2!InitStatus(s)
    [] config.model = "ov3660" -> O3!InitStatus(s)
    [] config.model = "ov7725" -> O7!InitStatus(s)

ReadBack(s, f) ==
  CASE config.model = "ov2640" -> O2!ReadBack(s, f)
    [] config.model = "ov3660" -> O3!ReadBack(s, f)
    [] config.model = "ov7725" -> O7!ReadBack(s, f)

OutputSize(s) ==
  CASE config.model = "ov2640" -> O2!OutputSize(s)
    [] config.model = "ov3660" -> O3!OutputSize(s)
    [] config.model = "ov7725" -> O7!OutputSize(s)

PowerOnCells ==
  CASE config.model = "ov2640" -> O2!PowerOn
    [] config.model = "ov3660" -> O3!PowerOn
    [] config.model = "ov7725" -> O7!PowerOn
    [] OTHER                   -> [c \in {} |-> 0]

Statuses ==
  {"framesize", "quality", "brightness", "contrast", "saturation", "sharpness", "denoise",
   "special_effect", "wb_mode", "awb", "awb_gain", "aec", "aec2", "ae_level", "aec_value",
   "agc", "agc_gain", "gainceiling", "bpc", "wpc", "raw_gma", "lenc", "hmirror", "vflip",
   "dcw", "colorbar"}

\* s_state is cleared, and nobody has chosen a bank.
PowerOn ==
  [hw |-> PowerOnCells, bank |-> O2!Dsp, cached |-> O2!BankMax, ptr |-> 0,
   pixformat |-> "rgb565", status |-> [f \in Statuses |-> 0],
   left |-> -1, ok |-> TRUE, lost |-> FALSE, junk |-> FALSE]

----------------------------------------------------------------------------
(* camera_probe *)

Reads(s, n) == FoldLeft(LAMBDA t, k : AfterRead(t), s, [k \in 1 .. n |-> k])

\* An OV2640 is reset once before it is asked who it is; its bank is chosen
\* without a note.
ResetOv2640(s) ==
  Spent(Ignored(O2!Write(Ignored(O2!Write(s, O2!BANK_SEL, O2!Sensor)), O2!COM7, 128)), 1)

\* The address that answers first; nothing at all is taken for an OV3660.
Found(s) == s.left # 0 \/ config.model = "ov3660"

\* What the first read says is the model.
Known(s) == config.model # "none" /\ Found(s) /\ Spent(s, 1).left \notin {0, 1}

KnownOv2640(s) == Found(s) /\ ResetOv2640(Spent(s, 1)).left \notin {0, 1}

Identified(s) == IF config.model = "ov2640" THEN KnownOv2640(s) ELSE Known(s)

\* How it is after ov2640_init and so on, and its reset.
Probed(s) ==
  LET asked == CASE config.model = "ov2640" -> Reads(ResetOv2640(Spent(s, 1)), 4)
                 [] config.model = "ov3660" -> Reads(Spent(s, 1), 2)
                 [] config.model = "ov7725" -> Reads(Spent(s, 1), 8)
  IN Ignored(SoftReset([asked EXCEPT !.junk = FALSE]))

----------------------------------------------------------------------------
(* camera_init *)

Jpeg == config.format = "jpeg"

JpegRefused == Jpeg /\ config.model = "ov7725"

Supported ==
  \/ config.format \in {"grayscale", "yuv422", "rgb565", "rgb888"}
  \/ Jpeg /\ config.model \in {"ov2640", "ov3660"}

\* What is allocated, in this order; the two queues are asked for together.
Allocations ==
  <<"i2s_intr", "dma_buf", "dma_desc", "dma_bufs", "fb", "data_ready">>
    \o (IF config.fbCount = 1 THEN <<"frame_ready">> ELSE <<"fb_in", "fb_out">>)
    \o <<"dma_filter_task", "isr_handler">>

\* fails: the allocation that fails, "vsync" or "none".
Allocated(fails) ==
  { Allocations[k] : k \in {j \in DOMAIN Allocations : \A i \in 1 .. j : Allocations[i] # fails} }
    \cup (IF fails = "fb_in" THEN {"fb_out"} ELSE {})

\* Mutant: the queues are deleted only when both are there.
DeinitQueuesTogether(h) ==
  h \ ({"dma_filter_task", "data_ready", "frame_ready", "isr_handler", "i2s_intr", "dma_buf",
        "dma_desc", "dma_bufs", "fb", "state", "clock"}
        \cup (IF {"fb_in", "fb_out"} \subseteq h THEN {"fb_in", "fb_out"} ELSE {}))

\* esp_camera_deinit
Deinit(h) ==
  h \ {"dma_filter_task", "data_ready", "fb_in", "fb_out", "frame_ready", "isr_handler",
       "i2s_intr", "dma_buf", "dma_desc", "dma_bufs", "fb", "state", "clock"}

\* dma_desc_deinit goes through dma_buf, filled or not.
FreesUnset(h) == "dma_buf" \in h /\ "dma_bufs" \notin h

Quality(s) == IF Jpeg THEN Ignored(Set(s, "quality", config.quality)) ELSE s

\* What an OV2640 is given apart; no result is looked at.
Extras(s) ==
  IF config.model # "ov2640" THEN s
  ELSE FoldLeft(LAMBDA t, e : Ignored(Set(t, e[1], e[2])), s,
                << <<"gainceiling", 0>>, <<"bpc", 0>>, <<"wpc", 1>>, <<"lenc", 1>> >>)

Formatted(s) == IF s.ok THEN Extras(Ignored(SetPixformat(s, config.format))) ELSE s

\* The sensor when all is allocated; not ok when the size cannot be set.
Framed(s) ==
  Formatted(Set([Noted(s, "framesize", config.framesize) EXCEPT !.pixformat = config.format],
                "framesize", config.framesize))

Finished(s) == InitStatus([Quality(s) EXCEPT !.left = -1])

----------------------------------------------------------------------------
(* A line through the DMA buffers: what dma_desc_init makes of the format, *)
(* and the filters *)

Gray == config.format = "grayscale"

\* Mutant: the grey pictures of the OV3660 are taken for YUV.
FilterNameYuv ==
  CASE Jpeg -> "jpeg"
    [] Gray -> IF config.fast /\ config.model # "ov7725" THEN "grayscale_highspeed" ELSE "grayscale"
    [] config.format \in {"yuv422", "rgb565"} ->
         IF config.fast /\ config.model # "ov7725" THEN "yuyv_highspeed" ELSE "yuyv"
    [] config.format = "rgb888" -> IF config.fast THEN "rgb888_highspeed" ELSE "rgb888"

\* dma_filter
FilterName ==
  CASE Jpeg -> "jpeg"
    [] Gray /\ config.model = "ov3660" -> IF config.fast THEN "yuyv_highspeed" ELSE "yuyv"
    [] Gray /\ config.model # "ov3660" ->
         IF config.fast /\ config.model # "ov7725" THEN "grayscale_highspeed" ELSE "grayscale"
    [] config.format \in {"yuv422", "rgb565"} ->
         IF config.fast /\ config.model # "ov7725" THEN "yuyv_highspeed" ELSE "yuyv"
    [] config.format = "rgb888" -> IF config.fast THEN "rgb888_highspeed" ELSE "rgb888"

\* sampling_mode: one byte of the sensor in an element (SM_0A00_0B00), or two.
BytesPerElement ==
  IF \/ Jpeg
     \/ config.fast /\ (config.model # "ov7725" \/ config.format = "rgb888")
  THEN 1 ELSE 2

InBytes == IF Gray /\ config.model = "ov3660" THEN 1 ELSE 2

FbBytes == CASE Gray -> 1 [] config.format = "rgb888" -> 3 [] OTHER -> 2

Width  == WidthOf(config.framesize)
Height == HeightOf(config.framesize)

CompressionBound(qp) == IF qp > 10 THEN 16 ELSE IF qp > 5 THEN 10 ELSE 4

FbSize ==
  (Width * Height * FbBytes) \div (IF Jpeg THEN CompressionBound(config.quality) ELSE 1)

\* line_size is halved until it is less than 4096.
LineSize == Width * InBytes * (4 \div BytesPerElement)
DmaPerLine == CHOOSE n \in {1, 2, 4, 8, 16} :
                LineSize \div n < 4096 /\ (n = 1 \/ LineSize \div (n \div 2) >= 4096)

\* Elements of 4 bytes in a DMA buffer.
Elements == (LineSize \div DmaPerLine) \div 4

\* How many elements a turn of the filter's loop reads, and for every byte it
\* writes the elements and samples it is made from.
Filter(name) ==
  LET one(k)  == {<<k, 1>>}
      \* The three colours of the pixel in the bytes hb and lb.
      colour(k, hb, lb) == CASE k % 3 = 0 -> lb [] k % 3 = 1 -> hb \cup lb [] OTHER -> hb
  IN CASE name \in {"jpeg", "grayscale"} ->
            [reads |-> 4, writes |-> [k \in 0 .. 3 |-> one(k)]]
       [] name = "grayscale_highspeed" ->
            [reads |-> 8, writes |-> [k \in 0 .. 3 |-> one(2 * k)]]
       [] name = "yuyv" ->
            [reads |-> 4, writes |-> [k \in 0 .. 7 |-> {<<k \div 2, 1 + (k % 2)>>}]]
       [] name = "yuyv_highspeed" ->
            [reads |-> 8, writes |-> [k \in 0 .. 7 |-> one(k)]]
       [] name = "rgb888" ->
            [reads |-> 4, writes |-> [k \in 0 .. 11 |->
                colour(k, one(k \div 3), {<<k \div 3, 2>>})]]
       [] name = "rgb888_highspeed" ->
            [reads |-> 8, writes |-> [k \in 0 .. 11 |->
                colour(k, one(2 * (k \div 3)), one(2 * (k \div 3) + 1))]]

\* Where the byte of the sensor is that a sample of a DMA buffer holds.
SensorByte(buffer, sample) ==
  (buffer * Elements + sample[1]) * BytesPerElement + sample[2] - 1

\* dma_filter: what the bytes written for a DMA buffer are made from.
Filtered(buffer) ==
  LET f     == Filter(FilterName)
      turn  == Cardinality(DOMAIN f.writes)
      turns == Elements \div f.reads
  IN [k \in 0 .. turns * turn - 1 |->
        { SensorByte(buffer, <<(k \div turn) * f.reads + e[1], e[2]>>) : e \in f.writes[k % turn] }]

----------------------------------------------------------------------------
Init ==
  /\ config \in Configs
  /\ phase = "off" /\ held = {} /\ wild = FALSE
  /\ sensor = PowerOn /\ answer = <<>> /\ clean = TRUE /\ lines = <<>>

\* A setting of the page counts as a failure when a transaction it needed
\* failed, whatever the handler says.
Untouched(s, left) == left = -1 \/ s.left # -1

SetupFails ==
  /\ phase' = "failed" /\ clean' = FALSE /\ UNCHANGED <<config, answer, lines>>

\* esp_camera_init when the camera is not one it knows: the first half has
\* taken s_state and the clock.
ProbeFails ==
  /\ phase = "off"
  /\ \E left \in config.left.setup :
       LET s == [PowerOn EXCEPT !.left = left]
       IN /\ ~Identified(s) \/ JpegRefused
          /\ sensor' = [s EXCEPT !.left = -1]
  /\ held' = {"sccb"} /\ wild' = FALSE
  /\ SetupFails

\* esp_camera_init; fails is the step of camera_init that fails.
CameraInit ==
  /\ phase = "off"
  /\ \E left \in config.left.setup, fails \in config.fails :
       LET s0 == [PowerOn EXCEPT !.left = left]
           all == Allocated(fails) = ToSet(Allocations)
           taken == {"state", "clock", "sccb"} \cup Allocated(fails)
       IN /\ Identified(s0) /\ ~JpegRefused
          /\ \E s1 \in {Quality(Probed(s0))} : \E s2 \in {Framed(s1)} :
               IF Supported /\ all /\ s2.ok /\ fails # "vsync"
               THEN /\ sensor' = Ignored(Set(Finished(s2), "framesize", config.framesize))
                    /\ phase' = "ready" /\ held' = taken /\ wild' = FALSE
                    /\ clean' = Untouched(s2, left)
                    /\ UNCHANGED <<config, answer, lines>>
               ELSE /\ sensor' = [(IF Supported /\ all THEN s2 ELSE s1) EXCEPT !.left = -1]
                    /\ held' = Deinit(IF Supported THEN taken ELSE {"state", "clock", "sccb"})
                    /\ wild' = (Supported /\ FreesUnset(taken))
                    /\ SetupFails

\* system_reboot, and the device is off until the watchdog has reset it.
Reboot ==
  /\ phase = "failed"
  /\ phase' = "off" /\ held' = {} /\ wild' = FALSE /\ sensor' = PowerOn
  /\ answer' = <<>> /\ clean' = TRUE /\ UNCHANGED <<config, lines>>

\* cmd_handler, for a setting of the camera; one transaction fails at most.
Command ==
  /\ phase = "ready"
  /\ \E f \in DOMAIN config.settings, left \in config.left.later :
       \E v \in config.settings[f] :
       \E t \in {Set([sensor EXCEPT !.left = left, !.ok = TRUE], f, v)} :
         LET ignored == f = "framesize" /\ sensor.pixformat # "jpeg"
         IN /\ left # -1 => clean
            /\ sensor' = IF ignored THEN sensor ELSE [t EXCEPT !.left = -1, !.ok = TRUE]
            /\ answer' = <<f, ignored \/ t.ok>>
            /\ clean' = (clean /\ (ignored \/ (t.ok /\ Untouched(t, left))))
  /\ UNCHANGED <<config, phase, held, wild, lines>>

\* dma_filter_buffer for the next DMA buffer of a line
Line ==
  /\ phase = "ready" /\ config.line
  /\ Len(lines) < DmaPerLine
  /\ lines' = Append(lines, Filtered(Len(lines)))
  /\ UNCHANGED <<config, phase, held, wild, sensor, answer, clean>>

Next == ProbeFails \/ CameraInit \/ Reboot \/ Command \/ Line

Spec == Init /\ [][Next]_vars
----------------------------------------------------------------------------
Ready == phase = "ready"

(***************************************************************************)
(* set_bank skips the write when the bank is the one it noted: as long as  *)
(* every choice of a bank was acknowledged, through resets, tables and     *)
(* settings that failed half way, the note is the bank the OV2640 is in.   *)
(***************************************************************************)
BankKnown ==
  Ready /\ config.model = "ov2640" /\ ~sensor.lost /\ ~sensor.junk =>
    sensor.cached = sensor.bank

\* Apart from two: set_aec2 of the OV2640 writes the opposite of what its
\* init_status reads, and on the OV3660 a mode of the white balance is made with
\* the register that says whether its gains are set by hand.
Told ==
  CASE config.model = "ov2640" -> Statuses \ {"aec2"}
    [] config.model = "ov3660" -> Statuses \ {"awb_gain"}
    [] OTHER                   -> Statuses

\* And the tables of a frame size of the OV2640 write dcw and the colour bar too.
Lasting == IF config.model = "ov2640" THEN Told \ {"dcw", "colorbar"} ELSE Told

(***************************************************************************)
(* As long as nothing failed the status, which the web page shows, is what *)
(* init_status would read from the sensor, and the size of its pictures is *)
(* the frame size of the status: settings share registers, banks and       *)
(* tables, and none undoes another.                                        *)
(***************************************************************************)
StatusTrue ==
  Ready /\ clean =>
    /\ \A f \in Lasting : sensor.status[f] = ReadBack(sensor, f)
    /\ OutputSize(sensor) = Resolution[sensor.status.framesize + 1]

(***************************************************************************)
(* A setting the web page is told was made is the one in the sensor, also  *)
(* when a transaction failed on the way.                                   *)
(***************************************************************************)
Reported ==
  Ready /\ answer # <<>> /\ answer[2] /\ answer[1] \in Told \ {"vflip"} /\ ~sensor.lost /\ ~sensor.junk =>
    sensor.status[answer[1]] = ReadBack(sensor, answer[1])

(***************************************************************************)
(* An esp_camera_init that fails gives everything back but the bus driver, *)
(* at whatever step it fails. Without memory for the DMA buffers or their  *)
(* descriptors it first frees pointers nobody set: what comes of that is   *)
(* left open.                                                              *)
(***************************************************************************)
NothingLeft == phase = "failed" /\ ~wild => held = {"sccb"}

\* The byte k of a line is made from these bytes of the sensor.
Expected(k) ==
  CASE Gray /\ InBytes = 2 -> {2 * k}
    [] config.format = "rgb888" ->
         LET p == 2 * (k \div 3)
         IN CASE k % 3 = 0 -> {p + 1} [] k % 3 = 1 -> {p, p + 1} [] OTHER -> {p}
    [] OTHER -> {k}

BufLen == (Width * FbBytes) \div DmaPerLine

(***************************************************************************)
(* For every format, size, clock and camera the filters fill a line of the *)
(* frame buffer without a gap and each byte from the bytes of its pixel;   *)
(* the lines of an uncompressed frame fill the frame buffer.               *)
(***************************************************************************)
LineWhole ==
  /\ \A b \in DOMAIN lines :
       lines[b] = [k \in 0 .. BufLen - 1 |-> Expected((b - 1) * BufLen + k)]
  /\ Ready /\ ~Jpeg => Height * DmaPerLine * BufLen = FbSize
=============================================================================
