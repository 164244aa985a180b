--------------------------- MODULE MCCameraSetup ---------------------------
(***************************************************************************)
(* The camera as the program sets it up, with a transaction or a step that *)
(* fails anywhere; groups of settings that share registers, on the page,   *)
(* with a transaction that fails; and a line in every format.              *)
(***************************************************************************)
EXTENDS CameraSetup, TLC

NoSettings == [f \in {} |-> {}]

\* camera_setup
Program ==
  [model |-> "ov2640", format |-> "jpeg", framesize |-> UXGA, quality |-> 10, fbCount |-> 2,
   fast |-> TRUE, settings |-> NoSettings, left |-> [setup |-> {-1}, later |-> {-1}],
   fails |-> {"none"}, line |-> FALSE]

Steps == {"none", "dma_buf", "dma_desc", "dma_bufs", "fb", "data_ready", "frame_ready",
          "fb_in", "fb_out", "dma_filter_task", "isr_handler", "vsync"}

Failing ==
  { [Program EXCEPT !.model = m, !.fbCount = n, !.fails = Steps,
                    !.left.setup = {-1, 0, 1, 2, 3, 4, 5, 6, 12}] :
      m \in {"ov2640", "ov3660", "ov7725", "none"}, n \in 1 .. 2 }
  \cup { [Program EXCEPT !.model = m, !.left.setup = {-1} \cup 0 .. 110] : m \in {"ov2640", "ov3660"} }

Flags(s) == [f \in s |-> 0 .. 1]

\* Settings that share registers, tables or banks.
Groups ==
  { [f \in {"aec", "agc"} |-> 0 .. 1] @@ [f \in {"aec_value"} |-> {3, 1200}],
    Flags({"awb", "awb_gain", "lenc", "raw_gma"}),
    Flags({"bpc", "wpc", "aec2"}) @@ [f \in {"wb_mode"} |-> {0, 2}],
    Flags({"hmirror", "vflip"}) @@ [f \in {"aec_value"} |-> {1, 300}],
    Flags({"dcw", "colorbar"}) @@ [f \in {"framesize"} |-> {CIF, UXGA}],
    [f \in {"quality"} |-> {10, 63}] @@ [f \in {"gainceiling"} |-> {0, 6}]
      @@ [f \in {"agc_gain"} |-> {0, 17, 30}],
    [f \in {"brightness", "special_effect", "saturation", "contrast", "ae_level"} |-> {-2, 1}] }

Paged ==
  { [Program EXCEPT !.model = m, !.settings = g, !.left.later = {-1} \cup 0 .. 9] :
      m \in {"ov2640", "ov3660"}, g \in Groups }

\* The sizes a sensor has.
Sizes(m) == CASE m = "ov2640" -> 0 .. UXGA [] m = "ov3660" -> 0 .. QXGA [] m = "ov7725" -> 0 .. VGA

Lines ==
  UNION { { [Program EXCEPT !.model = m, !.format = p, !.framesize = f, !.fast = h, !.line = TRUE] :
              h \in BOOLEAN, f \in Sizes(m),
              p \in {"grayscale", "yuv422", "rgb565", "rgb888", "jpeg"} } :
          m \in {"ov2640", "ov3660", "ov7725"} }

MCConfigs == Failing \cup Paged \cup Lines
=============================================================================
