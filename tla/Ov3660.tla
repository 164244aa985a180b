------------------------------- MODULE Ov3660 -------------------------------
(***************************************************************************)
(* The driver of the OV3660 (components/esp32-camera/sensors/ov3660.c) on  *)
(* sensors as Sccb describes them; a register is its 16-bit number.  The   *)
(* tables keep the entries for registers a status is read from, and one    *)
(* entry that stands for the others behind them.                           *)
(***************************************************************************)
EXTENDS Sccb

Isp01     == 20481    \* ISP_CONTROL_01, 0x5001
Isp00     == 20480    \* 0x5000
Dcw       == 20867    \* 0x5183
AecPk     == 13571    \* AEC_PK_MANUAL, 0x3503
Night     == 14848    \* 0x3a00
TestBar   == 20541    \* PRE_ISP_TEST_SETTING_1, 0x503D
Quality   == 17415    \* COMPRESSION_CTRL07, 0x4407
AwbManual == 13318    \* 0x3406
Gain      == 13578    \* 0x350a
Exposure  == 13568    \* 0x3500
YTotal    == 14350    \* Y_TOTAL_SIZE_H, 0x380e
XOutput   == 14344    \* X_OUTPUT_SIZE_H, 0x3808
Tc20      == 14368    \* TIMING_TC_REG20, 0x3820
Tc21      == 14369    \* TIMING_TC_REG21
Mirror    == 17684    \* 0x4514
Ceiling   == 14872    \* 0x3a18
Cip08     == 21256    \* 0x5308
Cip06     == 21254    \* 0x5306
Cip03     == 21251    \* 0x5303
Sde       == 21888    \* 0x5580
Format00  == 17152    \* FORMAT_CTRL00, 0x4300
Other     == 0

Cells ==
  {Isp01, Isp00, Dcw, AecPk, Night, TestBar, Quality, AwbManual, Gain, Gain + 1, Exposure,
   Exposure + 1, Exposure + 2, YTotal, YTotal + 1, XOutput, XOutput + 1, XOutput + 2,
   XOutput + 3, Tc20, Tc21, Mirror, Ceiling, Ceiling + 1, Cip08, Cip06, Cip03, Sde + 6,
   Sde + 7, Sde + 8, Format00}

PowerOn == [c \in Cells |-> 0]

\* Bit 7 of SYSTEM_CTROL0 is a reset.
Reset0 == 12296

Write(s, reg, v) ==
  SccbWrite(s, IF reg = Reset0 /\ v >= 128 THEN [s EXCEPT !.hw = PowerOn]
               ELSE Stored(s, reg, v))

WriteRegs(s, table) == FoldLeft(LAMBDA t, e : Write(t, e[1], e[2]), s, table)

WriteReg16(s, reg, v) == Write(Write(s, reg, v \div 256), reg + 1, v % 256)

WriteAddrReg(s, reg, x, y) == WriteReg16(WriteReg16(s, reg, x), reg + 2, y)

SetRegBits(s, reg, off, width, v) ==
  Write(AfterRead(s), reg, WithBits(SccbRead(s, Content(s, reg)), off, width, v))

----------------------------------------------------------------------------
DefaultRegs ==
  << <<Reset0, 130>>, <<Other, 0>>, <<Ceiling, 0>>, <<Ceiling + 1, 248>>, <<Night, 58>>,
     <<Dcw, 20>>, <<Isp00, 167>>, <<Cip03, 32>>, <<Cip06, 28>>, <<Sde, 6>>, <<Sde + 8, 0>>,
     <<Isp01, 131>> >>

FormatRegs(p) ==
  CASE p = "yuv422"    -> << <<Other, 0>>, <<Format00, 48>> >>
    [] p = "grayscale" -> << <<Other, 0>>, <<Format00, 16>> >>
    [] p \in {"rgb565", "rgb888"} -> << <<Other, 0>>, <<Format00, 97>> >>
    [] p = "jpeg"      -> << <<Other, 0>>, <<Format00, 48>>, <<Other, 0>> >>
    [] p = "raw"       -> << <<Format00, 0>> >>

SetPixformat(s, p) ==
  IF p \notin {"yuv422", "grayscale", "rgb565", "rgb888", "jpeg", "raw"} THEN Refused(s)
  ELSE LET t == WriteRegs(s, FormatRegs(p)) IN IF t.ok THEN [t EXCEPT !.pixformat = p] ELSE t

\* Six registers of the exposure control, none of which is read again.
SetAeLevel(s, l) ==
  IF l \notin -5 .. 5 THEN Refused(s)
  ELSE NotedIfOk(WriteRegs(s, [i \in 1 .. 6 |-> <<Other, 0>>]), "ae_level", l)

SoftReset(s) == SetAeLevel(WriteRegs(Write(s, Reset0, 130), DefaultRegs), 0)

\* set_image_options: compression, binning, flip and mirror share registers.
ImageOptions(s) ==
  LET jpeg   == s.pixformat = "jpeg"
      binned == s.status.framesize <= SVGA
      flip   == s.status.vflip # 0
      mirror == s.status.hmirror # 0
      reg20  == (IF binned THEN 1 ELSE 64) + (IF flip THEN 6 ELSE 0)
      reg21  == (IF jpeg THEN 32 ELSE 0) + (IF binned THEN 1 ELSE 0) + (IF mirror THEN 6 ELSE 0)
      reg4514 == IF binned THEN (IF flip = mirror THEN 170 ELSE 187)
                 ELSE IF mirror THEN 187 ELSE 136
  IN Write(Write(Write(s, Tc20, reg20), Tc21, reg21), Mirror, reg4514)

SetPll(s) == WriteRegs(s, [i \in 1 .. 6 |-> <<Other, 0>>])

Clocked(s, old) == IF s.ok THEN SetPll(s) ELSE Noted(s, "framesize", old)

\* The new size stays in the status when it is not one, and when the clock
\* cannot be set.
SetFramesize(s, f) ==
  LET large == f > SVGA
      t0 == WriteRegs(Noted(s, "framesize", f), [i \in 1 .. 11 |-> <<Other, 0>>])
      t1 == WriteAddrReg(t0, XOutput, WidthOf(f), HeightOf(f))
      t2 == WriteAddrReg(t1, YTotal - 2, IF f >= SVGA THEN 2300 ELSE 2050,
                                         IF large THEN 1564 ELSE 788)
      t3 == WriteRegs(t2, [i \in 1 .. 4 |-> <<Other, 0>>])
  IN IF f >= INVALID THEN Refused(Noted(s, "framesize", f))
     ELSE Clocked(ImageOptions(SetRegBits(t3, Isp01, 5, 1, IF f = QXGA THEN 0 ELSE 1)),
                  s.status.framesize)

SetTurned(s, f, v) == ImageOptions(Noted(s, f, v))

\* Where the settings that are one bit are; inverted ones say manual or off.
Flag ==
  [agc |-> <<AecPk, 1>>, aec |-> <<AecPk, 0>>, awb |-> <<Isp01, 0>>, dcw |-> <<Dcw, 7>>,
   aec2 |-> <<Night, 2>>, bpc |-> <<Isp00, 2>>, wpc |-> <<Isp00, 1>>, raw_gma |-> <<Isp00, 5>>,
   lenc |-> <<Isp00, 7>>]

Inverted == {"agc", "aec", "dcw"}

SetFlag(s, f, v) ==
  NotedIfOk(SetRegBits(s, Flag[f][1], Flag[f][2], 1, IF f \in Inverted THEN 1 - On(v) ELSE On(v)),
            f, v)

SetColorbar(s, v) == NotedIfOk(SetRegBits(s, TestBar, 6, 2, 3 * On(v)), "colorbar", v)

SetQuality(s, v) == NotedIfOk(Write(s, Quality, v % 64), "quality", v)

\* The gain has four bits behind the point and is one sixteenth less.
SetAgcGain(s, v) ==
  LET g     == Clamped(v, 0, 64)
      gainv == IF g = 0 THEN 0 ELSE 16 * g - 1
  IN NotedIfOk(WriteReg16(s, Gain, gainv), "agc_gain", g)

\* The largest value is read from the sensor, each byte for itself.
SetAecValue(s, v) ==
  LET high == SccbRead(s, s.hw[YTotal])
      t    == AfterRead(s)
      most == high * 256 + SccbRead(t, t.hw[YTotal + 1])
      a    == IF v > most THEN most ELSE v
      w    == Write(Write(Write(AfterRead(t), Exposure, Bits(a, 12, 4)),
                          Exposure + 1, Bits(a, 4, 8)), Exposure + 2, Bits(a, 0, 4) * 16)
  IN NotedIfOk(w, "aec_value", a)

WbGains == << <<94, 65, 84>>, <<101, 65, 79>>, <<82, 65, 102>>, <<66, 63, 113>> >>

\* The gains of a mode are six more registers, none of which is read again.
SetWbMode(s, m) ==
  IF m \notin 0 .. 4 THEN Refused(s)
  ELSE LET t == Write(s, AwbManual, On(m))
       IN NotedIfOk(IF m = 0 THEN t ELSE WriteRegs(t, [i \in 1 .. 6 |-> <<Other, 0>>]),
                    "wb_mode", m)

SetAwbGain(s, v) ==
  LET t == SetWbMode(s, IF v # 0 THEN s.status.wb_mode ELSE 0)
  IN IF t.ok THEN Noted(Noted(t, "wb_mode", s.status.wb_mode), "awb_gain", v) ELSE t

EffectMode == <<6, 70, 30, 30, 30, 30, 30>>

SetSpecialEffect(s, e) ==
  IF e \notin 0 .. 6 THEN Refused(s)
  ELSE NotedIfOk(WriteRegs(s, << <<Sde, EffectMode[e + 1]>>, <<Other, 0>>, <<Other, 0>>,
                                 <<Other, 0>> >>), "special_effect", e)

Magnitude(l) == IF l < 0 THEN -l ELSE l

\* A level that is none is stored, and written as 0.
SetBrightness(s, l) ==
  LET known == l \in -3 .. 3
      t == Write(s, Sde + 7, IF known THEN 16 * Magnitude(l) ELSE 0)
  IN NotedIfOk(SetRegBits(t, Sde + 8, 3, 1, IF known /\ l < 0 THEN 1 ELSE 0), "brightness", l)

SetContrast(s, l) ==
  IF l \notin -3 .. 3 THEN Refused(s)
  ELSE NotedIfOk(Write(s, Sde + 6, (l + 4) * 8), "contrast", l)

SetSaturation(s, l) ==
  IF l \notin -4 .. 4 THEN Refused(s)
  ELSE NotedIfOk(WriteRegs(s, [i \in 1 .. 11 |-> <<Other, 0>>]), "saturation", l)

SetSharpness(s, l) ==
  IF l \notin -3 .. 3 THEN Refused(s)
  ELSE NotedIfOk(WriteRegs(SetRegBits(s, Cip08, 6, 1, 0),
                   << <<Other, 0>>, <<Other, 0>>, <<Other, 0>>, <<Cip03, (l + 3) * 8>>,
                      <<Other, 0>>, <<Other, 0>>, <<Other, 0>>, <<Other, 0>> >>), "sharpness", l)

SetGainceiling(s, v) ==
  NotedIfOk(Write(Write(s, Ceiling, Bits(v, 8, 2)), Ceiling + 1, v % 256), "gainceiling", v)

SetDenoise(s, l) ==
  IF l \notin 0 .. 8 THEN Refused(s)
  ELSE LET t == SetRegBits(s, Cip08, 4, 1, On(l))
       IN NotedIfOk(IF l > 0 THEN Write(t, Cip06, (l - 1) * 4) ELSE t, "denoise", l)

Set(s, f, v) ==
  CASE f = "framesize"            -> SetFramesize(s, v)
    [] f \in {"hmirror", "vflip"} -> SetTurned(s, f, v)
    [] f \in DOMAIN Flag          -> SetFlag(s, f, v)
    [] f = "colorbar"             -> SetColorbar(s, v)
    [] f = "quality"              -> SetQuality(s, v)
    [] f = "agc_gain"             -> SetAgcGain(s, v)
    [] f = "aec_value"            -> SetAecValue(s, v)
    [] f = "ae_level"             -> SetAeLevel(s, v)
    [] f = "wb_mode"              -> SetWbMode(s, v)
    [] f = "awb_gain"             -> SetAwbGain(s, v)
    [] f = "special_effect"       -> SetSpecialEffect(s, v)
    [] f = "brightness"           -> SetBrightness(s, v)
    [] f = "contrast"             -> SetContrast(s, v)
    [] f = "saturation"           -> SetSaturation(s, v)
    [] f = "sharpness"            -> SetSharpness(s, v)
    [] f = "gainceiling"          -> SetGainceiling(s, v)
    [] f = "denoise"              -> SetDenoise(s, v)
    [] OTHER                      -> Refused(s)

\* get_agc_gain, get_aec_value, get_denoise
GainOf(a, b) == Bits(b, 4, 4) + Bits(a, 0, 2) * 16 + On(Bits(b, 0, 4))

\* What init_status makes of the registers.
ReadBack(s, f) ==
  CASE f = "agc_gain"    -> GainOf(s.hw[Gain], s.hw[Gain + 1])
    [] f = "aec_value"   -> Bits(s.hw[Exposure], 0, 4) * 4096 + s.hw[Exposure + 1] * 16
                            + Bits(s.hw[Exposure + 2], 4, 4)
    [] f = "quality"     -> s.hw[Quality] % 64
    [] f = "gainceiling" -> ((s.hw[Ceiling] * 256 + s.hw[Ceiling + 1]) % 1024) % 256
    [] f = "sharpness"   -> (s.hw[Cip03] \div 8) - 3
    [] f = "denoise"     -> IF Bits(s.hw[Cip08], 4, 1) = 0 THEN 0 ELSE (s.hw[Cip06] \div 4) + 1
    [] f \in Inverted    -> 1 - Bits(s.hw[Flag[f][1]], Flag[f][2], 1)
    [] f \in DOMAIN Flag -> Bits(s.hw[Flag[f][1]], Flag[f][2], 1)
    [] f = "awb_gain"    -> s.hw[AwbManual] % 2
    [] f = "hmirror"     -> IF Bits(s.hw[Tc21], 1, 2) = 3 THEN 1 ELSE 0
    [] f = "vflip"       -> IF Bits(s.hw[Tc20], 1, 2) = 3 THEN 1 ELSE 0
    [] f = "colorbar"    -> IF Bits(s.hw[TestBar], 6, 2) = 3 THEN 1 ELSE 0
    [] OTHER             -> s.status[f]

NoReadBack == {"brightness", "contrast", "saturation", "ae_level", "special_effect", "wb_mode"}

\* init_status, with all reads acknowledged
InitStatus(s) ==
  [s EXCEPT !.status = [f \in DOMAIN @ |-> IF f \in NoReadBack THEN 0 ELSE ReadBack(s, f)]]

\* The size of the pictures the registers ask for.
OutputSize(s) ==
  <<s.hw[XOutput] * 256 + s.hw[XOutput + 1], s.hw[XOutput + 2] * 256 + s.hw[XOutput + 3]>>
=============================================================================
