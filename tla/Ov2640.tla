------------------------------- MODULE Ov2640 -------------------------------
(***************************************************************************)
(* The driver of the OV2640 (components/esp32-camera/sensors/ov2640.c) on  *)
(* sensors as Sccb describes them.  A register is <<bank, number>>; the    *)
(* indirect ones behind BPADDR and BPDATA are in a bank of their own.  The *)
(* tables keep the entries for registers a status is read from, and one    *)
(* entry that stands for the others behind them.                           *)
(***************************************************************************)
EXTENDS Sccb

Dsp      == 0
Sensor   == 1
BankMax  == 2
Indirect == 3

BANK_SEL == 255
BPADDR   == 124
BPDATA   == 125
COM7     == 18
Other    == 254

Cells ==
  { <<Dsp, r>> : r \in {68, 90, 91, 92, 134, 135, 194, 195, 199, 204, 218} } \cup
  { <<Sensor, r>> : r \in {0, 4, 16, 18, 19, 20, 69} } \cup {<<Indirect, 0>>}

PowerOn == [c \in Cells |-> 0]

\* What the sensor does with a byte; a reset takes it back to its first bank.
Put(s, reg, v) ==
  CASE reg = BANK_SEL -> [s EXCEPT !.bank = v]
    [] s.bank = Dsp /\ reg = BPADDR -> [s EXCEPT !.ptr = v]
    [] s.bank = Dsp /\ reg = BPDATA -> [Stored(s, <<Indirect, s.ptr>>, v) EXCEPT !.ptr = @ + 1]
    [] s.bank = Sensor /\ reg = COM7 /\ v >= 128 -> [s EXCEPT !.hw = PowerOn, !.bank = Dsp]
    [] OTHER -> Stored(s, <<s.bank, reg>>, v)

Write(s, reg, v) == SccbWrite(s, Put(s, reg, v))

\* set_bank: the bank is noted before it is chosen.
SetBank(s, bank) ==
  IF ~s.ok \/ bank = s.cached THEN s
  ELSE LET t == Write([s EXCEPT !.cached = bank], BANK_SEL, bank)
       IN [t EXCEPT !.lost = @ \/ ~t.ok]

\* Mutant: the entries of a table are all written as they are.
WriteRegsPlain(s, table) ==
  FoldLeft(LAMBDA t, e : Write(t, e[1], e[2]), s, table)

WriteRegs(s, table) ==
  FoldLeft(LAMBDA t, e : IF e[1] = BANK_SEL THEN SetBank(t, e[2]) ELSE Write(t, e[1], e[2]),
           s, table)

WriteReg(s, bank, reg, v) == Write(SetBank(s, bank), reg, v)

\* In the bank that is chosen
WriteBits(s, reg, off, width, v) ==
  Write(AfterRead(s), reg,
        WithBits(SccbRead(s, Content(s, <<s.bank, reg>>)), off, width, v))

\* Mutant: the result of the write is not passed on.
SetRegBitsUnchecked(s, bank, reg, off, width, v) ==
  Ignored(WriteBits(SetBank(s, bank), reg, off, width, v))

SetRegBits(s, bank, reg, off, width, v) == WriteBits(SetBank(s, bank), reg, off, width, v)

----------------------------------------------------------------------------
(* The tables *)

ToDsp    == <<BANK_SEL, Dsp>>
ToSensor == <<BANK_SEL, Sensor>>
Rest     == <<Other, 0>>

SettingsCif ==
  << ToDsp, Rest, ToSensor, <<4, 40>>, <<19, 229>>, <<20, 72>>, Rest, <<COM7, 32>>, Rest,
     ToDsp, <<135, 80>>, <<BPADDR, 0>>, <<BPDATA, 0>>, Rest, <<199, 16>>, <<195, 253>>,
     <<218, 0>>, Rest >>

ToSize(com7) ==
  << ToSensor, <<COM7, com7>>, Rest, ToDsp, Rest, <<134, 61>>, Rest >>

SettingsToCif  == ToSize(32)
SettingsToSvga == ToSize(64)
SettingsToUxga == ToSize(0)

SettingsJpeg3  == << ToDsp, Rest, <<218, 18>>, Rest >>
SettingsYuv422 == << ToDsp, Rest, <<218, 0>>, Rest >>
SettingsRgb565 == << ToDsp, Rest, <<218, 8>>, Rest >>

ContrastRegs(l)   == <<0, 4, 7, 32, 32 + 4 * l, 32 - 10 * l, 6>>
BrightnessRegs(l) == <<0, 4, 9, 32 + 16 * l, 0>>
SaturationRegs(l) == <<0, 2, 3, 72 + 16 * l, 72 + 16 * l>>

EffectRegs(e) ==
  <<0, <<0, 64, 24, 24, 24, 24, 24>>[e + 1], 5,
    <<128, 128, 128, 64, 64, 160, 64>>[e + 1], <<128, 128, 128, 192, 64, 64, 166>>[e + 1]>>

WbModeRegs(m) == << <<94, 65, 84>>, <<101, 65, 79>>, <<82, 65, 102>>, <<66, 63, 113>> >>[m]

AeLevelRegs(l) ==
  << <<32, 24, 96>>, <<52, 28, 0>>, <<62, 56, 129>>, <<72, 64, 129>>, <<88, 80, 146>> >>[l + 3]

AgcGainTbl ==
  <<0, 16, 24, 48, 52, 56, 60, 112, 114, 116, 118, 120, 122, 124, 126, 240, 241, 242, 243,
    244, 245, 246, 247, 248, 249, 250, 251, 252, 253, 254, 255>>

----------------------------------------------------------------------------
(* The functions of sensor_t *)

SoftReset(s) == WriteRegs(WriteReg(s, Sensor, COM7, 128), SettingsCif)

SetPixformat(s, p) ==
  LET t == [s EXCEPT !.pixformat = p]
  IN CASE p \in {"rgb565", "rgb888"}    -> WriteRegs(t, SettingsRgb565)
       [] p \in {"yuv422", "grayscale"} -> WriteRegs(t, SettingsYuv422)
       [] p = "jpeg"                    -> WriteRegs(t, SettingsJpeg3)
       [] OTHER                         -> Refused(t)

\* Mutant: the high bits of the height are taken from the width's place.
OutputHighWrong(w, h) == Bits(h, 8, 1) * 4 + Bits(w, 10, 2)

OutputHigh(w, h) == Bits(h, 10, 1) * 4 + Bits(w, 10, 2)

\* The format again, whose result is not looked at.
Formatted(s) == IF s.ok THEN Ignored(SetPixformat(s, s.pixformat)) ELSE s

\* With a clock of 20 MHz CLKRC stays as in the table.
SetFramesize(s, f) ==
  LET w == WidthOf(f)
      h == HeightOf(f)
      table == IF f <= CIF THEN SettingsToCif ELSE IF f <= SVGA THEN SettingsToSvga
               ELSE SettingsToUxga
      t0 == WriteRegs(WriteReg(Noted(s, "framesize", f), Dsp, 5, 1), table)
      t1 == WriteReg(WriteReg(t0, Dsp, 90, w \div 4), Dsp, 91, h \div 4)
  IN Formatted(WriteReg(WriteReg(WriteReg(t1, Dsp, 92, OutputHigh(w, h)), Dsp, 224, 0), Dsp, 5, 0))

WriteRow(s, regs, row, bank) ==
  FoldLeft(LAMBDA t, k : WriteReg(t, bank, regs[k], row[k]), s, [k \in DOMAIN row |-> k])

IndirectRow(s, row) == WriteRow(s, <<BPADDR, BPDATA, BPADDR, BPDATA, BPDATA, BPDATA, BPDATA>>, row, Dsp)

Levels == -2 .. 2

SetEffect(s, f, v) ==
  CASE f = "contrast"   /\ v \in Levels -> IndirectRow(Noted(s, f, v), ContrastRegs(v))
    [] f = "brightness" /\ v \in Levels -> IndirectRow(Noted(s, f, v), BrightnessRegs(v))
    [] f = "saturation" /\ v \in Levels -> IndirectRow(Noted(s, f, v), SaturationRegs(v))
    [] f = "special_effect" /\ v \in 0 .. 6 -> IndirectRow(Noted(s, f, v), EffectRegs(v))
    [] OTHER -> Refused(s)

SetWbMode(s, m) ==
  IF m \notin 0 .. 4 THEN Refused(s)
  ELSE LET t == SetRegBits(Noted(s, "wb_mode", m), Dsp, 199, 6, 1, On(m))
       IN IF m = 0 THEN t ELSE WriteRow(t, <<204, 205, 206>>, WbModeRegs(m), Dsp)

SetAeLevel(s, l) ==
  IF l \notin Levels THEN Refused(s)
  ELSE WriteRow(Noted(s, "ae_level", l), <<36, 37, 38>>, AeLevelRegs(l), Sensor)

SetQuality(s, v) ==
  LET q == Clamped(v, 0, 63) IN WriteReg(Noted(s, "quality", q), Dsp, 68, q)

SetAgcGain(s, v) ==
  LET g == Clamped(v, 0, 30) IN WriteReg(Noted(s, "agc_gain", g), Sensor, 0, AgcGainTbl[g + 1])

SetGainceiling(s, v) == SetRegBits(Noted(s, "gainceiling", v), Sensor, 20, 5, 3, v)

SetAecValue(s, v) ==
  LET a  == Clamped(v, 0, 1200)
      t0 == SetRegBits(Noted(s, "aec_value", a), Sensor, 4, 0, 2, Bits(a, 0, 2))
      t1 == WriteReg(t0, Sensor, 16, Bits(a, 2, 8))
  IN SetRegBits(t1, Sensor, 69, 0, 6, Bits(a, 10, 6))

\* Where the settings that are one bit are.
Flag ==
  [aec2 |-> <<Dsp, 194, 6>>, colorbar |-> <<Sensor, COM7, 1>>, agc |-> <<Sensor, 19, 2>>,
   aec |-> <<Sensor, 19, 0>>, hmirror |-> <<Sensor, 4, 7>>, vflip |-> <<Sensor, 4, 6>>,
   raw_gma |-> <<Dsp, 195, 5>>, awb |-> <<Dsp, 195, 3>>, awb_gain |-> <<Dsp, 195, 2>>,
   lenc |-> <<Dsp, 195, 1>>, dcw |-> <<Dsp, 134, 5>>, bpc |-> <<Dsp, 135, 7>>,
   wpc |-> <<Dsp, 135, 6>>]

SetFlag(s, f, v) ==
  LET c == Flag[f]
  IN SetRegBits(Noted(s, f, v), c[1], c[2], c[3], 1, IF f = "aec2" THEN 1 - On(v) ELSE On(v))

\* The results of two calls are put together with &: one may fail.
FlagToo(s, f, v) == [SetFlag(Ignored(s), f, v) EXCEPT !.ok = @ \/ s.ok]

SetVflip(s, v) ==
  FlagToo(SetRegBits(Noted(s, "vflip", v), Sensor, 4, 4, 1, On(v)), "vflip", v)

Set(s, f, v) ==
  CASE f = "framesize"   -> SetFramesize(s, v)
    [] f = "quality"     -> SetQuality(s, v)
    [] f \in {"contrast", "brightness", "saturation", "special_effect"} -> SetEffect(s, f, v)
    [] f = "wb_mode"     -> SetWbMode(s, v)
    [] f = "ae_level"    -> SetAeLevel(s, v)
    [] f = "agc_gain"    -> SetAgcGain(s, v)
    [] f = "gainceiling" -> SetGainceiling(s, v)
    [] f = "aec_value"   -> SetAecValue(s, v)
    [] f = "vflip"       -> SetVflip(s, v)
    [] f \in DOMAIN Flag -> SetFlag(s, f, v)
    [] OTHER             -> Refused(s)

\* What init_status makes of the registers.
GainOf(v) ==
  LET found == {i \in 0 .. 29 : v >= AgcGainTbl[i + 1] /\ v < AgcGainTbl[i + 2]}
  IN IF found = {} THEN 30 ELSE CHOOSE i \in found : \A j \in found : i <= j

ReadBack(s, f) ==
  CASE f = "agc_gain"    -> GainOf(s.hw[<<Sensor, 0>>])
    [] f = "aec_value"   -> Bits(s.hw[<<Sensor, 69>>], 0, 6) * 1024 + s.hw[<<Sensor, 16>>] * 4
                            + Bits(s.hw[<<Sensor, 4>>], 0, 2)
    [] f = "quality"     -> s.hw[<<Dsp, 68>>]
    [] f = "gainceiling" -> Bits(s.hw[<<Sensor, 20>>], 5, 3)
    [] f \in DOMAIN Flag -> Bits(s.hw[<<Flag[f][1], Flag[f][2]>>], Flag[f][3], 1)
    [] OTHER             -> s.status[f]

NoReadBack == {"brightness", "contrast", "saturation", "ae_level", "special_effect", "wb_mode"}

\* init_status, with all reads acknowledged
InitStatus(s) ==
  [SetBank(s, Sensor) EXCEPT !.status =
     [f \in DOMAIN @ |-> IF f \in NoReadBack THEN 0 ELSE ReadBack(s, f)]]

\* The size of the pictures the registers ask for.
OutputSize(s) ==
  LET high == s.hw[<<Dsp, 92>>]
  IN <<4 * (s.hw[<<Dsp, 90>>] + 256 * Bits(high, 0, 2)),
       4 * (s.hw[<<Dsp, 91>>] + 256 * Bits(high, 2, 1))>>
=============================================================================
