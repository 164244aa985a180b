------------------------------- MODULE Ov7725 -------------------------------
(***************************************************************************)
(* The driver of the OV7725 (components/esp32-camera/sensors/ov7725.c) on  *)
(* sensors as Sccb describes them.  Of its functions for single settings   *)
(* only the colour bar is left: ov7725_init sets the others and then puts  *)
(* set_dummy over them, and set_contrast it does not set at all.           *)
(***************************************************************************)
EXTENDS Sccb

COM3     == 12
COM7     == 18
COM8     == 19
HREF     == 50
HOUTSIZE == 41
VOUTSIZE == 44
DSPCTRL3 == 102
Other    == 254

Cells == {COM3, COM7, COM8, HREF, HOUTSIZE, VOUTSIZE, DSPCTRL3}

PowerOn == [c \in Cells |-> 0]

\* COM7_RESET
Write(s, reg, v) ==
  SccbWrite(s, IF reg = COM7 /\ v >= 128 THEN [s EXCEPT !.hw = PowerOn] ELSE Stored(s, reg, v))

\* Calls whose results are put together with |: all are made.
All(s, table) ==
  FoldLeft(LAMBDA t, e : [Write(Ignored(t), e[1], e[2]) EXCEPT !.ok = @ /\ t.ok], s, table)

DefaultRegs ==
  << <<COM3, 16>>, <<COM7, 64>>, <<Other, 0>>, <<HREF, 0>>, <<HOUTSIZE, 80>>, <<VOUTSIZE, 120>>,
     <<Other, 0>>, <<DSPCTRL3, 0>>, <<COM8, 240>>, <<Other, 0>>, <<COM8, 255>>, <<Other, 0>> >>

SoftReset(s) == Ignored(All(s, << <<COM7, 128>> >> \o DefaultRegs))

SetPixformat(s, p) ==
  LET reg == SccbRead(s, s.hw[COM7])
      t   == AfterRead([s EXCEPT !.pixformat = p])
  IN CASE p = "rgb565" -> Write(t, COM7, WithBits(reg, 0, 4, 6))
       [] p \in {"yuv422", "grayscale"} -> Write(t, COM7, WithBits(reg, 0, 2, 0))
       [] OTHER -> Refused(t)

\* The sizes are written as bytes whether or not they fit.
SetFramesize(s, f) ==
  LET w == WidthOf(f)
      h == HeightOf(f)
      small == f < VGA
      com7  == WithBits(SccbRead(s, s.hw[COM7]), 6, 1, IF small THEN 1 ELSE 0)
      sizes == << <<HOUTSIZE, w \div 4>>, <<VOUTSIZE, h \div 2>>, <<Other, 0>>, <<Other, 0>>,
                  <<HREF, (w % 4) + (h % 2) * 4>> >>
      scale == [i \in 1 .. (IF small THEN 3 ELSE 6) |-> <<Other, 0>>]
  IN All(Noted(AfterRead(s), "framesize", f),
         sizes \o scale \o << <<COM7, com7>>, <<Other, 0>> >>)

SetColorbar(s, v) ==
  LET t == Noted(s, "colorbar", v)
      a == Write(AfterRead(t), COM3, WithBits(SccbRead(t, t.hw[COM3]), 0, 1, v % 2))
      i == Ignored(a)
      b == Write(AfterRead(i), DSPCTRL3, WithBits(SccbRead(i, i.hw[DSPCTRL3]), 5, 1, v % 2))
  IN [b EXCEPT !.ok = @ /\ a.ok]

Set(s, f, v) ==
  CASE f = "framesize" -> SetFramesize(s, v)
    [] f = "colorbar"  -> SetColorbar(s, v)
    [] OTHER           -> Refused(s)

ReadBack(s, f) == IF f = "colorbar" THEN s.hw[COM3] % 2 ELSE s.status[f]

InitStatus(s) ==
  [s EXCEPT !.status = [f \in DOMAIN @ |->
     IF f \in {"awb", "aec", "agc", "hmirror", "vflip", "colorbar"} THEN 0 ELSE @[f]]]

\* The size of the pictures the registers ask for.
OutputSize(s) ==
  <<4 * s.hw[HOUTSIZE] + (s.hw[HREF] % 4), 2 * s.hw[VOUTSIZE] + Bits(s.hw[HREF], 2, 1)>>
=============================================================================
