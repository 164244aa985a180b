-------------------------------- MODULE Sccb --------------------------------
(***************************************************************************)
(* A camera sensor on its two-wire bus (components/esp32-camera/driver/    *)
(* sccb.c, with the hardware I2C port).  A sensor is a record s:           *)
(*                                                                         *)
(*   hw        the registers a property looks at, by address               *)
(*   bank      the bank the sensor is in, cached: reg_bank of the driver   *)
(*   ptr       where the OV2640 puts the next indirect write               *)
(*   pixformat, status   the fields of sensor_t                            *)
(*   left      transactions until one is not acknowledged; -1: all are     *)
(*   ok        the calls up to now returned 0                              *)
(*   lost, junk   a choice of the bank, a read was not acknowledged        *)
(*                                                                         *)
(* An operator of a driver takes a sensor to what its function makes of    *)
(* it.  A call that comes after one that failed, as in X_OR_RETURN, ||     *)
(* or if (ret == 0), does nothing.                                         *)
(***************************************************************************)
EXTENDS Integers, Sequences, FiniteSets, SequencesExt

Bits(v, off, width) == (v \div 2 ^ off) % 2 ^ width

WithBits(v, off, width, x) == v - Bits(v, off, width) * 2 ^ off + (x % 2 ^ width) * 2 ^ off

Spent(s, n) == [s EXCEPT !.left = IF @ < n THEN -1 ELSE @ - n]

\* SCCB_Write, SCCB_Write16: stored is the sensor with the byte written.
SccbWrite(s, stored) ==
  IF ~s.ok THEN s
  ELSE IF s.left = 0 THEN [Spent(s, 1) EXCEPT !.ok = FALSE]
  ELSE Spent(stored, 1)

\* SCCB_Read, SCCB_Read16: a failure to send the address gives -1 as a byte,
\* one to read gives 0; the caller cannot tell them from what is in the register.
SccbRead(s, value) == CASE s.left = 0 -> 255 [] s.left = 1 -> 0 [] OTHER -> value

AfterRead(s) ==
  IF s.ok THEN [Spent(s, 2) EXCEPT !.junk = @ \/ s.left \in {0, 1}] ELSE s

\* A register no property looks at reads as 0.
Content(s, cell) == IF cell \in DOMAIN s.hw THEN s.hw[cell] ELSE 0

Stored(s, cell, v) == IF cell \in DOMAIN s.hw THEN [s EXCEPT !.hw[cell] = v % 256] ELSE s

\* A call whose result is not looked at.
Ignored(s) == [s EXCEPT !.ok = TRUE]

Refused(s) == [s EXCEPT !.ok = FALSE]

\* The status has bytes, framesize and aec_value apart.
Noted(s, f, v) ==
  [s EXCEPT !.status[f] = CASE f = "framesize" -> v
                            [] f = "aec_value" -> v % 65536
                            [] OTHER -> v % 256]

NotedIfOk(s, f, v) == IF s.ok THEN Noted(s, f, v) ELSE s

Clamped(v, low, high) == IF v < low THEN low ELSE IF v > high THEN high ELSE v

On(v) == IF v # 0 THEN 1 ELSE 0

\* resolution
Resolution ==
  << <<160, 120>>, <<128, 160>>, <<176, 144>>, <<240, 176>>, <<320, 240>>, <<400, 296>>,
     <<640, 480>>, <<800, 600>>, <<1024, 768>>, <<1280, 1024>>, <<1600, 1200>>, <<2048, 1536>> >>

WidthOf(framesize)  == Resolution[framesize + 1][1]
HeightOf(framesize) == Resolution[framesize + 1][2]

\* framesize_t
CIF     == 5
VGA     == 6
SVGA    == 7
UXGA    == 10
QXGA    == 11
INVALID == 12
=============================================================================
