-------------------------- MODULE CompatiblePoints --------------------------
(***************************************************************************)
(* Points as laszip_point has them: the fields of LAS 1.0 to 1.3, the      *)
(* extended fields of LAS 1.4 beside them, and the extra bytes.  What the  *)
(* raw items of a file keep of a point, and the recoding of points whose   *)
(* extended fields travel in extra bytes of an old point type              *)
(* ("compatibility mode").  flags are the synthetic, keypoint and withheld *)
(* bits; extended_classification_flags has the overlap bit above them.     *)
(* Products with 0.006 are computed exactly.                               *)
(***************************************************************************)
EXTENDS Integers, Sequences, FiniteSetsExt

\* I16_QUANTIZE and I32_QUANTIZE of a quotient: to the nearest, halves away from zero.
Nearest(a, b) == IF a >= 0 THEN (2 * a + b) \div (2 * b) ELSE - ((b - 2 * a) \div (2 * b))
I8_CLAMP(n) == Max({-128, Min({127, n})})
RankOf(scan_angle) == I8_CLAMP(Nearest(6 * scan_angle, 1000))
AngleOf(scan_angle_rank) == Nearest(500 * scan_angle_rank, 3)

Put16(bytes, start, v) ==
  [bytes EXCEPT ![start + 1] = v % 256, ![start + 2] = (v \div 256) % 256]
GetU16(bytes, start) == bytes[start + 1] + 256 * bytes[start + 2]
GetI16(bytes, start) ==
  GetU16(bytes, start) - (IF bytes[start + 2] >= 128 THEN 65536 ELSE 0)

\* laszip_point: what its fields have room for.
I8 == -128..127
U8 == 0..255
I16 == -32768..32767
U16 == 0..65535
LaszipPoint ==
  [x : Int, y : Int, gps_time : Int, nir : U16, scan_angle_rank : I8,
   return_number : 0..7, number_of_returns : 0..7, classification : 0..31, flags : 0..7,
   extended_point_type : 0..3, extended_scan_angle : I16, extended_return_number : 0..15,
   extended_number_of_returns : 0..15, extended_classification : U8,
   extended_classification_flags : 0..15, extended_scanner_channel : 0..3,
   extra_bytes : Seq(U8)]

-----------------------------------------------------------------------------
(* laszip_write_point() *)

\* The fields that both kinds of points have must agree.
IsConsistent(p) ==
  p.extended_point_type # 0 =>
    /\ p.extended_classification_flags % 8 = p.flags
    /\ p.classification # 0 => p.classification = p.extended_classification

\* The return number an old point type shows for r of n returns.
OldReturnNumber(r, n) ==
  IF n <= 7 THEN Min({r, 7})
  ELSE IF r <= 4 THEN r
  ELSE IF n - r <= 0 THEN 7
  ELSE IF n - r >= 3 THEN 4
  ELSE 7 - (n - r)

\* start says where in the extra bytes each value goes.  The classification
\* that fits into the old field is taken to be there already.
Distilled(p, start) ==
  LET rank == RankOf(p.extended_scan_angle)
      n == Min({p.extended_number_of_returns, 7})
      r == OldReturnNumber(p.extended_return_number, p.extended_number_of_returns)
      fits == p.extended_classification <= 31
      angles == Put16(p.extra_bytes, start.scan_angle, p.extended_scan_angle - AngleOf(rank))
      bytes ==
        [angles EXCEPT
           ![start.returns + 1] =
              16 * (p.extended_return_number - r) + (p.extended_number_of_returns - n),
           ![start.classification + 1] = IF fits THEN 0 ELSE p.extended_classification,
           ![start.flags + 1] =
              2 * p.extended_scanner_channel + p.extended_classification_flags \div 8]
  IN [p EXCEPT !.scan_angle_rank = rank, !.number_of_returns = n, !.return_number = r,
               !.classification = IF fits THEN @ ELSE 0,
               !.extended_classification = IF fits THEN 0 ELSE @,
               !.extra_bytes = IF start.nir = -1 THEN bytes ELSE Put16(bytes, start.nir, p.nir)]

(* laszip_read_point() *)

Instilled(p, start) ==
  LET returns == p.extra_bytes[start.returns + 1]
      flags == p.extra_bytes[start.flags + 1]
  IN [p EXCEPT
        !.extended_scan_angle =
           GetI16(p.extra_bytes, start.scan_angle) + AngleOf(p.scan_angle_rank),
        !.extended_return_number = returns \div 16 + p.return_number,
        !.extended_number_of_returns = (returns % 16) + p.number_of_returns,
        !.extended_classification = p.extra_bytes[start.classification + 1] + p.classification,
        !.extended_scanner_channel = (flags \div 2) % 4,
        !.extended_classification_flags = 8 * (flags % 2) + p.flags,
        !.nir = IF start.nir = -1 THEN @ ELSE GetU16(p.extra_bytes, start.nir)]

-----------------------------------------------------------------------------
(* The items of a file.  The time, the colours and the extra bytes are kept  *)
(* as they are; has_nir says whether the item of the colours has four bands. *)

\* LASwriteItemRaw_POINT10 and the fields the compressors of POINT10 see.
StorePOINT10(p) ==
  [x |-> p.x, y |-> p.y, return_number |-> p.return_number,
   number_of_returns |-> p.number_of_returns, classification |-> p.classification,
   flags |-> p.flags, scan_angle_rank |-> p.scan_angle_rank, gps_time |-> p.gps_time,
   extra_bytes |-> p.extra_bytes]

LoadPOINT10(p, item) == [f \in DOMAIN p |-> IF f \in DOMAIN item THEN item[f] ELSE p[f]]

StorePOINT14(p, has_nir) ==
  LET extended == p.extended_point_type # 0
  IN [x |-> p.x, y |-> p.y, gps_time |-> p.gps_time, extra_bytes |-> p.extra_bytes,
      nir |-> IF has_nir THEN p.nir ELSE 0,
      classification_flags |->
        (IF extended THEN 8 * (p.extended_classification_flags \div 8) ELSE 0) + p.flags,
      classification |-> IF extended /\ p.classification = 0
                         THEN p.extended_classification ELSE p.classification,
      scanner_channel |-> IF extended THEN p.extended_scanner_channel ELSE 0,
      return_number |-> IF extended THEN p.extended_return_number ELSE p.return_number,
      number_of_returns |->
        IF extended THEN p.extended_number_of_returns ELSE p.number_of_returns,
      scan_angle |-> IF extended THEN p.extended_scan_angle ELSE AngleOf(p.scan_angle_rank)]

\* LASreadItemRaw_POINT14 fills in the old fields, too.
LoadPOINT14(p, item, has_nir) ==
  [p EXCEPT
     !.x = item.x, !.y = item.y, !.gps_time = item.gps_time, !.extra_bytes = item.extra_bytes,
     !.nir = IF has_nir THEN item.nir ELSE @,
     !.number_of_returns = Min({item.number_of_returns, 7}),
     !.return_number =
        IF item.number_of_returns <= 7 \/ item.return_number <= 6 THEN item.return_number % 8
        ELSE IF item.return_number >= item.number_of_returns THEN 7 ELSE 6,
     !.classification = IF item.classification < 32 THEN item.classification ELSE 0,
     !.flags = item.classification_flags % 8,
     !.scan_angle_rank = RankOf(item.scan_angle),
     !.extended_scanner_channel = item.scanner_channel,
     !.extended_classification_flags = item.classification_flags,
     !.extended_classification = item.classification,
     !.extended_return_number = item.return_number,
     !.extended_number_of_returns = item.number_of_returns,
     !.extended_scan_angle = item.scan_angle]
=============================================================================
