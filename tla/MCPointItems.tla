----------------------------- MODULE MCPointItems -----------------------------
(* Points of every version and item, few of each, chosen to change one     *)
(* field or many, to switch channels and back, and to leave the range of   *)
(* the small integers.                                                     *)
EXTENDS PointItems

SmallMultiples == <<3, 5>>

SmallestMultiple == -2

A10 == [x |-> 0, y |-> 0, z |-> 0, intensity |-> 5, bits |-> 9, class |-> 2, angle |-> 3, user |-> 1, source |-> 1]
B10 == [A10 EXCEPT !.x = 7, !.y = -3, !.z = 4, !.bits = 81, !.angle = 250]
C10 == [A10 EXCEPT !.intensity = 0]
D10 == [A10 EXCEPT !.x = 2, !.y = 40, !.intensity = 9, !.class = 5, !.user = 7, !.source = 300]

A14 == [ch |-> 0, n |-> 1, r |-> 1, x |-> 0, y |-> 0, z |-> 0, class |-> 2, flags |-> 0, intensity |-> 5,
        angle |-> 3, user |-> 1, source |-> 1, gps |-> 0]
B14 == [A14 EXCEPT !.ch = 1, !.n = 4, !.r = 3, !.x = 7, !.y = -3, !.z = 4, !.flags = 1]
C14 == [A14 EXCEPT !.ch = 3, !.x = 2, !.gps = 1, !.angle = -4, !.source = 9]
D14 == [A14 EXCEPT !.n = 3, !.r = 2, !.y = 5, !.z = -2, !.class = 40, !.intensity = 9, !.user = 8, !.gps = 3]

\* Colours <<red, green, blue>>: grey, both bytes, one byte.
Grey1 == <<300, 300, 300>>
Red   == <<700, 300, 10>>
Blue  == <<300, 300, 900>>

Packet(i, o, s) == [index |-> i, offset |-> o, size |-> s, line |-> <<i, 1, 2, o>>]

P1 == Packet(1, 0, 4)
P2 == Packet(1, 4, 4)
P3 == Packet(2, 90, 6)

All == {"z", "classification", "flags", "intensity", "scan_angle", "user_data", "point_source", "gps_time",
        "rgb", "nir", "wavepacket", "byte0", "byte1"}

Two(a, p, b, q) == (a :> p) @@ (b :> q)
Three(a, p, b, q, c, r) == Two(a, p, b, q) @@ (c :> r)

Old(version, items, points) ==
  [version |-> version, items |-> items, points |-> points, blank |-> CHOOSE p \in points : TRUE,
   masks |-> {{}}, length |-> 3, chunks |-> 2, seeks |-> 1, into |-> 1 .. 3]

New14(version, items, points, masks, into) ==
  [Old(version, items, points) EXCEPT !.version = version, !.masks = masks, !.into = into]

\* GPS times alone: one chunk of more points.
Times(version, items, points, length) ==
  [Old(version, items, points) EXCEPT !.length = length, !.chunks = 1, !.seeks = 0, !.masks = {All}]

ClassicKinds ==
  { Old(v, <<"POINT10", "RGB12">>,
        {Two("POINT10", A10, "RGB12", Grey1), Two("POINT10", B10, "RGB12", Red),
         Two("POINT10", C10, "RGB12", Grey1), Two("POINT10", D10, "RGB12", Blue)}) : v \in {1, 2} }
  \cup
  { Old(v, <<"GPSTIME11", "WAVEPACKET13", "BYTE">>,
        {Three("GPSTIME11", 0, "WAVEPACKET13", P1, "BYTE", <<0, 9>>),
         Three("GPSTIME11", 3, "WAVEPACKET13", P2, "BYTE", <<250, 9>>),
         Three("GPSTIME11", 70, "WAVEPACKET13", P3, "BYTE", <<0, 10>>)}) : v \in {1, 2} }

ClassicTimes ==
  { Times(v, <<"GPSTIME11">>, {"GPSTIME11" :> t : t \in {0, 1, 3, 8, 40, 90}}, 5) : v \in {1, 2} }

\* Near ones, and far ones that take more sequences than there are.
LayeredTimes ==
  { Times(3, <<"POINT14">>, {"POINT14" :> [A14 EXCEPT !.gps = t] : t \in {0, 1, 3, 8, 40}}, 5),
    Times(4, <<"POINT14">>, {"POINT14" :> [A14 EXCEPT !.gps = t] : t \in {0, 40, 80, 120, 160}}, 5) }

LayeredKinds ==
  { New14(v, <<"POINT14", "RGB14", "BYTE14">>,
          {Three("POINT14", A14, "RGB14", Grey1, "BYTE14", <<0, 9>>),
           Three("POINT14", B14, "RGB14", Red, "BYTE14", <<250, 9>>),
           Three("POINT14", C14, "RGB14", Grey1, "BYTE14", <<0, 10>>),
           Three("POINT14", D14, "RGB14", Blue, "BYTE14", <<250, 9>>)},
          {All, {"rgb", "intensity", "byte1"}, {"z", "flags", "gps_time", "byte0", "classification"}}, 1 .. 3)
    : v \in {3, 4} }

PacketKind(v, into) ==
  New14(v, <<"POINT14", "RGBNIR14", "WAVEPACKET14">>,
        {Three("POINT14", A14, "RGBNIR14", Append(Grey1, 300), "WAVEPACKET14", P1),
         Three("POINT14", B14, "RGBNIR14", Append(Red, 301), "WAVEPACKET14", P2),
         Three("POINT14", D14, "RGBNIR14", Append(Grey1, 900), "WAVEPACKET14", P3)},
        {All, {"nir"}, {"rgb", "wavepacket"}}, into)

ItemKinds == ClassicKinds \cup ClassicTimes \cup LayeredTimes \cup LayeredKinds
             \cup {PacketKind(3, {1}), PacketKind(4, {1})}

PacketKinds == {PacketKind(3, 1 .. 3), PacketKind(4, 1 .. 3)}
==============================================================================
