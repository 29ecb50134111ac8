--------------------------- MODULE LaszipDllProofs ---------------------------
(***************************************************************************)
(* Proofs about the laszip object: for all jobs, whatever calls a caller   *)
(* makes, the offset of the header is that of the points, the header in    *)
(* the file describes the file, the counters of an inventory are those of  *)
(* the points that were written, and the points of a caller who says of    *)
(* them what they are come back, recoded for compatibility mode or not.    *)
(***************************************************************************)
EXTENDS LaszipDll, LaszipHeaderProofs, FiniteSetTheorems, TLAPS

DllFields ==
  {"header", "attributes", "native", "compat", "compatibility_mode", "lax_create",
   "lax_exploit", "start", "point", "writer", "reader", "inventory", "lax", "npoints",
   "p_count", "error"}

\* What the fields that a header is made from hold.
IsDll(d) ==
  /\ DOMAIN d = DllFields
  /\ IsHeader(d.header) /\ AreAttributes(d.attributes)
  /\ d.native \in BOOLEAN /\ d.compat \in BOOLEAN /\ ~(d.native /\ d.compat)

\* The VLR of compatibility mode never is in a header without that of the extra
\* bytes that hold the rest of the points.
CompatibilityHasExtraBytes(h) ==
  HasVlr(h, CompatibilityVLR) => HasVlr(h, ExtraBytesVLR)

Opened == {"write", "file", "reopen", "read", "inside", "closed"}

\* Before the object has a header, nothing was removed; before the writer is
\* open, no header is one of compatibility mode; it opens only if no VLR without
\* data was removed.
HeaderInv ==
  /\ IsDll(dll)
  /\ lost \in Nat /\ job \in Jobs
  /\ phase \in {"new", "header", "refused"} \cup Opened
  /\ Slack(dll.header) = 54 * lost
  /\ phase \in {"new", "header"} =>
       ~HasVlr(dll.header, CompatibilityVLR) /\ disk = [las |-> None, lax |-> None]
  /\ phase \in {"new"} \cup Opened => lost = 0

\* The file says where the points are, and what its items are.
FileInv ==
  /\ DOMAIN disk = {"las", "lax"}
  /\ disk.las # None =>
       /\ DOMAIN disk.las = {"header", "starts_at", "compressed", "items", "points"}
       /\ IsHeader(disk.las.header)
       /\ CompatibilityHasExtraBytes(disk.las.header)
       /\ FileDescribesItself
  /\ phase \in Opened => disk.las # None

IInv == HeaderInv /\ FileInv

-----------------------------------------------------------------------------
(* Calls that leave the header alone *)

\* e is the object after a call that does not touch what headers are made from,
\* nor the number of points.
KeepsHeader(e, d) ==
  /\ DOMAIN e = DOMAIN d
  /\ \A f \in {"header", "attributes", "native", "compat", "npoints"} : e[f] = d[f]

\* What IsDll() says of an object it says of one with the same header, too.
LEMMA SameDll ==
  ASSUME NEW d, IsDll(d), NEW e, KeepsHeader(e, d)
  PROVE  IsDll(e) /\ e.header = d.header
BY DEF IsDll, KeepsHeader

\* Errors, the point and the mode are apart from the header.
LEMMA RemarksKeepHeader ==
  ASSUME NEW d, DOMAIN d = DllFields
  PROVE  /\ KeepsHeader(Refused(d), d) /\ KeepsHeader(Accepted(d), d)
         /\ KeepsHeader(OldPoint(d), d) /\ KeepsHeader(NewPoint14(d), d)
         /\ KeepsHeader([NewPoint14(d) EXCEPT !.compatibility_mode = FALSE], d)
         /\ \A items : KeepsHeader(SetupItems(d, items), d)
BY DEF KeepsHeader, DllFields, Refused, Accepted, OldPoint, NewPoint14, SetupItems

\* So are writing, reading and seeking points.
LEMMA PointsKeepHeader ==
  ASSUME NEW d, DOMAIN d = DllFields
  PROVE  /\ \A p : KeepsHeader(SetPoint(d, p), d)
         /\ KeepsHeader(WithRecoding(d), d) /\ KeepsHeader(WithExtended(d), d)
         /\ KeepsHeader(Written(d), d) /\ KeepsHeader(Indexed(d), d)
         /\ KeepsHeader(NextRead(d), d)
         /\ \A place : KeepsHeader(PastTheEnd(d, place), d)
         /\ \A target : KeepsHeader(SeekTo(d, target), d)
<1>1. \A p : KeepsHeader(SetPoint(d, p), d)
  BY DEF KeepsHeader, DllFields, SetPoint
<1>2. KeepsHeader(WithRecoding(d), d) /\ KeepsHeader(WithExtended(d), d)
  BY DEF KeepsHeader, DllFields, WithRecoding, WithExtended
<1>3. KeepsHeader(Written(d), d) /\ KeepsHeader(Indexed(d), d)
  BY DEF KeepsHeader, DllFields, Written, Indexed
<1>4. KeepsHeader(NextRead(d), d) /\ \A place : KeepsHeader(PastTheEnd(d, place), d)
  BY DEF KeepsHeader, DllFields, NextRead, PastTheEnd
<1>5. \A target : KeepsHeader(SeekTo(d, target), d)
  BY DEF KeepsHeader, DllFields, SeekTo
<1>. QED BY <1>1, <1>2, <1>3, <1>4, <1>5

-----------------------------------------------------------------------------
(* Calls that make a header *)

\* Empty sequences are lists of attributes and of VLRs.
LEMMA NoneAtAll == AreAttributes(<<>>) /\ AreVlrs(<<>>)
<1>1. <<>> \in Seq(Range(<<>>)) /\ DOMAIN <<>> = {}
  OBVIOUS
<1>. QED BY <1>1, Zenon DEF AreAttributes, AreVlrs

\* The header of a new object has nothing to account for.
LEMMA NewDllIsDll ==
  /\ IsDll(NewDll) /\ Slack(NewDll.header) = 0 /\ NewDll.header.vlrs = <<>>
  /\ \A id : ~HasVlr(NewDll.header, id)
<1>1. AreVlrs(<<>>)
  BY NoneAtAll
<1>2. VlrBytes(<<>>) = 0
  <2>1. [i \in DOMAIN <<>> |-> 54 + <<>>[i].length] = <<>>
    OBVIOUS
  <2>. QED BY <2>1, SumOfNone DEF VlrBytes
<1>3. AreAttributes(<<>>)
  BY NoneAtAll
<1>4. IsHeader(NewHeader) /\ NewHeader.vlrs = <<>>
  BY <1>1 DEF IsHeader, NewHeader, HeaderFields
<1>5. Slack(NewHeader) = 0
  BY <1>2 DEF Slack, NewHeader
<1>6. /\ DOMAIN NewDll = DllFields /\ NewDll.header = NewHeader /\ NewDll.attributes = <<>>
      /\ NewDll.native = TRUE /\ NewDll.compat = FALSE
  BY DEF NewDll, DllFields
<1>7. \A id : ~HasVlr(NewHeader, id)
  BY <1>4 DEF HasVlr, Where
<1>. QED BY <1>3, <1>4, <1>5, <1>6, <1>7 DEF IsDll

\* laszip_set_header() takes the caller's header for the object's.
LEMMA SetHeaderSetsIt ==
  ASSUME NEW d, IsDll(d), NEW h, IsHeader(h)
  PROVE  /\ IsDll(SetHeader(d, h)) /\ Slack(SetHeader(d, h).header) = Slack(h)
         /\ \A id : HasVlr(SetHeader(d, h).header, id) <=> HasVlr(h, id)
<1> DEFINE e == SetHeader(d, h)
           attributes == IF HasVlr(h, ExtraBytesVLR) THEN Vlr(h, ExtraBytesVLR).data ELSE <<>>
<1>1. /\ DOMAIN e = DllFields /\ e.attributes = attributes
      /\ e.native = d.native /\ e.compat = d.compat
  BY DEF SetHeader, IsDll, DllFields
<1>2. DOMAIN e.header = HeaderFields /\ \A f \in HeaderFields \ {"extended", "gps"} : e.header[f] = h[f]
  BY DEF SetHeader, IsDll, DllFields, IsHeader, HeaderFields
<1>3. AreAttributes(attributes)
  <2>1. AreAttributes(<<>>)
    BY NoneAtAll
  <2>2. HasVlr(h, ExtraBytesVLR) => AreAttributes(Vlr(h, ExtraBytesVLR).data)
    BY VlrThatIsThere DEF IsHeader, IsVlr
  <2>. QED BY <2>1, <2>2
<1> HIDE DEF e
<1>4. /\ e.header.vlrs = h.vlrs /\ e.header.minor \in 0..5 /\ e.header.format \in 0..10
      /\ e.header.length \in Int /\ h.size \in Int /\ h.offset \in Int
      /\ e.header.size = h.size + 0 /\ e.header.offset = h.offset + 0
      /\ e.header.after = h.after
  BY <1>2 DEF IsHeader, HeaderFields
<1>5. /\ IsHeader(e.header) /\ Slack(e.header) = Slack(h)
      /\ \A id : HasVlr(e.header, id) <=> HasVlr(h, id)
  BY <1>2, <1>4, HeaderWithSameVlrs
<1>. QED BY <1>1, <1>3, <1>5 DEF IsDll, e

\* Taking a VLR out brings no other in.
LEMMA NoVlrAppears ==
  ASSUME NEW h, IsHeader(h), NEW id, HasVlr(h, id), NEW other, HasVlr(WithoutVlr(h, id), other)
  PROVE  HasVlr(h, other)
<1> DEFINE i == Min(Where(h, id))
           g == WithoutVlr(h, id)
<1>1. g.vlrs = RemoveAt(h.vlrs, i) /\ i \in DOMAIN h.vlrs
  BY WithoutVlrOpensSlack, VlrThatIsThere DEF IsHeader
<1>2. PICK S : h.vlrs \in Seq(S)
  BY VlrsDef DEF IsHeader
<1>3. PICK k \in DOMAIN g.vlrs : g.vlrs[k].id = other
  BY DEF HasVlr, Where
<1> HIDE DEF i, g
<1>4. /\ i \in 1..Len(h.vlrs) /\ DOMAIN h.vlrs = 1..Len(h.vlrs)
  BY <1>1, <1>2
<1>5. /\ g.vlrs \in Seq(S) /\ Len(g.vlrs) = Len(h.vlrs) - 1
      /\ \A n \in 1..Len(h.vlrs)-1 : g.vlrs[n] = IF n < i THEN h.vlrs[n] ELSE h.vlrs[n + 1]
  BY <1>1, <1>2, <1>4, ElementsOfRest
<1>6. k \in 1..Len(h.vlrs)-1 /\ k + 1 \in 1..Len(h.vlrs) /\ k \in 1..Len(h.vlrs)
  BY <1>2, <1>3, <1>5
<1>7. \E n \in DOMAIN h.vlrs : h.vlrs[n].id = other
  BY <1>3, <1>4, <1>5, <1>6
<1>. QED BY <1>7 DEF HasVlr, Where

\* An attribute gets into the list and into the VLR of the extra bytes.
LEMMA AddAttributeKeepsSlack ==
  ASSUME NEW d, IsDll(d), NEW attribute, attribute.size \in Nat
  PROVE  /\ IsDll(AddAttribute(d, attribute))
         /\ Slack(AddAttribute(d, attribute).header) = Slack(d.header)
         /\ \A id : HasVlr(AddAttribute(d, attribute).header, id)
                      <=> id = ExtraBytesVLR \/ HasVlr(d.header, id)
<1> DEFINE all == Append(d.attributes, attribute)
           e == AddAttribute(d, attribute)
<1>1. AreAttributes(all)
  <2>1. PICK A : d.attributes \in Seq(A) /\ \A a \in A : a.size \in Nat
    BY AttributesDef DEF IsDll
  <2>2. all \in Seq(A \cup {attribute}) /\ \A a \in A \cup {attribute} : a.size \in Nat
    BY <2>1
  <2>. QED BY <2>2, AttributesDef
<1>2. /\ DOMAIN e = DllFields /\ e.attributes = all /\ e.header = WithAttributes(d.header, all)
      /\ e.native = d.native /\ e.compat = d.compat
  BY DEF AddAttribute, IsDll, DllFields
<1> HIDE DEF all, e
<1>3. IsHeader(d.header)
  BY DEF IsDll
<1>4. /\ IsHeader(e.header) /\ Slack(e.header) = Slack(d.header)
      /\ \A id : HasVlr(e.header, id) <=> id = ExtraBytesVLR \/ HasVlr(d.header, id)
  BY <1>1, <1>2, <1>3, WithAttributesKeepsSlack
<1>. QED BY <1>1, <1>2, <1>4 DEF IsDll, e

\* laszip_add_vlr() moves the points by the bytes it adds or replaces.
LEMMA AddVlrKeepsSlack ==
  ASSUME NEW d, IsDll(d), NEW id, id # ExtraBytesVLR, NEW length \in Nat, NEW data
  PROVE  LET e == [d EXCEPT !.header = WithVlr(@, id, length, data)] IN
         /\ IsDll(e) /\ Slack(e.header) = Slack(d.header)
         /\ \A other : HasVlr(e.header, other) <=> other = id \/ HasVlr(d.header, other)
<1> DEFINE e == [d EXCEPT !.header = WithVlr(@, id, length, data)]
<1>1. IsVlr([id |-> id, length |-> length, data |-> data])
  BY DEF IsVlr
<1>2. /\ DOMAIN e = DllFields
      /\ e.header = WithVlr(d.header, id, length, data) /\ e.attributes = d.attributes
      /\ e.native = d.native /\ e.compat = d.compat
  BY DEF IsDll, DllFields
<1> HIDE DEF e
<1>3. /\ IsHeader(e.header) /\ Slack(e.header) = Slack(d.header)
      /\ \A other : HasVlr(e.header, other) <=> other = id \/ HasVlr(d.header, other)
  BY <1>1, <1>2, WithVlrKeepsSlack DEF IsDll
<1>. QED BY <1>2, <1>3 DEF IsDll, e

\* laszip_remove_vlr() leaves 54 bytes behind where it removed no data.
LEMMA RemoveVlrOpensSlack ==
  ASSUME NEW d, IsDll(d), NEW id
  PROVE  LET e == RemoveVlr(d, id)
             nothing == HasVlr(d.header, id) /\ Vlr(d.header, id).length = 0 IN
         /\ IsDll(e) /\ Slack(e.header) = Slack(d.header) + (IF nothing THEN 54 ELSE 0)
         /\ \A other : HasVlr(e.header, other) => HasVlr(d.header, other)
<1>1. CASE HasVlr(d.header, id)
  <2> DEFINE e == [d EXCEPT !.header = WithoutVlr(@, id)]
  <2>1. RemoveVlr(d, id) = e
    BY <1>1 DEF RemoveVlr
  <2>2. /\ DOMAIN e = DllFields /\ e.header = WithoutVlr(d.header, id)
        /\ e.attributes = d.attributes /\ e.native = d.native /\ e.compat = d.compat
    BY DEF IsDll, DllFields
  <2> HIDE DEF e
  <2>3. /\ IsHeader(e.header)
        /\ Slack(e.header) = Slack(d.header) + (IF Vlr(d.header, id).length = 0 THEN 54 ELSE 0)
    BY <1>1, <2>2, WithoutVlrOpensSlack DEF IsDll
  <2>4. \A other : HasVlr(e.header, other) => HasVlr(d.header, other)
    BY <1>1, <2>2, NoVlrAppears DEF IsDll
  <2>5. IsDll(e)
    BY <2>2, <2>3 DEF IsDll
  <2>. QED BY <1>1, <2>1, <2>3, <2>4, <2>5
<1>2. CASE ~HasVlr(d.header, id)
  <2>1. RemoveVlr(d, id) = Refused(d)
    BY <1>2 DEF RemoveVlr
  <2>2. KeepsHeader(Refused(d), d)
    BY RemarksKeepHeader DEF IsDll
  <2>3. IsDll(Refused(d)) /\ Refused(d).header = d.header /\ Slack(d.header) \in Int
    BY <2>2, SameDll, FieldsOfHeader DEF IsDll
  <2>. QED BY <1>2, <2>1, <2>3
<1>. QED BY <1>1, <1>2

\* A call before laszip_open_writer() leaves the offset as wrong as it was, or
\* wrong by the header of one more VLR.
LEMMA CalledKeepsSlack ==
  ASSUME NEW d, IsDll(d), NEW call, IsCall(call), ~HasVlr(d.header, CompatibilityVLR)
  PROVE  LET nothing == call.name = "laszip_remove_vlr" /\ HasVlr(d.header, call.id)
                          /\ Vlr(d.header, call.id).length = 0 IN
         /\ IsDll(Called(d, call))
         /\ Slack(Called(d, call).header) = Slack(d.header) + (IF nothing THEN 54 ELSE 0)
         /\ ~HasVlr(Called(d, call).header, CompatibilityVLR)
<1> DEFINE Good(e) == /\ IsDll(e) /\ Slack(e.header) = Slack(d.header)
                      /\ ~HasVlr(e.header, CompatibilityVLR)
           Adding(id, length, data) == [d EXCEPT !.header = WithVlr(@, id, length, data)]
<1>1. ExtraBytesVLR # CompatibilityVLR /\ Slack(d.header) \in Int
  BY FieldsOfHeader DEF ExtraBytesVLR, CompatibilityVLR, IsDll
<1>10. ASSUME NEW id, id \notin {ExtraBytesVLR, CompatibilityVLR}, NEW length \in Nat, NEW data
       PROVE  Good(Adding(id, length, data))
  <2>1. LET e == Adding(id, length, data) IN
        /\ IsDll(e) /\ Slack(e.header) = Slack(d.header)
        /\ \A other : HasVlr(e.header, other) <=> other = id \/ HasVlr(d.header, other)
    BY <1>10, AddVlrKeepsSlack
  <2> HIDE DEF Adding
  <2>. QED BY <1>10, <2>1
<1> HIDE DEF Adding
<1>2. CASE call.name = "laszip_remove_vlr"
  <2>1. Called(d, call) = RemoveVlr(d, call.id)
    BY <1>2 DEF Called
  <2>. QED BY <1>2, <2>1, RemoveVlrOpensSlack
<1>3. CASE call.name = "laszip_add_attribute"
  <2>1. Called(d, call) = AddAttribute(d, call.attribute) /\ call.attribute.size \in Nat
    BY <1>3 DEF Called, IsCall
  <2>2. Good(AddAttribute(d, call.attribute))
    BY <1>1, <2>1, AddAttributeKeepsSlack
  <2>. QED BY <1>1, <1>3, <2>1, <2>2
<1>4. CASE call.name = "laszip_set_point_type_and_size"
  <2> DEFINE e == Called(d, call)
             g == [d.header EXCEPT !.format = d.header.format,
                                   !.length = d.header.length + call.more]
  <2>1. call.more \in Int /\ e = [d EXCEPT !.header.format = d.header.format,
                                          !.header.length = d.header.length + call.more]
    BY <1>4 DEF Called, IsCall, SetPointTypeAndSize
  <2>2. /\ DOMAIN e = DllFields /\ e.header = g /\ e.attributes = d.attributes
        /\ e.native = d.native /\ e.compat = d.compat
    BY <2>1 DEF IsDll, DllFields
  <2>3. /\ IsHeader(d.header) /\ DOMAIN g = HeaderFields /\ g.vlrs = d.header.vlrs
        /\ g.minor \in 0..5 /\ g.format \in 0..10 /\ g.length \in Int
        /\ g.size = d.header.size + 0 /\ g.offset = d.header.offset + 0
        /\ g.after = d.header.after
    BY <2>1 DEF IsDll, IsHeader, HeaderFields
  <2> HIDE DEF g, e
  <2>4. /\ IsHeader(g) /\ Slack(g) = Slack(d.header)
        /\ \A id : HasVlr(g, id) <=> HasVlr(d.header, id)
    BY <2>3, HeaderWithSameVlrs
  <2>5. Good(e)
    BY <2>2, <2>4 DEF IsDll
  <2>. QED BY <1>1, <1>4, <2>5 DEF e
<1>5. CASE call.name = "laszip_set_geokeys"
  <2> DEFINE id == "LASF_Projection 34735"
  <2>1. call.n \in Nat
    BY <1>5 DEF IsCall
  <2>2. Called(d, call) = Adding(id, 8 + 8 * call.n, call.n)
    BY <1>5 DEF Called, SetGeokeys, Adding
  <2>3. id \notin {ExtraBytesVLR, CompatibilityVLR}
    BY DEF ExtraBytesVLR, CompatibilityVLR
  <2> HIDE DEF id
  <2>4. 8 + 8 * call.n \in Nat
    BY <2>1
  <2>5. Good(Called(d, call))
    BY <1>10, <2>2, <2>3, <2>4
  <2>. QED BY <1>1, <1>5, <2>5
<1>6. CASE call.name = "laszip_set_geodouble_params"
  <2> DEFINE id == "LASF_Projection 34736"
  <2>1. call.n \in Nat
    BY <1>6 DEF IsCall
  <2>2. Called(d, call) = Adding(id, 8 * call.n, call.n)
    BY <1>6 DEF Called, SetGeodoubleParams, Adding
  <2>3. id \notin {ExtraBytesVLR, CompatibilityVLR}
    BY DEF ExtraBytesVLR, CompatibilityVLR
  <2> HIDE DEF id
  <2>4. 8 * call.n \in Nat
    BY <2>1
  <2>5. Good(Called(d, call))
    BY <1>10, <2>2, <2>3, <2>4
  <2>. QED BY <1>1, <1>6, <2>5
<1>7. CASE call.name = "laszip_set_geoascii_params"
  <2> DEFINE id == "LASF_Projection 34737"
  <2>1. call.n \in Nat
    BY <1>7 DEF IsCall
  <2>2. Called(d, call) = Adding(id, call.n, call.n)
    BY <1>7 DEF Called, SetGeoasciiParams, Adding
  <2>3. id \notin {ExtraBytesVLR, CompatibilityVLR}
    BY DEF ExtraBytesVLR, CompatibilityVLR
  <2> HIDE DEF id
  <2>4. Good(Called(d, call))
    BY <1>10, <2>1, <2>2, <2>3
  <2>. QED BY <1>1, <1>7, <2>4
<1>8. CASE call.name = "laszip_add_vlr"
  <2>1. call.length \in Nat /\ call.id \notin {ExtraBytesVLR, CompatibilityVLR}
    BY <1>8 DEF IsCall
  <2>2. Called(d, call) = Adding(call.id, call.length, call.length)
    BY <1>8 DEF Called, AddVlr, Adding
  <2>3. Good(Called(d, call))
    BY <1>10, <2>1, <2>2
  <2>. QED BY <1>1, <1>8, <2>3
<1>9. CASE call.name \in {"laszip_request_native_extension", "laszip_request_compatibility_mode"}
  <2> DEFINE e == Called(d, call)
  <2>1. /\ call.request \in BOOLEAN
        /\ e \in {RequestNativeExtension(d, call.request), RequestCompatibilityMode(d, call.request)}
    BY <1>9 DEF Called, IsCall
  <2>2. /\ DOMAIN e = DllFields /\ e.header = d.header /\ e.attributes = d.attributes
        /\ e.native \in BOOLEAN /\ e.compat \in BOOLEAN /\ ~(e.native /\ e.compat)
    BY <2>1 DEF RequestNativeExtension, RequestCompatibilityMode, IsDll, DllFields
  <2> HIDE DEF e
  <2>3. Good(e)
    BY <2>2 DEF IsDll
  <2>. QED BY <1>1, <1>9, <2>3 DEF e
<1>. QED BY <1>2, <1>3, <1>4, <1>5, <1>6, <1>7, <1>8, <1>9 DEF IsCall

-----------------------------------------------------------------------------
(* laszip_open_writer() prepares header and point *)

\* The object with the old counters filled in describes the same points.
LEMMA OldCountersAreApart ==
  ASSUME NEW d, IsDll(d)
  PROVE  LET e == [d EXCEPT !.header = WithOldCounters(@)] IN
         /\ IsDll(e) /\ Slack(e.header) = Slack(d.header)
         /\ e.header.format = d.header.format /\ e.header.length = d.header.length
         /\ e.native = d.native /\ e.compat = d.compat
         /\ \A id : HasVlr(e.header, id) <=> HasVlr(d.header, id)
<1> DEFINE e == [d EXCEPT !.header = WithOldCounters(@)]
<1>1. /\ DOMAIN e = DllFields /\ e.header = WithOldCounters(d.header)
      /\ e.attributes = d.attributes /\ e.native = d.native /\ e.compat = d.compat
  BY DEF IsDll, DllFields
<1> HIDE DEF e
<1>2. /\ IsHeader(e.header) /\ Slack(e.header) = Slack(d.header)
      /\ \A f \in HeaderFields \ {"count", "by"} : e.header[f] = d.header[f]
  BY <1>1, WithOldCountersKeepsSlack DEF IsDll
<1>3. /\ e.header.format = d.header.format /\ e.header.length = d.header.length
      /\ e.header.vlrs = d.header.vlrs
  BY <1>2 DEF HeaderFields
<1>4. \A id : HasVlr(e.header, id) <=> HasVlr(d.header, id)
  BY <1>3 DEF HasVlr, Where
<1>5. IsDll(e)
  BY <1>1, <1>2 DEF IsDll
<1>. QED BY <1>1, <1>2, <1>3, <1>4, <1>5 DEF e

\* The old point type and the VLR that describes the rest of the new points.
LEMMA WithOldPointsKeepsSlack ==
  ASSUME NEW d, IsDll(d), d.header.format \in 6..10, NEW attributes, AreAttributes(attributes)
  PROVE  LET e == WithOldPoints(d, attributes) IN
         /\ IsDll(e) /\ Slack(e.header) = Slack(d.header)
         /\ e.header.format = OldFormat(d.header.format) /\ e.header.length = d.header.length
         /\ HasVlr(e.header, ExtraBytesVLR)
<1> DEFINE e == WithOldPoints(d, attributes)
           g == WithAttributes(d.header, attributes)
           h == [g EXCEPT !.format = OldFormat(@)]
<1>1. /\ DOMAIN e = DllFields /\ e.header = h
      /\ e.attributes = attributes /\ e.native = d.native /\ e.compat = d.compat
  BY DEF IsDll, DllFields, WithOldPoints
<1>2. /\ IsHeader(g) /\ Slack(g) = Slack(d.header) /\ HasVlr(g, ExtraBytesVLR)
      /\ DiffersInVlrs(g, d.header)
  BY WithAttributesKeepsSlack DEF IsDll
<1> HIDE DEF g
<1>3. g.format = d.header.format /\ g.length = d.header.length
  BY <1>2 DEF DiffersInVlrs, HeaderFields
<1>4. OldFormat(g.format) \in 0..10 /\ OldFormat(g.format) = OldFormat(d.header.format)
  BY <1>3, OldFormats
<1>5. /\ DOMAIN h = HeaderFields /\ h.vlrs = g.vlrs /\ h.minor \in 0..5 /\ h.format \in 0..10
      /\ h.length \in Int /\ h.size = g.size + 0 /\ h.offset = g.offset + 0
      /\ h.after = g.after /\ h.format = OldFormat(d.header.format) /\ h.length = g.length
  BY <1>2, <1>4 DEF IsHeader, HeaderFields
<1> HIDE DEF h, e
<1>6. IsHeader(h) /\ Slack(h) = Slack(g) /\ HasVlr(h, ExtraBytesVLR)
  BY <1>2, <1>5, HeaderWithSameVlrs
<1>7. IsDll(e)
  BY <1>1, <1>6 DEF IsDll
<1>. QED BY <1>1, <1>2, <1>3, <1>5, <1>6, <1>7 DEF e

\* What compatibility mode makes of an object with points of LAS 1.4: it keeps
\* the slack; without an error the points are old ones and three bytes longer.
LEMMA CompatibleKeepsSlack ==
  ASSUME NEW d, IsDll(d), d.header.format \in 6..10
  PROVE  LET e == PrepareCompatible(d) IN
         /\ IsDll(e) /\ Slack(e.header) = Slack(d.header)
         /\ ~e.error =>
              /\ ExtraBytes(d.header.format, d.header.length) >= 0
              /\ e.header.format = OldFormat(d.header.format)
              /\ e.header.length = d.header.length + 3
              /\ HasVlr(e.header, ExtraBytesVLR)
<1> DEFINE e == PrepareCompatible(d)
           existing == ExtraBytes(d.header.format, d.header.length)
<1>1. existing \in Int
  BY DEF ExtraBytes, PointSize, IsDll, IsHeader
<1>2. CASE existing < 0
  <2> DEFINE g == WithCounters32(d.header)
             c == [d EXCEPT !.header = WithCounters32(@)]
  <2>1. e = Refused(c)
    BY <1>2 DEF PrepareCompatible
  <2>2. /\ DOMAIN c = DllFields /\ c.header = g
        /\ c.attributes = d.attributes /\ c.native = d.native /\ c.compat = d.compat
    BY DEF IsDll, DllFields
  <2>3. /\ DOMAIN g = HeaderFields /\ g.vlrs = d.header.vlrs /\ g.minor \in 0..5
        /\ g.format \in 0..10 /\ g.length \in Int /\ g.size = d.header.size + 0
        /\ g.offset = d.header.offset + 0 /\ g.after = d.header.after /\ IsHeader(d.header)
    BY DEF WithCounters32, IsDll, IsHeader, HeaderFields
  <2> HIDE DEF g, c
  <2>4. IsHeader(g) /\ Slack(g) = Slack(d.header)
    BY <2>3, HeaderWithSameVlrs
  <2>5. IsDll(c) /\ Slack(c.header) = Slack(d.header)
    BY <2>2, <2>4 DEF IsDll
  <2>6. KeepsHeader(Refused(c), c) /\ Refused(c).error = TRUE
    BY <2>2, RemarksKeepHeader DEF Refused, DllFields
  <2>. QED BY <2>1, <2>5, <2>6, SameDll
<1>3. CASE existing >= 0
  <2> DEFINE c == [d EXCEPT !.header = Downgraded(@)]
             described == ForOldPoints(Described(c.attributes, c.header, existing), c.header.format)
  <2>1. e = Recoded(c, existing)
    BY <1>1, <1>3 DEF PrepareCompatible
  <2>2. /\ DOMAIN c = DllFields /\ c.header = Downgraded(d.header)
        /\ c.attributes = d.attributes /\ c.native = d.native /\ c.compat = d.compat
    BY DEF IsDll, DllFields
  <2> HIDE DEF c
  <2>3. /\ IsHeader(c.header) /\ Slack(c.header) = Slack(d.header)
        /\ c.header.format = d.header.format /\ c.header.length = d.header.length + 3
    BY <2>2, DowngradedKeepsSlack DEF IsDll
  <2>4. IsDll(c)
    BY <2>2, <2>3 DEF IsDll
  <2>5. AreAttributes(described)
    BY <1>1, <2>3, <2>4, DescribedAreAttributes, ForOldPointsAreAttributes DEF IsDll
  <2>6. CASE existing > 0 /\ SizeOf(c.attributes) > existing
    <3>1. e = Refused(c)
      BY <2>1, <2>6 DEF Recoded
    <3>2. KeepsHeader(Refused(c), c) /\ Refused(c).error = TRUE
      BY <2>2, RemarksKeepHeader DEF Refused, DllFields
    <3>. QED BY <2>3, <2>4, <3>1, <3>2, SameDll
  <2>7. CASE ~(existing > 0 /\ SizeOf(c.attributes) > existing)
    <3>1. e = WithOldPoints(c, described)
      BY <2>1, <2>7 DEF Recoded
    <3> HIDE DEF described, e
    <3>2. /\ IsDll(e) /\ Slack(e.header) = Slack(c.header)
          /\ e.header.format = OldFormat(c.header.format) /\ e.header.length = c.header.length
          /\ HasVlr(e.header, ExtraBytesVLR)
      BY <2>3, <2>4, <2>5, <3>1, WithOldPointsKeepsSlack
    <3>. QED BY <1>3, <2>3, <3>2 DEF e
  <2>. QED BY <2>6, <2>7
<1>. QED BY <1>1, <1>2, <1>3

\* A header of the same points as h, or of old ones that are three bytes longer.
IsPreparedFrom(g, h, compat) ==
  \/ g.format = h.format /\ g.length = h.length /\ (h.format <= 5 \/ ~compat)
  \/ /\ h.format > 5 /\ compat /\ ExtraBytes(h.format, h.length) >= 0
     /\ g.format = OldFormat(h.format) /\ g.length = h.length + 3

\* What laszip_open_writer() makes of the object before it writes the header:
\* an error, the same points, or old ones that are three bytes longer.
LEMMA PreparedKeepsSlack ==
  ASSUME NEW d, IsDll(d), NEW compress \in BOOLEAN, ~HasVlr(d.header, CompatibilityVLR)
  PROVE  LET e == PreparedDll(d, compress) IN
         /\ IsDll(e) /\ Slack(e.header) = Slack(d.header)
         /\ ~e.error => CompatibilityHasExtraBytes(e.header)
         /\ ~e.error => IsPreparedFrom(e.header, d.header, d.compat)
<1> DEFINE e == PreparedDll(d, compress)
           c == [d EXCEPT !.header = WithOldCounters(@)]
           p == NewPoint14(c)
           SamePoints(x) == /\ IsDll(x) /\ Slack(x.header) = Slack(d.header)
                            /\ CompatibilityHasExtraBytes(x.header)
                            /\ x.header.format = d.header.format
                            /\ x.header.length = d.header.length
<1>1. /\ IsDll(c) /\ Slack(c.header) = Slack(d.header)
      /\ c.header.format = d.header.format /\ c.header.length = d.header.length
      /\ c.native = d.native /\ c.compat = d.compat
      /\ ~HasVlr(c.header, CompatibilityVLR)
  BY OldCountersAreApart
<1>2. d.header.format \in 0..10 /\ DOMAIN d = DllFields
  BY DEF IsDll, IsHeader
<1> HIDE DEF c
<1>3. ASSUME NEW x, KeepsHeader(x, c)
      PROVE  SamePoints(x)
  <2>1. IsDll(x) /\ x.header = c.header
    BY <1>1, <1>3, SameDll
  <2>. QED BY <1>1, <2>1 DEF CompatibilityHasExtraBytes
<1>4. /\ KeepsHeader(Refused(c), c) /\ KeepsHeader(OldPoint(c), c) /\ KeepsHeader(p, c)
      /\ KeepsHeader([p EXCEPT !.compatibility_mode = FALSE], c)
  BY <1>1, RemarksKeepHeader DEF IsDll
<1>5. DOMAIN p = DllFields /\ p.native = d.native /\ p.compat = d.compat
  BY <1>1, <1>4 DEF KeepsHeader, IsDll
<1>6. KeepsHeader(Refused(p), c) /\ Refused(p).error = TRUE
  <2>1. KeepsHeader(Refused(p), p) /\ Refused(p).error = TRUE
    BY <1>5, RemarksKeepHeader DEF Refused, DllFields
  <2> HIDE DEF p
  <2>. QED BY <1>4, <2>1 DEF KeepsHeader
<1> HIDE DEF SamePoints, p
<1>7. CASE ~CanSetup(d, compress)
  <2>1. e = Refused(d)
    BY <1>7 DEF PreparedDll
  <2>2. KeepsHeader(Refused(d), d) /\ Refused(d).error = TRUE
    BY <1>2, RemarksKeepHeader DEF Refused, DllFields
  <2>3. IsDll(Refused(d)) /\ Refused(d).header = d.header
    BY <2>2, SameDll
  <2>. QED BY <2>1, <2>2, <2>3
<1>8. CASE CanSetup(d, compress) /\ ~CountersAgree(d.header)
  <2>1. e = Refused(c) /\ Refused(c).error = TRUE
    BY <1>1, <1>8 DEF PreparedDll, c, Refused, IsDll, DllFields
  <2>. QED BY <1>3, <1>4, <2>1 DEF SamePoints
<1>9. CASE CanSetup(d, compress) /\ CountersAgree(d.header)
  <2>1. e = PreparePoint(c, compress)
    BY <1>9 DEF PreparedDll, c
  <2> HIDE DEF e
  <2>2. CASE d.header.format <= 5
    <3>1. e = OldPoint(c)
      BY <1>1, <1>2, <2>1, <2>2 DEF PreparePoint
    <3>. QED BY <1>3, <1>4, <2>2, <3>1 DEF SamePoints, IsPreparedFrom, e
  <2>3. CASE d.header.format > 5 /\ d.native
    <3>1. ~d.compat
      BY <2>3 DEF IsDll
    <3>2. e = [p EXCEPT !.compatibility_mode = FALSE]
      BY <1>1, <1>2, <2>1, <2>3, <3>1 DEF PreparePoint, p
    <3>. QED BY <1>3, <1>4, <3>1, <3>2 DEF SamePoints, IsPreparedFrom, e
  <2>4. CASE d.header.format > 5 /\ ~d.native /\ d.compat
    <3>1. e = PrepareCompatible(p)
      BY <1>1, <1>2, <2>1, <2>4 DEF PreparePoint, p
    <3>2. SamePoints(p) /\ p.header.format \in 6..10
      BY <1>2, <1>3, <1>4, <2>4 DEF SamePoints
    <3>3. /\ IsDll(e) /\ Slack(e.header) = Slack(p.header)
          /\ ~e.error =>
               /\ ExtraBytes(p.header.format, p.header.length) >= 0
               /\ e.header.format = OldFormat(p.header.format)
               /\ e.header.length = p.header.length + 3
               /\ HasVlr(e.header, ExtraBytesVLR)
      BY <3>1, <3>2, CompatibleKeepsSlack DEF SamePoints
    <3>. QED BY <2>4, <3>2, <3>3 DEF SamePoints, CompatibilityHasExtraBytes, IsPreparedFrom, e
  <2>5. CASE d.header.format > 5 /\ ~d.native /\ ~d.compat
    <3>1. e \in {p, Refused(p)}
      BY <1>1, <1>2, <2>1, <2>5 DEF PreparePoint, p
    <3>. QED BY <1>3, <1>4, <1>6, <2>5, <3>1 DEF SamePoints, IsPreparedFrom, e
  <2>. QED BY <1>2, <2>2, <2>3, <2>4, <2>5 DEF IsDll
<1>. QED BY <1>7, <1>8, <1>9

\* The items set up for the points the object had fit those that are written.
LEMMA ItemsFitPreparedPoints ==
  ASSUME NEW h, IsHeader(h), NEW g, NEW compat \in BOOLEAN, IsPreparedFrom(g, h, compat)
  PROVE  /\ ExtraBytes(h.format, h.length) >= 0 =>
              FitItems(WithVersions(Items(h.format, h.length, compat),
                                    DefaultVersion(h.format, h.minor)), g.length)
         /\ Types(WithVersions(Items(h.format, h.length, compat), 0))
              = Types(Items(g.format, g.length, FALSE))
<1> DEFINE format == h.format
           length == h.length
           minor == h.minor
<1>1. format \in 0..10 /\ length \in Int /\ minor \in 0..5
  BY DEF IsHeader
<1>2. \/ g.format = format /\ g.length = length /\ (format <= 5 \/ ~compat)
      \/ /\ format > 5 /\ compat /\ ExtraBytes(format, length) >= 0
         /\ g.format = OldFormat(format) /\ g.length = length + 3
  BY DEF IsPreparedFrom
<1> HIDE DEF format, length, minor
<1>3. ASSUME ExtraBytes(format, length) >= 0
      PROVE  FitItems(WithVersions(Items(format, length, compat), DefaultVersion(format, minor)),
                      g.length)
  <2>1. DefaultVersion(format, minor) \in 2..4
    BY DEF DefaultVersion
  <2>2. g.length = length + (IF format > 5 /\ compat THEN 3 ELSE 0)
    BY <1>1, <1>2
  <2>. QED BY <1>1, <1>3, <2>1, <2>2, SetupPassesCheck
<1>4. Types(WithVersions(Items(format, length, compat), 0)) = Types(Items(format, length, compat))
  BY TypesKeepVersions
<1>5. Types(Items(format, length, compat)) = Types(Items(g.format, g.length, FALSE))
  <2>1. CASE format > 5 /\ compat
    <3>1. /\ format \in 6..10 /\ ExtraBytes(format, length) >= 0 /\ compat = TRUE
          /\ g.format = OldFormat(format) /\ g.length = length + 3
      BY <1>1, <1>2, <2>1
    <3>. QED BY <1>1, <3>1, RecodedTypes
  <2>2. CASE format <= 5
    <3>1. g.format = format /\ g.length = length
      BY <1>1, <1>2, <2>2
    <3>2. Items(format, length, compat) = Items(format, length, FALSE)
      BY <1>1, <2>2 DEF Items
    <3>. QED BY <3>1, <3>2
  <2>3. CASE ~compat
    <3>1. g.format = format /\ g.length = length /\ compat = FALSE
      BY <1>2, <2>3
    <3>. QED BY <3>1
  <2>4. format > 5 \/ format <= 5
    BY <1>1
  <2>. QED BY <2>1, <2>2, <2>3, <2>4
<1>. QED BY <1>3, <1>4, <1>5 DEF format, length, minor

\* There are as many items as setup() made.
LEMMA ItemsHaveALength ==
  ASSUME NEW format \in 0..10, NEW length \in Int, NEW compat \in BOOLEAN, NEW version
  PROVE  Len(WithVersions(Items(format, length, compat), version)) \in Nat
<1> DEFINE items == Items(format, length, compat)
<1>1. PICK S : items \in Seq(S)
  BY ItemsOfSetup
<1> HIDE DEF items
<1>2. DOMAIN WithVersions(items, version) = 1..Len(items) /\ Len(items) \in Nat
  BY <1>1 DEF WithVersions
<1>. QED BY <1>2 DEF items

\* laszip_read_header() makes no VLR.
LEMMA NoVlrIsReadBack ==
  ASSUME NEW h, IsHeader(h), NEW id, HasVlr(ReadBack(h), id)
  PROVE  HasVlr(h, id)
<1> DEFINE g == IF HasVlr(h, LASzipVLR) THEN WithoutVlr(h, LASzipVLR) ELSE h
<1>1. IsHeader(g)
  BY WithoutVlrOpensSlack
<1>2. HasVlr(g, id) => HasVlr(h, id)
  BY NoVlrAppears
<1>3. ReadBack(h).vlrs = g.vlrs
  <2>1. ReadBack(h) = [g EXCEPT !.in_header = g.size - FixedSize(g.minor),
                                !.after = g.offset - VlrBytes(g.vlrs) - g.size]
    BY DEF ReadBack
  <2> HIDE DEF g
  <2>2. DOMAIN g = HeaderFields
    BY <1>1 DEF IsHeader
  <2>. QED BY <2>1, <2>2 DEF HeaderFields
<1> HIDE DEF g
<1>4. HasVlr(g, id)
  BY <1>3 DEF HasVlr, Where
<1>. QED BY <1>2, <1>4

\* The header that the reader takes from a file has an offset that is right,
\* and is not one of compatibility mode without the VLR of the extra bytes.
LEMMA HeaderThatIsRead ==
  ASSUME NEW d, NEW file, IsHeader(file.header), CompatibilityHasExtraBytes(file.header)
  PROVE  LET h == HeaderOf(d, file) IN
         IsHeader(h) /\ Slack(h) = 0 /\ CompatibilityHasExtraBytes(h)
<1> DEFINE f == [file.header EXCEPT
                   !.extended = IF file.header.minor >= 4 THEN @ ELSE d.header.extended,
                   !.gps = IF file.header.minor >= 5 THEN @ ELSE d.header.gps]
           h == HeaderOf(d, file)
<1>1. h = ReadBack(f)
  BY DEF HeaderOf
<1>2. /\ DOMAIN f = HeaderFields /\ f.vlrs = file.header.vlrs /\ f.minor \in 0..5
      /\ f.format \in 0..10 /\ f.length \in Int /\ f.size = file.header.size + 0
      /\ f.offset = file.header.offset + 0 /\ f.after = file.header.after
  BY DEF IsHeader, HeaderFields
<1> HIDE DEF f, h
<1>3. IsHeader(f) /\ CompatibilityHasExtraBytes(f)
  BY <1>2, HeaderWithSameVlrs DEF CompatibilityHasExtraBytes
<1>4. IsHeader(h) /\ Slack(h) = 0
  BY <1>1, <1>3, ReadBackHasNoSlack
<1>5. CompatibilityHasExtraBytes(h)
  <2>1. SUFFICES ASSUME HasVlr(h, CompatibilityVLR)
                 PROVE  HasVlr(h, ExtraBytesVLR)
    BY DEF CompatibilityHasExtraBytes
  <2>2. HasVlr(f, ExtraBytesVLR)
    BY <1>1, <1>3, <2>1, NoVlrIsReadBack DEF CompatibilityHasExtraBytes
  <2>3. ExtraBytesVLR # LASzipVLR
    BY DEF ExtraBytesVLR, LASzipVLR
  <2>. QED BY <1>1, <1>3, <2>2, <2>3, ReadBackHasNoSlack
<1>. QED BY <1>4, <1>5 DEF h

\* There is no attribute in an empty list.
LEMMA NoStarts == ~HasAllStarts(Starts(<<>>))
<1>1. \A name : IndicesOf(<<>>, name) = {}
  BY DEF IndicesOf
<1>2. \A name : StartOf(<<>>, name) = -1
  BY <1>1 DEF StartOf
<1>. QED BY <1>2 DEF HasAllStarts, Starts

\* The object with what laszip_open_reader() makes of the header it has read.
LEMMA WithHeaderKeepsSlack ==
  ASSUME NEW d, IsDll(d), NEW h, IsHeader(h), CompatibilityHasExtraBytes(h), NEW o
  PROVE  LET e == WithHeader(d, h, StartsIn(o, h)) IN
         IsDll(e) /\ Slack(e.header) = Slack(h)
<1> DEFINE start == StartsIn(o, h)
           e == WithHeader(d, h, start)
<1>1. DOMAIN d = DllFields
  BY DEF IsDll
<1>2. CASE ~(d.compat /\ IsCompatible(h)) \/ ~HasAllStarts(start)
  <2> HIDE DEF start
  <2>1. /\ DOMAIN e = DllFields /\ e.header = h /\ e.attributes = d.attributes
        /\ e.native = d.native /\ e.compat = d.compat
    BY <1>1, <1>2 DEF WithHeader, DllFields
  <2> HIDE DEF e
  <2>2. IsDll(e)
    BY <2>1 DEF IsDll
  <2>. QED BY <2>1, <2>2 DEF e, start
<1>3. CASE IsCompatible(h) /\ d.compat /\ HasAllStarts(start)
  <2>1. HasVlr(h, ExtraBytesVLR)
    BY <1>3 DEF IsCompatible, CompatibilityHasExtraBytes
  <2>2. Vlr(h, ExtraBytesVLR).data # <<>>
    BY <1>3, <2>1, NoStarts DEF StartsIn
  <2> HIDE DEF start
  <2>3. /\ DOMAIN e = DllFields /\ e.header = Upgraded(h, start) /\ e.attributes = d.attributes
        /\ e.native = d.native /\ e.compat = d.compat
    BY <1>1, <1>3 DEF WithHeader, DllFields
  <2> HIDE DEF e
  <2>4. IsHeader(e.header) /\ Slack(e.header) = Slack(h)
    BY <1>3, <2>1, <2>2, <2>3, UpgradedKeepsSlack
  <2>5. IsDll(e)
    BY <2>3, <2>4 DEF IsDll
  <2>. QED BY <2>4, <2>5 DEF e, start
<1>. QED BY <1>2, <1>3

-----------------------------------------------------------------------------
(* The steps *)

\* The file keeps saying where its points are and what they are made of.
SameFile ==
  /\ DOMAIN disk' = {"las", "lax"} /\ disk'.las # None /\ disk.las # None
  /\ DOMAIN disk'.las = DOMAIN disk.las
  /\ \A f \in {"starts_at", "compressed", "items"} : disk'.las[f] = disk.las[f]
  /\ IsHeader(disk'.las.header)
  /\ \A f \in {"format", "length", "offset", "vlrs"} : disk'.las.header[f] = disk.las.header[f]

\* Steps that leave the file, or only what the inventory puts into it, keep FileInv.
LEMMA FileStays ==
  ASSUME IInv, disk' = disk \/ SameFile, before' = before,
         phase' \in Opened => phase \in Opened
  PROVE  FileInv'
<1>1. CASE disk' = disk
  BY <1>1 DEF IInv, FileInv, FileDescribesItself
<1>2. CASE SameFile
  <2>1. /\ disk'.las.header.offset = disk.las.header.offset
        /\ disk'.las.header.format = disk.las.header.format
        /\ disk'.las.header.length = disk.las.header.length
        /\ disk'.las.header.vlrs = disk.las.header.vlrs
        /\ disk'.las.starts_at = disk.las.starts_at
        /\ disk'.las.compressed = disk.las.compressed /\ disk'.las.items = disk.las.items
    BY <1>2 DEF SameFile
  <2>2. \A id : HasVlr(disk'.las.header, id) <=> HasVlr(disk.las.header, id)
    BY <2>1 DEF HasVlr, Where
  <2>3. CompatibilityHasExtraBytes(disk'.las.header)
    BY <1>2, <2>2 DEF IInv, FileInv, SameFile, CompatibilityHasExtraBytes
  <2>4. FileDescribesItself'
    BY <1>2, <2>1 DEF IInv, FileInv, SameFile, FileDescribesItself
  <2>. QED BY <1>2, <2>3, <2>4 DEF IInv, FileInv, SameFile
<1>. QED BY <1>1, <1>2

\* Once there is a file, calls that keep the header keep the invariant.
LEMMA OpenedStays ==
  ASSUME IInv, phase \in Opened, phase' \in Opened \cup {"refused"},
         KeepsHeader(dll', dll), disk' = disk \/ SameFile,
         UNCHANGED <<job, lost, before>>
  PROVE  IInv'
<1>1. IsDll(dll') /\ dll'.header = dll.header
  BY SameDll DEF IInv, HeaderInv
<1>2. phase' \notin {"new", "header"} /\ lost = 0
  BY DEF Opened, IInv, HeaderInv
<1>3. HeaderInv'
  BY <1>1, <1>2 DEF IInv, HeaderInv
<1>4. FileInv'
  BY FileStays
<1>. QED BY <1>3, <1>4 DEF IInv

\* At first there are a new object and no file.
LEMMA InitIInv == ASSUME Init PROVE IInv
<1>1. HeaderInv
  BY NewDllIsDll DEF Init, HeaderInv, Opened
<1>2. FileInv
  BY DEF Init, FileInv, Opened
<1>. QED BY <1>1, <1>2 DEF IInv

\* The caller sets its header.
LEMMA StartStep == ASSUME IInv, Start PROVE IInv'
<1> DEFINE c == SetHeader(dll, job.header)
<1>1. /\ IsHeader(job.header) /\ Slack(job.header) = 0
      /\ ~HasVlr(job.header, CompatibilityVLR)
  BY JobsAssumption, FieldsOfHeader DEF IInv, HeaderInv
<1>2. /\ IsDll(c) /\ Slack(c.header) = Slack(job.header)
      /\ ~HasVlr(c.header, CompatibilityVLR)
  BY <1>1, SetHeaderSetsIt DEF IInv, HeaderInv
<1>3. dll' = CreateSpatialIndex(c, job.index)
  BY DEF Start
<1> HIDE DEF c
<1>4. KeepsHeader(dll', c)
  BY <1>2, <1>3 DEF KeepsHeader, CreateSpatialIndex, IsDll, DllFields
<1>5. IsDll(dll') /\ dll'.header = c.header
  BY <1>2, <1>4, SameDll
<1>6. /\ disk' = [las |-> None, lax |-> None] /\ lost' = 0 /\ job' = job /\ phase' = "header"
      /\ phase' \notin Opened
  BY DEF Start, IInv, HeaderInv, Opened
<1>7. HeaderInv'
  BY <1>1, <1>2, <1>5, <1>6 DEF IInv, HeaderInv
<1>8. FileInv'
  BY <1>6 DEF FileInv
<1>. QED BY <1>7, <1>8 DEF IInv

\* A call before the writer is open.
LEMMA CallStep == ASSUME IInv, NEW call \in job.calls, Call(call) PROVE IInv'
<1> DEFINE a == Accepted(dll)
<1>1. IsDll(a) /\ a.header = dll.header
  BY RemarksKeepHeader, SameDll DEF IInv, HeaderInv, IsDll
<1>2. IsCall(call) /\ ~HasVlr(a.header, CompatibilityVLR)
  BY <1>1, JobsAssumption DEF Call, IInv, HeaderInv
<1> HIDE DEF a
<1>3. dll' = Called(a, call)
  BY DEF Call, a
<1>4. /\ IsDll(dll') /\ ~HasVlr(dll'.header, CompatibilityVLR)
      /\ Slack(dll'.header) = Slack(dll.header) + (IF RemovesNothing(call) THEN 54 ELSE 0)
  <2>1. LET nothing == call.name = "laszip_remove_vlr" /\ HasVlr(a.header, call.id)
                         /\ Vlr(a.header, call.id).length = 0 IN
        /\ IsDll(dll') /\ ~HasVlr(dll'.header, CompatibilityVLR)
        /\ Slack(dll'.header) = Slack(a.header) + (IF nothing THEN 54 ELSE 0)
    BY <1>1, <1>2, <1>3, CalledKeepsSlack
  <2>. QED BY <1>1, <2>1 DEF RemovesNothing
<1>5. /\ phase = "header" /\ phase' = "header" /\ phase' \notin {"new"} \cup Opened
      /\ disk' = disk /\ disk = [las |-> None, lax |-> None] /\ job' = job
      /\ lost' = IF RemovesNothing(call) THEN lost + 1 ELSE lost
  BY DEF Call, IInv, HeaderInv, Opened
<1>6. Slack(dll'.header) = 54 * lost' /\ lost' \in Nat
  <2>1. lost \in Nat /\ Slack(dll.header) = 54 * lost
    BY DEF IInv, HeaderInv
  <2>2. CASE RemovesNothing(call)
    <3>1. lost' = lost + 1 /\ Slack(dll'.header) = Slack(dll.header) + 54
      BY <1>4, <1>5, <2>2
    <3>. QED BY <2>1, <3>1
  <2>3. CASE ~RemovesNothing(call)
    <3>1. lost' = lost /\ Slack(dll'.header) = Slack(dll.header) + 0
      BY <1>4, <1>5, <2>3
    <3>. QED BY <2>1, <3>1
  <2>. QED BY <2>2, <2>3
<1>7. HeaderInv'
  BY <1>4, <1>5, <1>6 DEF IInv, HeaderInv
<1>8. FileInv'
  BY <1>5 DEF FileInv
<1>. QED BY <1>7, <1>8 DEF IInv

\* A file of items that describes itself; o is the object it was opened with.
IsFileOf(las, items, compress, o) ==
  /\ DOMAIN las = {"header", "starts_at", "compressed", "items", "points"}
  /\ IsHeader(las.header) /\ CompatibilityHasExtraBytes(las.header)
  /\ las.compressed = compress /\ las.items = items
  /\ las.header.offset = las.starts_at
  /\ compress /\ Existing(o.header) >= 0 => FitItems(items, las.header.length)
  /\ ~compress => Types(items) = Types(Items(las.header.format, las.header.length, FALSE))

\* A file that was just written says what is in it.
LEMMA FileOfPrepared ==
  ASSUME NEW o, IsDll(o), NEW compress \in BOOLEAN,
         NEW d, IsHeader(d.header), OffsetIsRight(d.header), CompatibilityHasExtraBytes(d.header),
         IsPreparedFrom(d.header, o.header, o.compat),
         NEW items, items = WriterItems(o, compress)
  PROVE  IsFileOf(FileOf(WrittenHeader(d.header, items, compress), items, compress),
                  items, compress, o)
<1> DEFINE h == o.header
           compat == o.compat
           written == WrittenHeader(d.header, items, compress)
           las == FileOf(written, items, compress)
<1>1. /\ h.format \in 0..10 /\ h.length \in Int /\ h.minor \in 0..5
      /\ IsHeader(h) /\ compat \in BOOLEAN /\ IsPreparedFrom(d.header, h, compat)
      /\ items = WithVersions(Items(h.format, h.length, compat),
                              IF compress THEN DefaultVersion(h.format, h.minor) ELSE 0)
  BY DEF IsDll, IsHeader, WriterItems
<1>7. Existing(o.header) = ExtraBytes(h.format, h.length)
  BY DEF Existing
<1> HIDE DEF h, compat
<1>2. Len(items) \in Nat
  BY <1>1, ItemsHaveALength
<1>3. /\ IsHeader(written.header) /\ written.header.offset = written.starts_at
      /\ written.header.format = d.header.format /\ written.header.length = d.header.length
      /\ HasVlr(d.header, ExtraBytesVLR) => HasVlr(written.header, ExtraBytesVLR)
      /\ HasVlr(written.header, CompatibilityVLR) => HasVlr(d.header, CompatibilityVLR)
  <2>1. CompatibilityVLR # LASzipVLR
    BY DEF CompatibilityVLR, LASzipVLR
  <2>. QED BY <1>2, <2>1, WrittenHeaderIsRight
<1> HIDE DEF written
<1>4. /\ DOMAIN las = {"header", "starts_at", "compressed", "items", "points"}
      /\ las.header = written.header /\ las.starts_at = written.starts_at
      /\ las.compressed = compress /\ las.items = items
  BY DEF FileOf
<1> HIDE DEF las
<1>5. CompatibilityHasExtraBytes(las.header)
  BY <1>3, <1>4 DEF CompatibilityHasExtraBytes
<1>6. /\ compress /\ ExtraBytes(h.format, h.length) >= 0 => FitItems(items, d.header.length)
      /\ ~compress => Types(items) = Types(Items(d.header.format, d.header.length, FALSE))
  <2> DEFINE Fits(version) == WithVersions(Items(h.format, h.length, compat), version)
  <2>1. /\ ExtraBytes(h.format, h.length) >= 0 =>
             FitItems(Fits(DefaultVersion(h.format, h.minor)), d.header.length)
        /\ Types(Fits(0)) = Types(Items(d.header.format, d.header.length, FALSE))
    BY <1>1, ItemsFitPreparedPoints
  <2>2. items = Fits(IF compress THEN DefaultVersion(h.format, h.minor) ELSE 0)
    BY <1>1
  <2> HIDE DEF Fits
  <2>3. CASE compress
    BY <2>1, <2>2, <2>3
  <2>4. CASE ~compress
    BY <2>1, <2>2, <2>4
  <2>. QED BY <2>3, <2>4
<1>. QED BY <1>3, <1>4, <1>5, <1>6, <1>7 DEF las, written, IsFileOf

\* laszip_open_writer() refuses, or no VLR without data was removed and the
\* header that it writes describes the file.
LEMMA OpenWriterStep ==
  ASSUME IInv, NEW compress \in BOOLEAN, OpenWriter(compress) PROVE IInv'
<1>1. PICK items, d :
        /\ items = WriterItems(dll, compress)
        /\ d = PreparedDll(SetupItems(Accepted(dll), items), compress)
        /\ \/ /\ dll' = Refused(d) /\ phase' = "refused" /\ disk' = disk
           \/ /\ ~d.error /\ CanWriteHeader(d)
              /\ dll' = WithWriter(d, items) /\ phase' = "write"
              /\ disk' = [las |-> FileOf(WrittenHeader(d.header, items, compress), items, compress),
                          lax |-> None]
  BY DEF OpenWriter
<1>2. /\ phase = "header" /\ before' = dll.header /\ job' = job /\ lost' = lost
      /\ disk = [las |-> None, lax |-> None] /\ ~HasVlr(dll.header, CompatibilityVLR)
      /\ Slack(dll.header) = 54 * lost /\ lost \in Nat /\ IsDll(dll) /\ job \in Jobs
  BY DEF OpenWriter, IInv, HeaderInv
<1> DEFINE c == SetupItems(Accepted(dll), items)
<1>3. IsDll(c) /\ c.header = dll.header /\ c.compat = dll.compat
  <2>1. KeepsHeader(Accepted(dll), dll) /\ DOMAIN Accepted(dll) = DllFields
    BY <1>2, RemarksKeepHeader DEF IsDll, KeepsHeader
  <2>2. KeepsHeader(c, Accepted(dll))
    BY <2>1, RemarksKeepHeader
  <2>3. KeepsHeader(c, dll)
    BY <2>1, <2>2 DEF KeepsHeader
  <2>. QED BY <1>2, <2>3, SameDll DEF KeepsHeader
<1> HIDE DEF c
<1>4. /\ IsDll(d) /\ Slack(d.header) = 54 * lost
      /\ ~d.error => CompatibilityHasExtraBytes(d.header)
      /\ ~d.error => IsPreparedFrom(d.header, dll.header, dll.compat)
  <2>1. d = PreparedDll(c, compress)
    BY <1>1 DEF c
  <2>. QED BY <1>2, <1>3, <2>1, PreparedKeepsSlack
<1>5. CASE dll' = Refused(d) /\ phase' = "refused" /\ disk' = disk
  <2>1. IsDll(dll') /\ dll'.header = d.header
    BY <1>4, <1>5, RemarksKeepHeader, SameDll DEF IsDll
  <2>2. HeaderInv'
    BY <1>2, <1>4, <1>5, <2>1 DEF HeaderInv, Opened
  <2>3. FileInv'
    BY <1>2, <1>5 DEF FileInv, Opened
  <2>. QED BY <2>2, <2>3 DEF IInv
<1>6. CASE /\ ~d.error /\ CanWriteHeader(d)
           /\ dll' = WithWriter(d, items) /\ phase' = "write"
           /\ disk' = [las |-> FileOf(WrittenHeader(d.header, items, compress), items, compress),
                       lax |-> None]
  <2> DEFINE g == [d.header EXCEPT !.in_header = d.header.size - FixedSize(d.header.minor)]
             las == FileOf(WrittenHeader(d.header, items, compress), items, compress)
  <2>1. OffsetIsRight(d.header) /\ Slack(d.header) = 0 /\ lost = 0
    <3>1. OffsetIsRight(d.header) /\ Slack(d.header) = 0
      BY <1>4, <1>6, FieldsOfHeader DEF CanWriteHeader, IsDll
    <3>. QED BY <1>2, <1>4, <3>1
  <2>2. /\ DOMAIN dll' = DllFields /\ dll'.header = g /\ dll'.attributes = d.attributes
        /\ dll'.native = d.native /\ dll'.compat = d.compat
    BY <1>4, <1>6 DEF WithWriter, IsDll, DllFields
  <2>3. /\ DOMAIN g = HeaderFields /\ g.vlrs = d.header.vlrs /\ g.minor \in 0..5
        /\ g.format \in 0..10 /\ g.length \in Int /\ g.size = d.header.size + 0
        /\ g.offset = d.header.offset + 0 /\ g.after = d.header.after /\ IsHeader(d.header)
    BY <1>4 DEF IsDll, IsHeader, HeaderFields
  <2> HIDE DEF g
  <2>4. IsHeader(g) /\ Slack(g) = Slack(d.header)
    BY <2>3, HeaderWithSameVlrs
  <2>5. IsDll(dll')
    BY <1>4, <2>2, <2>4 DEF IsDll
  <2>6. HeaderInv'
    BY <1>2, <1>4, <1>6, <2>1, <2>2, <2>4, <2>5 DEF HeaderInv, Opened
  <2>7. IsFileOf(las, items, compress, dll)
    <3>1. items = WriterItems(dll, compress) /\ IsPreparedFrom(d.header, dll.header, dll.compat)
      BY <1>1, <1>4, <1>6
    <3>2. IsHeader(d.header) /\ OffsetIsRight(d.header) /\ CompatibilityHasExtraBytes(d.header)
      BY <1>4, <1>6, <2>1, <2>3
    <3>3. IsDll(dll)
      BY <1>2
    <3>. QED BY <3>1, <3>2, <3>3, FileOfPrepared
  <2> HIDE DEF las
  <2>8. DOMAIN disk' = {"las", "lax"} /\ disk'.las = las
    BY <1>6 DEF las
  <2>9. las # None
    BY <2>7 DEF None, IsFileOf
  <2>10. FileDescribesItself'
    BY <1>2, <2>7, <2>8 DEF FileDescribesItself, IsFileOf
  <2>11. FileInv'
    BY <2>7, <2>8, <2>9, <2>10 DEF FileInv, IsFileOf
  <2>. QED BY <2>6, <2>11 DEF IInv
<1>. QED BY <1>1, <1>5, <1>6

\* A point that is written is put behind the others.
LEMMA WriteNextStep == ASSUME IInv, WriteNext PROVE IInv'
<1> DEFINE p == Fitted(job.points[Len(given) + 1])
<1>1. WritePoint(p) /\ UNCHANGED <<job, lost, before>>
  BY DEF WriteNext, WritePoint
<1> HIDE DEF p
<1>2. DOMAIN dll = DllFields /\ phase \in Opened
  BY <1>1 DEF WritePoint, IInv, HeaderInv, IsDll, Opened
<1>3. phase' \in Opened \cup {"refused"}
  BY <1>1 DEF WritePoint, Opened
<1>4. CASE dll' = Refused(dll) /\ disk' = disk
  <2>1. KeepsHeader(dll', dll)
    BY <1>2, <1>4, RemarksKeepHeader
  <2>. QED BY <1>1, <1>2, <1>3, <1>4, <2>1, OpenedStays
<1>5. CASE \E d \in {PointToWrite(SetPoint(dll, p))} :
             /\ dll' = IF job.index THEN Indexed(d) ELSE Written(d)
             /\ disk' = [disk EXCEPT !.las.points = Append(@, Stored(d.writer.items, d.point))]
  <2> DEFINE c == SetPoint(dll, p)
             d == PointToWrite(c)
  <2>1. /\ dll' = IF job.index THEN Indexed(d) ELSE Written(d)
        /\ disk' = [disk EXCEPT !.las.points = Append(@, Stored(d.writer.items, d.point))]
    BY <1>5
  <2>2. KeepsHeader(c, dll)
    BY <1>2, PointsKeepHeader
  <2> HIDE DEF c
  <2>3. KeepsHeader(d, c) /\ DOMAIN c = DllFields
    BY <1>2, <2>2, PointsKeepHeader DEF PointToWrite, KeepsHeader
  <2> HIDE DEF d
  <2>4. KeepsHeader(dll', d)
    <3>1. DOMAIN d = DllFields
      BY <2>3 DEF KeepsHeader
    <3>. QED BY <2>1, <3>1, PointsKeepHeader
  <2>5. KeepsHeader(dll', dll)
    BY <2>2, <2>3, <2>4 DEF KeepsHeader
  <2>6. SameFile
    <3> DEFINE point == Stored(d.writer.items, d.point)
    <3>1. /\ DOMAIN disk = {"las", "lax"} /\ disk.las # None
          /\ DOMAIN disk.las = {"header", "starts_at", "compressed", "items", "points"}
          /\ IsHeader(disk.las.header)
      BY <1>2 DEF IInv, FileInv
    <3>2. disk' = [disk EXCEPT !.las.points = Append(@, point)]
      BY <2>1
    <3> HIDE DEF point
    <3>3. /\ DOMAIN disk' = {"las", "lax"}
          /\ DOMAIN disk'.las = {"header", "starts_at", "compressed", "items", "points"}
          /\ \A f \in {"header", "starts_at", "compressed", "items"} : disk'.las[f] = disk.las[f]
      BY <3>1, <3>2
    <3>4. disk'.las # None
      BY <3>3 DEF None
    <3>. QED BY <3>1, <3>3, <3>4 DEF SameFile
  <2>. QED BY <1>1, <1>2, <1>3, <2>5, <2>6, OpenedStays
<1>. QED BY <1>1, <1>4, <1>5 DEF WritePoint

\* laszip_update_inventory() is about the inventory.
LEMMA UpdateInventoryStep == ASSUME IInv, UpdateInventory PROVE IInv'
<1>1. DOMAIN dll = DllFields /\ phase \in Opened /\ phase' \in Opened
  BY DEF UpdateInventory, IInv, HeaderInv, IsDll, Opened
<1>2. KeepsHeader(dll', dll)
  BY <1>1 DEF UpdateInventory, KeepsHeader, DllFields
<1>. QED BY <1>1, <1>2, OpenedStays DEF UpdateInventory

\* laszip_close_writer() overwrites counters, box and times in the file.
LEMMA CloseWriterStep == ASSUME IInv, CloseWriter PROVE IInv'
<1>1. /\ DOMAIN dll = DllFields /\ phase \in Opened /\ phase' \in Opened
      /\ UNCHANGED <<job, lost, before>>
  BY DEF CloseWriter, IInv, HeaderInv, IsDll, Opened
<1>2. KeepsHeader(dll', dll)
  BY <1>1 DEF CloseWriter, KeepsHeader, DllFields
<1>3. SameFile
  <2> DEFINE g == UpdatedFile(disk.las.header, dll.header, dll.inventory)
  <2>1. /\ DOMAIN disk = {"las", "lax"} /\ disk.las # None
        /\ DOMAIN disk.las = {"header", "starts_at", "compressed", "items", "points"}
        /\ IsHeader(disk.las.header)
    BY <1>1 DEF IInv, FileInv
  <2>2. /\ DOMAIN g = HeaderFields
        /\ \A f \in {"minor", "format", "length", "size", "offset", "after", "vlrs"} :
             g[f] = disk.las.header[f]
    BY <2>1 DEF UpdatedFile, IsHeader, HeaderFields
  <2> HIDE DEF g
  <2>3. IsHeader(g) /\ \A f \in {"format", "length", "offset", "vlrs"} : g[f] = disk.las.header[f]
    BY <2>1, <2>2 DEF IsHeader
  <2>4. /\ DOMAIN disk' = {"las", "lax"}
        /\ disk'.las \in {disk.las, [disk.las EXCEPT !.header = g]}
    BY DEF CloseWriter, g
  <2>5. CASE disk'.las = disk.las
    BY <2>1, <2>4, <2>5 DEF SameFile
  <2>6. CASE disk'.las = [disk.las EXCEPT !.header = g]
    <3>1. /\ DOMAIN disk'.las = DOMAIN disk.las /\ disk'.las.header = g
          /\ \A f \in {"starts_at", "compressed", "items"} : disk'.las[f] = disk.las[f]
      BY <2>1, <2>6
    <3>2. disk'.las # None
      BY <2>1, <3>1 DEF None
    <3>. QED BY <2>1, <2>3, <2>4, <3>1, <3>2 DEF SameFile
  <2>. QED BY <2>4, <2>5, <2>6
<1>. QED BY <1>1, <1>2, <1>3, OpenedStays

\* The reader is this object or a new one, which has a header of its own.
LEMMA BetweenFilesStep ==
  ASSUME IInv, NEW clean, NEW compat \in BOOLEAN, NEW exploit, BetweenFiles(clean, compat, exploit)
  PROVE  IInv'
<1> DEFINE c == IF clean THEN NewDll ELSE dll
<1>1. /\ phase = "file" /\ phase' = "reopen" /\ UNCHANGED <<disk, job, lost, before>>
      /\ lost = 0 /\ IsDll(dll) /\ Slack(dll.header) = 0 /\ job \in Jobs
  BY DEF BetweenFiles, IInv, HeaderInv, Opened
<1>2. IsDll(c) /\ Slack(c.header) = 0
  BY <1>1, NewDllIsDll
<1>3. dll' = ExploitSpatialIndex(RequestCompatibilityMode(c, compat), exploit)
  BY DEF BetweenFiles
<1> HIDE DEF c
<1>4. /\ DOMAIN dll' = DllFields /\ dll'.header = c.header /\ dll'.attributes = c.attributes
      /\ dll'.compat = compat /\ dll'.native = (c.native /\ ~compat)
  BY <1>2, <1>3 DEF ExploitSpatialIndex, RequestCompatibilityMode, IsDll, DllFields
<1>5. IsDll(dll')
  BY <1>2, <1>4 DEF IsDll
<1>6. HeaderInv'
  BY <1>1, <1>2, <1>4, <1>5 DEF HeaderInv, Opened
<1>7. FileInv'
  BY <1>1, FileStays DEF Opened
<1>. QED BY <1>6, <1>7 DEF IInv

\* laszip_open_reader() takes the header from the file.
LEMMA OpenReaderStep == ASSUME IInv, OpenReader PROVE IInv'
<1>1. /\ phase = "reopen" /\ phase' \in {"refused", "read"}
      /\ UNCHANGED <<disk, job, lost, before>>
      /\ lost = 0 /\ IsDll(dll) /\ job \in Jobs
      /\ IsHeader(disk.las.header) /\ CompatibilityHasExtraBytes(disk.las.header)
  BY DEF OpenReader, IInv, HeaderInv, FileInv, Opened
<1>2. PICK h, items :
        /\ h = HeaderOf(dll, disk.las)
        /\ \/ dll' = Refused([dll EXCEPT !.header = h])
           \/ dll' = WithReader(WithHeader(SetupItems(Accepted(dll), items), h, StartsIn(dll, h)),
                                items, disk.lax)
  BY DEF OpenReader
<1>3. IsHeader(h) /\ Slack(h) = 0 /\ CompatibilityHasExtraBytes(h)
  BY <1>1, <1>2, HeaderThatIsRead
<1>4. IsDll(dll') /\ Slack(dll'.header) = 0
  <2>1. CASE dll' = Refused([dll EXCEPT !.header = h])
    <3>1. /\ DOMAIN dll' = DllFields /\ dll'.header = h /\ dll'.attributes = dll.attributes
          /\ dll'.native = dll.native /\ dll'.compat = dll.compat
      BY <1>1, <2>1 DEF Refused, IsDll, DllFields
    <3>. QED BY <1>1, <1>3, <3>1 DEF IsDll
  <2>2. CASE dll' = WithReader(WithHeader(SetupItems(Accepted(dll), items), h, StartsIn(dll, h)),
                               items, disk.lax)
    <3> DEFINE c == SetupItems(Accepted(dll), items)
               d == WithHeader(c, h, StartsIn(dll, h))
    <3>1. IsDll(c)
      <4>1. IsDll(Accepted(dll))
        BY <1>1, RemarksKeepHeader, SameDll DEF IsDll
      <4>. QED BY <4>1, RemarksKeepHeader, SameDll DEF IsDll
    <3> HIDE DEF c
    <3>2. IsDll(d) /\ Slack(d.header) = Slack(h)
      BY <1>3, <3>1, WithHeaderKeepsSlack
    <3>3. dll' = WithReader(d, items, disk.lax)
      BY <2>2 DEF c
    <3> HIDE DEF d
    <3>4. /\ DOMAIN dll' = DllFields
          /\ \A f \in {"header", "attributes", "native", "compat"} : dll'[f] = d[f]
      BY <3>2, <3>3 DEF WithReader, IsDll, DllFields
    <3>. QED BY <1>3, <3>2, <3>4 DEF IsDll
  <2>. QED BY <1>2, <2>1, <2>2
<1>5. HeaderInv'
  BY <1>1, <1>4 DEF HeaderInv, Opened
<1>6. FileInv'
  BY <1>1, FileStays DEF Opened
<1>. QED BY <1>5, <1>6 DEF IInv

Reading ==
  \/ ReadPoint \/ ReadInsidePoint \/ StopReadingInside \/ CloseReader
  \/ \E target \in job.targets : SeekPoint(target)
  \/ \E r \in job.rectangles : InsideRectangle(r)

\* What is done with points that are read leaves header and file as they are.
LEMMA ReadingKeepsHeader ==
  ASSUME IInv, Reading
  PROVE  /\ KeepsHeader(dll', dll) /\ phase \in {"read", "inside"}
         /\ phase' \in {"read", "inside", "closed"}
         /\ UNCHANGED <<disk, job, lost, before, given, counted>>
<1>1. /\ DOMAIN dll = DllFields /\ phase \in {"read", "inside"}
      /\ phase' \in {"read", "inside", "closed"}
      /\ UNCHANGED <<disk, job, lost, before, given, counted>>
  BY DEF Reading, ReadPoint, ReadInsidePoint, ReadIndexed, ReadOn, NoMorePoints,
         StopReadingInside, CloseReader, SeekPoint, InsideRectangle, IInv, HeaderInv, IsDll
<1>2. SUFFICES KeepsHeader(dll', dll)
  BY <1>1
<1>3. ASSUME NEW d, KeepsHeader(d, dll), NEW e, KeepsHeader(e, d)
      PROVE  KeepsHeader(e, dll)
  BY <1>3 DEF KeepsHeader
<1>4. CASE ReadPoint
  <2>1. CASE dll' = WithExtended(NextRead(dll))
    <3>1. KeepsHeader(NextRead(dll), dll)
      BY <1>1, PointsKeepHeader
    <3>2. DOMAIN NextRead(dll) = DllFields
      BY <1>1, <3>1 DEF KeepsHeader
    <3>. QED BY <1>3, <2>1, <3>1, <3>2, PointsKeepHeader
  <2>2. CASE dll' = Refused(dll) \/ \E place \in Strange : dll' = PastTheEnd(dll, place)
    BY <1>1, <2>2, RemarksKeepHeader, PointsKeepHeader
  <2>. QED BY <1>4, <2>1, <2>2 DEF ReadPoint
<1>5. CASE ReadInsidePoint
  <2>1. CASE ReadIndexed
    <3>1. PICK d : d = Sought(dll) /\ dll' = IF AtPoint(d) THEN NextRead(d) ELSE d
      BY <2>1 DEF ReadIndexed
    <3>2. KeepsHeader(d, dll)
      <4>1. CASE dll.lax.at.have
        BY <1>1, <3>1, <4>1 DEF Sought, KeepsHeader, DllFields
      <4>2. CASE ~dll.lax.at.have
        <5> DEFINE next == TakeNext(dll.lax)
                   s == SeekTo(dll, next.at.start)
        <5>1. d = [s EXCEPT !.lax = LeaveAt(next, next.at.start)]
          BY <3>1, <4>2 DEF Sought
        <5>2. KeepsHeader(s, dll)
          BY <1>1, PointsKeepHeader
        <5> HIDE DEF s, next
        <5>3. KeepsHeader(d, s)
          BY <1>1, <5>1, <5>2 DEF KeepsHeader, DllFields
        <5>. QED BY <1>3, <5>2, <5>3
      <4>. QED BY <4>1, <4>2
    <3>3. DOMAIN d = DllFields
      BY <1>1, <3>2 DEF KeepsHeader
    <3>. QED BY <1>3, <3>1, <3>2, <3>3, PointsKeepHeader
  <2>2. CASE ReadOn
    <3>1. dll' = NextRead(dll) \/ \E place \in Strange : dll' = PastTheEnd(dll, place)
      BY <2>2 DEF ReadOn, NextReads
    <3>. QED BY <1>1, <3>1, PointsKeepHeader
  <2>3. CASE NoMorePoints
    BY <1>1, <2>3 DEF NoMorePoints, KeepsHeader, DllFields
  <2>. QED BY <1>5, <2>1, <2>2, <2>3 DEF ReadInsidePoint
<1>6. CASE StopReadingInside
  BY <1>6 DEF StopReadingInside, KeepsHeader
<1>7. CASE CloseReader
  BY <1>1, <1>7 DEF CloseReader, KeepsHeader, DllFields
<1>8. CASE \E target \in job.targets : SeekPoint(target)
  <2>1. PICK target \in job.targets : dll' = Accepted(SeekTo(dll, target))
    BY <1>8 DEF SeekPoint
  <2>2. KeepsHeader(SeekTo(dll, target), dll)
    BY <1>1, PointsKeepHeader
  <2>3. DOMAIN SeekTo(dll, target) = DllFields
    BY <1>1, <2>2 DEF KeepsHeader
  <2>. QED BY <1>3, <2>1, <2>2, <2>3, RemarksKeepHeader
<1>9. CASE \E r \in job.rectangles : InsideRectangle(r)
  BY <1>1, <1>9 DEF InsideRectangle, KeepsHeader, DllFields
<1>. QED BY <1>4, <1>5, <1>6, <1>7, <1>8, <1>9 DEF Reading

\* So it keeps the invariant.
LEMMA ReadingSteps == ASSUME IInv, Reading PROVE IInv'
<1>1. /\ DOMAIN dll = DllFields /\ phase \in Opened /\ phase' \in Opened
  BY ReadingKeepsHeader DEF IInv, HeaderInv, IsDll, Opened
<1>. QED BY <1>1, ReadingKeepsHeader, OpenedStays

\* Every step keeps the invariant.
LEMMA NextIInv == ASSUME IInv, [Next]_vars PROVE IInv'
<1>1. CASE Start
  BY <1>1, StartStep
<1>2. CASE WriteNext
  BY <1>2, WriteNextStep
<1>3. CASE UpdateInventory
  BY <1>3, UpdateInventoryStep
<1>4. CASE CloseWriter
  BY <1>4, CloseWriterStep
<1>5. CASE \E call \in job.calls : Call(call)
  BY <1>5, CallStep
<1>6. CASE \E compress \in BOOLEAN : OpenWriter(compress)
  BY <1>6, OpenWriterStep
<1>7. CASE \E clean, compat \in BOOLEAN, exploit \in {FALSE, job.rectangles # {}} :
             BetweenFiles(clean, compat, exploit)
  BY <1>7, BetweenFilesStep
<1>8. CASE OpenReader
  BY <1>8, OpenReaderStep
<1>9. CASE Reading
  BY <1>9, ReadingSteps
<1>10. CASE UNCHANGED vars
  BY <1>10 DEF vars, IInv, HeaderInv, FileInv, FileDescribesItself
<1>. QED BY <1>1, <1>2, <1>3, <1>4, <1>5, <1>6, <1>7, <1>8, <1>9, <1>10 DEF Next, Stopped, Reading

-----------------------------------------------------------------------------
(* What else the calls before laszip_write_point() leave alone *)

\* What laszip_open_writer() does not change: all but header, point and mode.
Untouched == {"native", "compat", "lax_create", "lax_exploit", "writer", "reader", "inventory",
              "lax", "npoints", "p_count"}
Leaves(e, d) == DOMAIN e = DllFields /\ \A f \in Untouched : e[f] = d[f]

\* Calls before laszip_open_writer() are about the header and the requests.
LEMMA CalledIsAboutHeader ==
  ASSUME NEW d, IsDll(d), NEW call, IsCall(call)
  PROVE  LET e == Called(d, call) IN
         /\ DOMAIN e = DllFields
         /\ \A f \in DllFields \ {"header", "attributes", "native", "compat", "error"} :
              e[f] = d[f]
         /\ e.header.format = d.header.format /\ e.header.minor = d.header.minor
<1> DEFINE Good(e) ==
      /\ DOMAIN e = DllFields
      /\ \A f \in DllFields \ {"header", "attributes", "native", "compat", "error"} : e[f] = d[f]
      /\ e.header.format = d.header.format /\ e.header.minor = d.header.minor
<1>1. DOMAIN d = DllFields /\ IsHeader(d.header) /\ DOMAIN d.header = HeaderFields
  BY DEF IsDll, IsHeader
<1>2. \A id, length, data :
        /\ WithVlr(d.header, id, length, data).format = d.header.format
        /\ WithVlr(d.header, id, length, data).minor = d.header.minor
  BY <1>1 DEF WithVlr, HeaderFields
<1>3. \A id : /\ WithoutVlr(d.header, id).format = d.header.format
              /\ WithoutVlr(d.header, id).minor = d.header.minor
  BY <1>1 DEF WithoutVlr, HeaderFields
<1>4. ASSUME NEW h, h.format = d.header.format, h.minor = d.header.minor
      PROVE  Good([d EXCEPT !.header = h])
  BY <1>1, <1>4 DEF DllFields
<1>5. CASE call.name = "laszip_add_attribute"
  <2> DEFINE all == Append(d.attributes, call.attribute)
             h == WithAttributes(d.header, all)
  <2>1. Called(d, call) = [d EXCEPT !.attributes = all, !.header = h]
    BY <1>5 DEF Called, AddAttribute
  <2>2. h.format = d.header.format /\ h.minor = d.header.minor
    BY <1>2 DEF WithAttributes
  <2> HIDE DEF all, h
  <2>. QED BY <1>1, <2>1, <2>2 DEF DllFields
<1>6. CASE call.name = "laszip_set_point_type_and_size"
  <2>1. Called(d, call) = [d EXCEPT !.header.format = d.header.format,
                                    !.header.length = d.header.length + call.more]
    BY <1>6 DEF Called, SetPointTypeAndSize
  <2> DEFINE h == [d.header EXCEPT !.format = d.header.format,
                                   !.length = d.header.length + call.more]
  <2>2. h.format = d.header.format /\ h.minor = d.header.minor
    BY <1>1 DEF HeaderFields
  <2>3. Called(d, call) = [d EXCEPT !.header = h]
    BY <1>1, <2>1 DEF DllFields
  <2> HIDE DEF h
  <2>. QED BY <1>4, <2>2, <2>3
<1>7. CASE call.name \in {"laszip_set_geokeys", "laszip_set_geodouble_params",
                          "laszip_set_geoascii_params", "laszip_add_vlr"}
  <2>1. \E id, length, data : Called(d, call) = [d EXCEPT !.header = WithVlr(@, id, length, data)]
    <3>1. CASE call.name = "laszip_set_geokeys"
      BY <3>1 DEF Called, SetGeokeys
    <3>2. CASE call.name = "laszip_set_geodouble_params"
      BY <3>2 DEF Called, SetGeodoubleParams
    <3>3. CASE call.name = "laszip_set_geoascii_params"
      BY <3>3 DEF Called, SetGeoasciiParams
    <3>4. CASE call.name = "laszip_add_vlr"
      BY <3>4 DEF Called, AddVlr
    <3>. QED BY <1>7, <3>1, <3>2, <3>3, <3>4
  <2>2. PICK id, length, data : Called(d, call) = [d EXCEPT !.header = WithVlr(@, id, length, data)]
    BY <2>1
  <2>. QED BY <1>2, <1>4, <2>2
<1>8. CASE call.name = "laszip_remove_vlr"
  <2>1. Called(d, call) = RemoveVlr(d, call.id)
    BY <1>8 DEF Called
  <2>2. CASE HasVlr(d.header, call.id)
    BY <1>3, <1>4, <2>1, <2>2 DEF RemoveVlr
  <2>3. CASE ~HasVlr(d.header, call.id)
    BY <1>1, <2>1, <2>3 DEF RemoveVlr, Refused, DllFields
  <2>. QED BY <2>2, <2>3
<1>9. CASE call.name \in {"laszip_request_native_extension", "laszip_request_compatibility_mode"}
  <2>1. Called(d, call) \in {RequestNativeExtension(d, call.request),
                             RequestCompatibilityMode(d, call.request)}
    BY <1>9 DEF Called
  <2>. QED BY <1>1, <2>1 DEF RequestNativeExtension, RequestCompatibilityMode, DllFields
<1>. QED BY <1>5, <1>6, <1>7, <1>8, <1>9 DEF IsCall

\* laszip_open_writer() keeps version and point type, without counters of an
\* old kind for points of the new kind; or it recodes new points as old ones.
LEMMA PreparedOrRecoded ==
  ASSUME NEW d, IsDll(d), NEW compress \in BOOLEAN, ~HasVlr(d.header, CompatibilityVLR)
  PROVE  LET e == PreparedDll(d, compress) IN
         ~e.error =>
           /\ Leaves(e, d)
           /\ \/ /\ e.header = WithOldCounters(d.header)
                 /\ e.compatibility_mode \in {FALSE, d.compatibility_mode}
                 /\ d.header.format > 5 => ~d.compat
              \/ /\ d.header.format > 5 /\ d.compat
                 /\ e.header.format <= 5 /\ e.compatibility_mode = TRUE
<1> DEFINE e == PreparedDll(d, compress)
           c == [d EXCEPT !.header = WithOldCounters(@)]
           p == NewPoint14(c)
           Same(x) == /\ Leaves(x, d) /\ x.header = WithOldCounters(d.header)
                      /\ x.compatibility_mode \in {FALSE, d.compatibility_mode}
<1>1. /\ DOMAIN d = DllFields /\ d.header.format \in 0..10
      /\ d.native \in BOOLEAN /\ d.compat \in BOOLEAN /\ ~(d.native /\ d.compat)
  BY DEF IsDll, IsHeader
<1>2. /\ DOMAIN c = DllFields /\ c.header = WithOldCounters(d.header)
      /\ \A f \in DllFields \ {"header"} : c[f] = d[f]
  BY <1>1 DEF DllFields
<1>3. IsDll(c) /\ c.header.format = d.header.format
  BY OldCountersAreApart
<1> HIDE DEF c
<1>4. Same(OldPoint(c)) /\ Same(p) /\ Same([p EXCEPT !.compatibility_mode = FALSE])
  BY <1>1, <1>2 DEF OldPoint, NewPoint14, Leaves, Untouched, DllFields
<1>5. DOMAIN p = DllFields /\ p.native = d.native /\ p.compat = d.compat /\ p.header = c.header
  BY <1>1, <1>2 DEF NewPoint14, DllFields
<1>6. IsDll(p)
  BY <1>3, <1>5, <1>2 DEF IsDll, NewPoint14, DllFields
<1>7. \A x : DOMAIN x = DllFields => Refused(x).error = TRUE
  BY DEF Refused, DllFields
<1> SUFFICES ASSUME ~e.error
             PROVE  \/ Same(e) /\ (d.header.format > 5 => ~d.compat)
                    \/ /\ Leaves(e, d) /\ d.header.format > 5 /\ d.compat
                       /\ e.header.format <= 5 /\ e.compatibility_mode = TRUE
  OBVIOUS
<1>8. e = PreparePoint(c, compress)
  <2>1. CanSetup(d, compress)
    BY <1>1, <1>7 DEF PreparedDll
  <2>2. CountersAgree(d.header)
    BY <1>2, <1>7, <2>1 DEF PreparedDll, c
  <2>. QED BY <2>1, <2>2 DEF PreparedDll, c
<1> HIDE DEF e, Same
<1>9. CASE d.header.format <= 5
  <2>1. e = OldPoint(c)
    BY <1>1, <1>3, <1>8, <1>9 DEF PreparePoint
  <2>. QED BY <1>1, <1>4, <1>9, <2>1
<1>10. CASE d.header.format > 5 /\ d.native
  <2>1. e = [p EXCEPT !.compatibility_mode = FALSE] /\ ~d.compat
    <3>1. ~(c.header.format <= 5) /\ c.header.format > 5 /\ c.native /\ ~c.compat
      BY <1>1, <1>2, <1>3, <1>10 DEF DllFields
    <3>2. PreparePoint(c, compress) = [NewPoint14(c) EXCEPT !.compatibility_mode = FALSE]
      BY <3>1 DEF PreparePoint
    <3>. QED BY <1>1, <1>8, <1>10, <3>2
  <2> HIDE DEF p
  <2>. QED BY <1>4, <2>1
<1>11. CASE d.header.format > 5 /\ ~d.native /\ ~d.compat
  <2>1. e \in {p, Refused(p)}
    <3>1. ~(c.header.format <= 5) /\ ~c.native /\ ~c.compat
      BY <1>1, <1>2, <1>3, <1>11 DEF DllFields
    <3>. QED BY <1>8, <3>1 DEF PreparePoint
  <2>2. e = p
    BY <1>5, <1>7, <2>1
  <2> HIDE DEF p
  <2>. QED BY <1>4, <1>11, <2>2
<1>12. CASE d.header.format > 5 /\ ~d.native /\ d.compat
  <2>1. e = PrepareCompatible(p)
    <3>1. ~(c.header.format <= 5) /\ c.header.format > 5 /\ ~c.native /\ c.compat
      BY <1>1, <1>2, <1>3, <1>12 DEF DllFields
    <3>. QED BY <1>8, <3>1 DEF PreparePoint
  <2>2. p.header.format \in 6..10
    BY <1>1, <1>3, <1>5, <1>12
  <2>3. ~PrepareCompatible(p).error => PrepareCompatible(p).header.format = OldFormat(p.header.format)
    BY <1>6, <2>2, CompatibleKeepsSlack
  <2>4. e.header.format \in 1..5
    BY <2>1, <2>2, <2>3, OldFormats
  <2> DEFINE s == [p EXCEPT !.header = Downgraded(@)]
             existing == ExtraBytes(p.header.format, p.header.length)
  <2>5. ~(existing < 0)
    <3>1. DOMAIN [p EXCEPT !.header = WithCounters32(@)] = DllFields
      BY <1>5
    <3>. QED BY <1>7, <2>1, <3>1 DEF PrepareCompatible
  <2>6. e = Recoded(s, existing)
    BY <2>1, <2>5 DEF PrepareCompatible
  <2>7. DOMAIN s = DllFields /\ \A f \in DllFields \ {"header"} : s[f] = p[f]
    BY <1>5 DEF DllFields
  <2> HIDE DEF s, existing
  <2>8. PICK attributes : e = WithOldPoints(s, attributes)
    BY <1>7, <2>6, <2>7 DEF Recoded
  <2>9. Leaves(e, s) /\ e.compatibility_mode = TRUE
    BY <2>7, <2>8 DEF WithOldPoints, Leaves, Untouched, DllFields
  <2>10. Leaves(p, d)
    BY <1>4 DEF Same
  <2>11. Leaves(e, d)
    BY <2>7, <2>9, <2>10 DEF Leaves, Untouched, DllFields
  <2>. QED BY <1>12, <2>4, <2>9, <2>11
<1>13. d.header.format <= 5 \/ d.header.format > 5
  BY <1>1
<1>. QED BY <1>9, <1>10, <1>11, <1>12, <1>13

-----------------------------------------------------------------------------
(* Counting points *)

\* What is used of a point.
PointFields == DOMAIN NewPoint
IsPoint(p) == DOMAIN p = PointFields /\ p.x \in Int /\ ReturnOf(p) \in 0..15
ArePoints(s) == \E S : s \in Seq(S) /\ \A p \in S : IsPoint(p)

\* How many of the first n points have return number r.
Counts(s, n, r) == Cardinality({i \in 1..n : ReturnOf(s[i]) = r})

\* The first n points lie between lo and hi and touch both.
IsExtent(lo, hi, s, n) ==
  /\ \A i \in 1..n : lo <= s[i].x /\ s[i].x <= hi
  /\ \E i, j \in 1..n : s[i].x = lo /\ s[j].x = hi

\* Inventory t is that of the first n points of s, but for the returns, which
\* are those of the old fields when the points are recoded.
IsTally(t, s, n, recoded) ==
  /\ DOMAIN t = DOMAIN NewInventory /\ t.count = n
  /\ t.by \in [0..15 -> Nat]
  /\ ~recoded => \A r \in 0..15 : t.by[r] = Counts(s, n, r)
  /\ IsExtent(t.box.min_x, t.box.max_x, s, n)

\* An inventory that there is.
LEMMA TallyIsThere ==
  ASSUME NEW t, NEW s, NEW n, NEW recoded, IsTally(t, s, n, recoded) PROVE t # None
<1>1. DOMAIN None = {"none"} /\ "none" \notin DOMAIN NewInventory
  BY DEF None, NewInventory
<1>. QED BY <1>1 DEF IsTally

\* The smaller and the larger of two.
LEMMA MinMaxOfTwo ==
  ASSUME NEW a \in Int, NEW b \in Int
  PROVE  /\ Min({a, b}) = IF a <= b THEN a ELSE b
         /\ Max({a, b}) = IF a <= b THEN b ELSE a
<1>1. \A m, n \in {a, b} :
        (\A k \in {a, b} : m <= k) /\ (\A k \in {a, b} : n <= k) => m = n
  OBVIOUS
<1>2. \A m, n \in {a, b} :
        (\A k \in {a, b} : m >= k) /\ (\A k \in {a, b} : n >= k) => m = n
  OBVIOUS
<1>3. Min({a, b}) = IF a <= b THEN a ELSE b
  <2> DEFINE m == IF a <= b THEN a ELSE b
  <2>1. m \in {a, b} /\ \A k \in {a, b} : m <= k
    OBVIOUS
  <2> HIDE DEF m
  <2>. QED BY <1>1, <2>1 DEF Min
<1>4. Max({a, b}) = IF a <= b THEN b ELSE a
  <2> DEFINE m == IF a <= b THEN b ELSE a
  <2>1. m \in {a, b} /\ \A k \in {a, b} : m >= k
    OBVIOUS
  <2> HIDE DEF m
  <2>. QED BY <1>2, <2>1 DEF Max
<1>. QED BY <1>3, <1>4

\* One point more counts for its return, and for no other.
LEMMA OneMoreCounted ==
  ASSUME NEW s, NEW n \in Nat, NEW r
  PROVE  /\ Counts(s, 0, r) = 0
         /\ Counts(s, n, r) \in Nat
         /\ Counts(s, n + 1, r) = Counts(s, n, r) + (IF ReturnOf(s[n + 1]) = r THEN 1 ELSE 0)
<1> DEFINE Those(m) == {i \in 1..m : ReturnOf(s[i]) = r}
<1>1. ASSUME NEW m \in Nat PROVE IsFiniteSet(Those(m)) /\ Cardinality(Those(m)) \in Nat
  <2>1. IsFiniteSet(1..m)
    BY FS_Interval
  <2>2. Those(m) \subseteq 1..m
    OBVIOUS
  <2> HIDE DEF Those
  <2>3. IsFiniteSet(Those(m))
    BY <2>1, <2>2, FS_Subset
  <2>. QED BY <2>3, FS_CardinalityType
<1>2. Those(0) = {}
  OBVIOUS
<1>3. Those(n + 1) = IF ReturnOf(s[n + 1]) = r THEN Those(n) \cup {n + 1} ELSE Those(n)
  OBVIOUS
<1>4. n + 1 \notin Those(n)
  OBVIOUS
<1>5. \A m : Counts(s, m, r) = Cardinality(Those(m))
  BY DEF Counts
<1> HIDE DEF Those
<1>6. Counts(s, 0, r) = 0
  BY <1>2, <1>5, FS_EmptySet
<1>7. CASE ReturnOf(s[n + 1]) = r
  <2>1. Cardinality(Those(n) \cup {n + 1}) = Cardinality(Those(n)) + 1
    BY <1>1, <1>4, FS_AddElement
  <2>. QED BY <1>1, <1>3, <1>5, <1>6, <1>7, <2>1
<1>8. CASE ReturnOf(s[n + 1]) # r
  BY <1>1, <1>3, <1>5, <1>6, <1>8
<1>. QED BY <1>7, <1>8

\* laszip_update_inventory() makes the tally of n points that of n + 1.
LEMMA OneMoreTallied ==
  ASSUME NEW s, ArePoints(s), NEW n \in Nat, n < Len(s), NEW recoded \in BOOLEAN,
         NEW i, IF n = 0 THEN i = NewInventory ELSE IsTally(i, s, n, recoded),
         NEW p, p.x = s[n + 1].x, ~recoded => ReturnOf(p) = ReturnOf(s[n + 1])
  PROVE  IsTally(AddToInventory(i, p), s, n + 1, recoded)
<1> DEFINE t == AddToInventory(i, p)
           r == ReturnOf(p)
<1>1. PICK S : s \in Seq(S) /\ \A q \in S : IsPoint(q)
  BY DEF ArePoints
<1>2. \A k \in 1..n + 1 : IsPoint(s[k]) /\ s[k].x \in Int
  <2>1. \A k \in 1..n + 1 : s[k] \in S
    BY <1>1
  <2>. QED BY <1>1, <2>1 DEF IsPoint
<1>3. i.count = n /\ i.by \in [0..15 -> Nat]
  BY DEF NewInventory, IsTally
<1>4. /\ DOMAIN t = DOMAIN NewInventory
      /\ t.count = n + 1 /\ t.by = [i.by EXCEPT ![r] = @ + 1]
      /\ t.box.min_x = IF n = 0 THEN p.x ELSE Min({i.box.min_x, p.x})
      /\ t.box.max_x = IF n = 0 THEN p.x ELSE Max({i.box.max_x, p.x})
  BY <1>3 DEF AddToInventory, Grown, ReturnOf, NewInventory
<1> HIDE DEF t, r
<1>5. /\ t.by \in [0..15 -> Nat]
      /\ \A q \in 0..15 : t.by[q] = i.by[q] + (IF r = q THEN 1 ELSE 0)
  <2> DEFINE by == i.by
             new == t.by
  <2>1. by \in [0..15 -> Nat] /\ new = [by EXCEPT ![r] = by[r] + 1]
    BY <1>3, <1>4
  <2> HIDE DEF by, new
  <2>2. /\ new \in [0..15 -> Nat]
        /\ \A q \in 0..15 : new[q] = by[q] + (IF r = q THEN 1 ELSE 0)
    <3>1. \A q \in 0..15 : by[q] \in Nat
      BY <2>1
    <3>2. DOMAIN new = 0..15 /\ new = [q \in 0..15 |-> new[q]]
      BY <2>1
    <3>3. \A q \in 0..15 : new[q] = IF q = r THEN by[q] + 1 ELSE by[q]
      BY <2>1
    <3>4. ASSUME NEW q \in 0..15
          PROVE  new[q] = by[q] + (IF r = q THEN 1 ELSE 0) /\ new[q] \in Nat
      <4>1. by[q] \in Nat
        BY <3>1
      <4>2. new[q] = IF q = r THEN by[q] + 1 ELSE by[q]
        BY <3>3
      <4>. QED BY <4>1, <4>2
    <3>. QED BY <3>2, <3>4
  <2>. QED BY <2>2 DEF by, new
<1>6. ASSUME ~recoded, NEW q \in 0..15 PROVE t.by[q] = Counts(s, n + 1, q)
  <2>1. r = ReturnOf(s[n + 1])
    BY <1>6 DEF r
  <2>2. i.by[q] = Counts(s, n, q)
    <3>1. CASE n = 0
      <4>1. i.by[q] = 0
        BY <1>6, <3>1 DEF NewInventory
      <4>2. Counts(s, 0, q) = 0
        BY OneMoreCounted
      <4>. QED BY <3>1, <4>1, <4>2
    <3>2. CASE n # 0
      BY <1>6, <3>2 DEF IsTally
    <3>. QED BY <3>1, <3>2
  <2>3. t.by[q] = i.by[q] + (IF r = q THEN 1 ELSE 0)
    BY <1>5, <1>6
  <2>. QED BY <2>1, <2>2, <2>3, OneMoreCounted
<1>7. IsExtent(t.box.min_x, t.box.max_x, s, n + 1)
  <2> DEFINE x(k) == s[k].x
  <2>1. \A k \in 1..n + 1 : x(k) \in Int
    BY <1>2
  <2>2. p.x = x(n + 1)
    OBVIOUS
  <2>3. CASE n = 0
    <3>1. t.box.min_x = x(1) /\ t.box.max_x = x(1) /\ 1..n + 1 = {1}
      BY <1>4, <2>2, <2>3
    <3>. QED BY <2>1, <2>3, <3>1 DEF IsExtent
  <2>4. CASE n # 0
    <3> DEFINE lo == i.box.min_x
               hi == i.box.max_x
    <3>1. /\ \A k \in 1..n : lo <= x(k) /\ x(k) <= hi
          /\ \E k, j \in 1..n : x(k) = lo /\ x(j) = hi
      BY <2>4 DEF IsTally, IsExtent
    <3>2. lo \in Int /\ hi \in Int
      BY <2>1, <3>1
    <3>3. /\ t.box.min_x = IF lo <= x(n + 1) THEN lo ELSE x(n + 1)
          /\ t.box.max_x = IF hi <= x(n + 1) THEN x(n + 1) ELSE hi
      <4>1. /\ t.box.min_x = Min({lo, x(n + 1)}) /\ t.box.max_x = Max({hi, x(n + 1)})
            /\ x(n + 1) \in Int
        BY <1>4, <2>1, <2>2, <2>4
      <4> HIDE DEF lo, hi, x
      <4>. QED BY <3>2, <4>1, MinMaxOfTwo
    <3> HIDE DEF x, lo, hi
    <3>4. PICK a, b \in 1..n : x(a) = lo /\ x(b) = hi
      BY <3>1
    <3>5. lo <= hi
      BY <3>1, <3>2, <3>4
    <3>6. ASSUME NEW k \in 1..n + 1 PROVE t.box.min_x <= x(k) /\ x(k) <= t.box.max_x
      <4>1. CASE k \in 1..n
        <5>1. lo <= x(k) /\ x(k) <= hi /\ x(k) \in Int /\ x(n + 1) \in Int
          BY <2>1, <3>1, <4>1
        <5>. QED BY <3>2, <3>3, <5>1
      <4>2. CASE k = n + 1
        BY <2>1, <3>2, <3>3, <4>2
      <4>. QED BY <4>1, <4>2
    <3>7. \E k, j \in 1..n + 1 : x(k) = t.box.min_x /\ x(j) = t.box.max_x
      <4> DEFINE k == IF lo <= x(n + 1) THEN a ELSE n + 1
                 j == IF hi <= x(n + 1) THEN n + 1 ELSE b
      <4>1. k \in 1..n + 1 /\ j \in 1..n + 1 /\ x(k) = t.box.min_x /\ x(j) = t.box.max_x
        BY <3>3, <3>4
      <4>. QED BY <4>1
    <3>. QED BY <3>6, <3>7 DEF IsExtent, x
  <2>. QED BY <2>3, <2>4
<1>. QED BY <1>4, <1>5, <1>6, <1>7 DEF IsTally, t

\* What was counted of the first points stays when another one is put behind.
LEMMA TallyStays ==
  ASSUME NEW s, ArePoints(s), NEW p, IsPoint(p), NEW n \in 0..Len(s), NEW recoded, NEW t,
         IsTally(t, s, n, recoded)
  PROVE  IsTally(t, Append(s, p), n, recoded)
<1>1. PICK S : s \in Seq(S)
  BY DEF ArePoints
<1>2. \A k \in 1..n : Append(s, p)[k] = s[k]
  BY <1>1
<1>3. \A r : {k \in 1..n : ReturnOf(Append(s, p)[k]) = r} = {k \in 1..n : ReturnOf(s[k]) = r}
  BY <1>2
<1> DEFINE more == Append(s, p)
<1>4. \A r : Counts(more, n, r) = Counts(s, n, r)
  BY <1>3 DEF Counts
<1>5. \A lo, hi : IsExtent(lo, hi, s, n) => IsExtent(lo, hi, more, n)
  BY <1>2 DEF IsExtent
<1> HIDE DEF more
<1>6. IsTally(t, more, n, recoded)
  BY <1>4, <1>5 DEF IsTally
<1>. QED BY <1>6 DEF more

\* A point more makes a list of points again.
LEMMA OneMorePoint ==
  ASSUME NEW s, ArePoints(s), NEW p, IsPoint(p)
  PROVE  /\ ArePoints(Append(s, p)) /\ Len(s) \in Nat /\ Len(Append(s, p)) = Len(s) + 1
         /\ Append(s, p)[Len(s) + 1] = p
<1>1. PICK S : s \in Seq(S) /\ \A q \in S : IsPoint(q)
  BY DEF ArePoints
<1>2. Append(s, p) \in Seq(S \cup {p}) /\ \A q \in S \cup {p} : IsPoint(q)
  BY <1>1
<1>. QED BY <1>1, <1>2 DEF ArePoints

-----------------------------------------------------------------------------
(* The counters of a header *)

\* A VLR that is added, replaced or removed, and the LASzip VLR that is taken
\* out when a header is read, leave all but these fields alone.
VlrFields == {"vlrs", "offset", "in_header", "after"}

\* Reading a header back puts VLRs out and leaves its other fields alone.
LEMMA ReadBackIsAboutVlrs ==
  ASSUME NEW h, IsHeader(h)
  PROVE  \A f \in HeaderFields \ VlrFields : ReadBack(h)[f] = h[f]
<1> DEFINE g == IF HasVlr(h, LASzipVLR) THEN WithoutVlr(h, LASzipVLR) ELSE h
<1>1. DOMAIN g = HeaderFields /\ \A f \in HeaderFields \ VlrFields : g[f] = h[f]
  BY DEF WithoutVlr, IsHeader, HeaderFields, VlrFields
<1>2. ReadBack(h) = [g EXCEPT !.in_header = g.size - FixedSize(g.minor),
                              !.after = g.offset - VlrBytes(g.vlrs) - g.size]
  BY DEF ReadBack
<1> HIDE DEF g
<1>. QED BY <1>1, <1>2 DEF HeaderFields, VlrFields

\* The conversion of a header back from compatibility mode keeps the counters
\* of the old kind and the box.
LEMMA UpgradedKeepsCounters ==
  ASSUME NEW h, IsHeader(h), NEW start
  PROVE  /\ Upgraded(h, start).count = h.count /\ Upgraded(h, start).by = h.by
         /\ Upgraded(h, start).box = h.box
<1> DEFINE Same(g) == DOMAIN g = HeaderFields /\ g.count = h.count /\ g.by = h.by /\ g.box = h.box
           a == WithoutVlr(h, CompatibilityVLR)
           attributes == WithoutOldPoints(Vlr(h, ExtraBytesVLR).data)
           b == WithTheRest(a, attributes)
           kept == Vlr(h, CompatibilityVLR).data
           c == Lengthened(b, kept.version, IF h.minor < 3 THEN 148 ELSE 140)
<1>1. ASSUME NEW g, Same(g) PROVE \A id : Same(WithoutVlr(g, id))
  BY <1>1 DEF WithoutVlr, HeaderFields
<1>2. ASSUME NEW g, Same(g) PROVE \A id, length, data : Same(WithVlr(g, id, length, data))
  BY <1>2 DEF WithVlr, HeaderFields
<1>3. ASSUME NEW g, Same(g) PROVE \A version, more : Same(Lengthened(g, version, more))
  BY <1>3 DEF Lengthened, HeaderFields
<1>4. Same(h)
  BY DEF IsHeader
<1> HIDE DEF Same
<1>5. Same(a)
  BY <1>1, <1>4
<1> HIDE DEF a, attributes
<1>6. Same(b)
  BY <1>1, <1>2, <1>5 DEF WithTheRest, WithAttributes
<1> HIDE DEF b
<1>7. Same(c)
  BY <1>3, <1>6
<1>8. Upgraded(h, start) = [c EXCEPT !.extended = kept.extended,
                 !.gps = IF kept.version = 4 THEN kept.gps ELSE @,
                 !.wkt = @ \/ HasVlr(b, WktVLR),
                 !.format = NewFormat(@, start.nir), !.length = @ + 2 - 5]
  BY DEF Upgraded, b, a, attributes
<1> HIDE DEF c, kept
<1>. QED BY <1>7, <1>8 DEF Same, HeaderFields

\* What the counters of a file's header, that of the points given, must say.
FileCounts(h) ==
  /\ IsExtent(h.box.min_x, h.box.max_x, given, Len(given))
  /\ IF h.format <= 5 THEN h.count = Len(given) ELSE h.count = 0 /\ h.minor >= 4
  /\ before.format <= 5 => h.format <= 5
  /\ ~IsRecoded =>
       /\ ~HasVlr(h, CompatibilityVLR)
       /\ h.format <= 5 => \A r \in 1..5 : h.by[r] = Counts(given, Len(given), r)
       /\ h.minor >= 4 =>
            /\ h.extended.count = Len(given)
            /\ \A r \in 1..15 : h.extended.by[r] = Counts(given, Len(given), r)

\* What laszip_open_reader() makes of it.
ReaderCounts ==
  /\ dll.npoints = Len(given)
  /\ IsExtent(dll.header.box.min_x, dll.header.box.max_x, given, Len(given))
  /\ before.format <= 5 => \A r \in 1..5 : dll.header.by[r] = Counts(given, Len(given), r)
  /\ dll.header.minor >= 4 /\ ~IsRecoded =>
       /\ dll.header.extended.count = Len(given)
       /\ \A r \in 1..15 : dll.header.extended.by[r] = Counts(given, Len(given), r)

\* The inventory has counted all points but the one that was written last.
InventoryInv ==
  /\ Len(given) <= counted + 1
  /\ IF counted = 0 THEN dll.inventory = None ELSE IsTally(dll.inventory, given, counted, IsRecoded)
  /\ counted < Len(given) =>
       /\ dll.point.x = given[counted + 1].x
       /\ ~IsRecoded => ReturnOf(dll.point) = ReturnOf(given[counted + 1])

\* The header in the file while points are written is the object's.
WriterInv ==
  LET h == disk.las.header IN
  /\ dll.header.format = h.format /\ dll.header.minor = h.minor
  /\ h.format > 5 => h.count = 0 /\ h.minor >= 4
  /\ before.format <= 5 => h.format <= 5
  /\ ~IsRecoded => ~dll.compatibility_mode /\ ~HasVlr(h, CompatibilityVLR)

\* From laszip_update_inventory() to laszip_open_reader().
CountInv ==
  /\ ArePoints(given) /\ counted \in 0..Len(given) /\ before.format \in 0..10
  /\ phase \in {"new", "header"} =>
       given = <<>> /\ counted = 0 /\ dll.inventory = None /\ dll.compatibility_mode = FALSE
  /\ phase = "header" /\ dll.header.format > 5 => dll.header.minor >= 4
  /\ phase = "write" => WriterInv /\ (job.inventory => InventoryInv)
  /\ job.inventory /\ given # <<>> =>
       /\ phase \in {"file", "reopen", "read", "inside", "closed"} => FileCounts(disk.las.header)
       /\ phase \in {"read", "inside"} => ReaderCounts

-----------------------------------------------------------------------------
(* The steps keep the counters *)

\* At first nothing was given.
LEMMA InitCounts == ASSUME Init PROVE CountInv
<1>1. <<>> \in Seq({}) /\ Len(<<>>) = 0
  OBVIOUS
<1>2. ArePoints(<<>>)
  <2> DEFINE S == {}
  <2>1. <<>> \in Seq(S) /\ \A p \in S : IsPoint(p)
    OBVIOUS
  <2> HIDE DEF S
  <2>. QED BY <2>1, Zenon DEF ArePoints
<1>. QED BY <1>1, <1>2 DEF Init, CountInv, NewDll, NewHeader

\* The caller sets its header.
LEMMA StartCounts == ASSUME IInv, CountInv, Start PROVE CountInv'
<1>1. /\ DOMAIN dll = DllFields /\ DOMAIN dll.header = HeaderFields /\ job \in Jobs
      /\ IsHeader(job.header)
  BY JobsAssumption DEF IInv, HeaderInv, IsDll, IsHeader
<1>2. dll'.inventory = dll.inventory /\ dll'.compatibility_mode = dll.compatibility_mode
  BY <1>1 DEF Start, CreateSpatialIndex, SetHeader, DllFields
<1>3. dll'.header.format = job.header.format /\ dll'.header.minor = job.header.minor
  BY <1>1 DEF Start, CreateSpatialIndex, SetHeader, DllFields, IsHeader, HeaderFields
<1>4. job.header.format > 5 => job.header.minor >= 4
  BY <1>1, JobsAssumption
<1>5. /\ phase = "new" /\ phase' = "header"
      /\ UNCHANGED <<disk, job, given, counted, before>>
  BY DEF Start
<1>. QED BY <1>2, <1>3, <1>4, <1>5 DEF CountInv

\* A call before the writer is open.
LEMMA CallCounts == ASSUME IInv, CountInv, NEW call \in job.calls, Call(call) PROVE CountInv'
<1> DEFINE a == Accepted(dll)
<1>1. /\ DOMAIN dll = DllFields /\ job \in Jobs /\ IsDll(dll)
  BY DEF IInv, HeaderInv, IsDll
<1>2. IsDll(a) /\ \A f \in DllFields \ {"error"} : a[f] = dll[f]
  BY <1>1, RemarksKeepHeader, SameDll DEF Accepted, DllFields
<1>3. IsCall(call) /\ dll' = Called(a, call)
  BY <1>1, JobsAssumption DEF Call
<1> HIDE DEF a
<1>4. /\ dll'.inventory = a.inventory /\ dll'.compatibility_mode = a.compatibility_mode
      /\ dll'.header.format = a.header.format /\ dll'.header.minor = a.header.minor
  BY <1>2, <1>3, CalledIsAboutHeader DEF DllFields
<1>5. /\ a.inventory = dll.inventory /\ a.compatibility_mode = dll.compatibility_mode
      /\ a.header = dll.header
  BY <1>2 DEF DllFields
<1>6. /\ phase = "header" /\ phase' = "header"
      /\ UNCHANGED <<disk, job, given, counted, before>>
  BY DEF Call
<1>. QED BY <1>4, <1>5, <1>6 DEF CountInv

\* laszip_open_writer() counts on nothing.
LEMMA OpenWriterCounts ==
  ASSUME IInv, CountInv, NEW compress \in BOOLEAN, OpenWriter(compress) PROVE CountInv'
<1>1. PICK items, d :
        /\ items = WriterItems(dll, compress)
        /\ d = PreparedDll(SetupItems(Accepted(dll), items), compress)
        /\ \/ phase' = "refused"
           \/ /\ ~d.error
              /\ dll' = WithWriter(d, items) /\ phase' = "write"
              /\ disk'.las = FileOf(WrittenHeader(d.header, items, compress), items, compress)
  BY DEF OpenWriter
<1>2. /\ phase = "header" /\ before' = dll.header /\ UNCHANGED <<job, given, counted>>
      /\ ~HasVlr(dll.header, CompatibilityVLR) /\ IsDll(dll) /\ DOMAIN dll = DllFields
  BY DEF OpenWriter, IInv, HeaderInv, IsDll
<1>3. /\ given = <<>> /\ counted = 0 /\ dll.inventory = None /\ dll.compatibility_mode = FALSE
      /\ dll.header.format > 5 => dll.header.minor >= 4
  BY <1>2 DEF CountInv
<1>4. ArePoints(given') /\ counted' \in 0..Len(given') /\ before'.format \in 0..10
  BY <1>2 DEF CountInv, IsDll, IsHeader
<1> DEFINE c == SetupItems(Accepted(dll), items)
<1>5. IsDll(c) /\ \A f \in DllFields \ {"error", "point"} : c[f] = dll[f]
  <2>1. IsDll(Accepted(dll)) /\ DOMAIN Accepted(dll) = DllFields
    BY <1>2, RemarksKeepHeader, SameDll DEF IsDll
  <2>2. IsDll(c)
    BY <2>1, RemarksKeepHeader, SameDll
  <2>3. \A f \in DllFields \ {"error"} : Accepted(dll)[f] = dll[f]
    BY <1>2 DEF Accepted, DllFields
  <2>4. \A f \in DllFields \ {"point"} : c[f] = Accepted(dll)[f]
    BY <2>1 DEF SetupItems, DllFields
  <2>. QED BY <2>2, <2>3, <2>4
<1> HIDE DEF c
<1>6. /\ c.header = dll.header /\ c.inventory = None /\ c.compatibility_mode = FALSE
      /\ ~HasVlr(c.header, CompatibilityVLR) /\ IsHeader(dll.header)
  BY <1>2, <1>3, <1>5 DEF DllFields, IsDll
<1>7. CASE phase' = "refused"
  BY <1>3, <1>2, <1>4, <1>7 DEF CountInv
<1>8. CASE /\ ~d.error
           /\ dll' = WithWriter(d, items) /\ phase' = "write"
           /\ disk'.las = FileOf(WrittenHeader(d.header, items, compress), items, compress)
  <2> DEFINE h == disk'.las.header
  <2>1. d = PreparedDll(c, compress)
    BY <1>1 DEF c
  <2>2. /\ Leaves(d, c)
        /\ \/ d.header = WithOldCounters(c.header) /\ d.compatibility_mode = FALSE
           \/ c.header.format > 5 /\ d.header.format <= 5
    BY <1>5, <1>6, <1>8, <2>1, PreparedOrRecoded
  <2>3. DOMAIN d = DllFields /\ d.inventory = None /\ IsHeader(d.header)
    <3>1. IsDll(d)
      BY <1>5, <1>6, <2>1, PreparedKeepsSlack
    <3>. QED BY <1>6, <2>2, <3>1 DEF Leaves, Untouched, IsDll
  <2>4. /\ dll'.inventory = None /\ dll'.compatibility_mode = d.compatibility_mode
        /\ dll'.header.format = d.header.format /\ dll'.header.minor = d.header.minor
    BY <1>8, <2>3 DEF WithWriter, DllFields, IsHeader, HeaderFields
  <2>5. /\ h.format = d.header.format /\ h.minor = d.header.minor /\ h.count = d.header.count
        /\ HasVlr(h, CompatibilityVLR) => HasVlr(d.header, CompatibilityVLR)
    <3>1. h = WrittenHeader(d.header, items, compress).header
      BY <1>8 DEF FileOf
    <3>2. /\ h.format = d.header.format /\ h.minor = d.header.minor /\ h.count = d.header.count
          /\ h.vlrs = IF compress THEN Append(d.header.vlrs, [id |-> LASzipVLR,
                                         length |-> 34 + 6 * Len(items), data |-> items])
                      ELSE d.header.vlrs
      BY <2>3, <3>1 DEF WrittenHeader, IsHeader, HeaderFields
    <3>3. HasVlr(h, CompatibilityVLR) => HasVlr(d.header, CompatibilityVLR)
      <4>1. PICK S : d.header.vlrs \in Seq(S)
        BY <2>3, VlrsDef DEF IsHeader
      <4>2. CompatibilityVLR # LASzipVLR
        BY DEF CompatibilityVLR, LASzipVLR
      <4> HIDE DEF h
      <4>. QED BY <3>2, <4>1, <4>2, SMTT(30) DEF HasVlr, Where
    <3>. QED BY <3>2, <3>3
  <2> HIDE DEF h
  <2>6. CASE d.header = WithOldCounters(c.header) /\ d.compatibility_mode = FALSE
    <3>1. /\ d.header.format = dll.header.format /\ d.header.minor = dll.header.minor
          /\ d.header.vlrs = dll.header.vlrs
      BY <1>6, <2>6, WithOldCountersKeepsSlack DEF HeaderFields
    <3>2. dll.header.format > 5 => d.header.count = 0
      BY <1>6, <2>6 DEF WithOldCounters, IsHeader, HeaderFields
    <3>3. ~HasVlr(h, CompatibilityVLR)
      BY <1>2, <2>5, <3>1 DEF HasVlr, Where
    <3>4. WriterInv'
      BY <1>2, <1>3, <2>4, <2>5, <2>6, <3>1, <3>2, <3>3 DEF WriterInv, h
    <3>5. InventoryInv'
      BY <1>2, <1>3, <2>4 DEF InventoryInv
    <3>. QED BY <1>4, <1>8, <1>2, <1>3, <3>4, <3>5 DEF CountInv
  <2>7. CASE c.header.format > 5 /\ d.header.format <= 5
    <3>1. IsRecoded'
      BY <1>2, <1>6, <2>5, <2>7 DEF IsRecoded, h
    <3>2. ~(h.format > 5) /\ ~(dll.header.format <= 5)
      BY <1>6, <2>3, <2>5, <2>7 DEF IsHeader
    <3>3. WriterInv'
      BY <1>2, <2>4, <2>5, <3>1, <3>2 DEF WriterInv, h
    <3>4. InventoryInv'
      BY <1>2, <1>3, <2>4 DEF InventoryInv
    <3>. QED BY <1>4, <1>8, <1>2, <1>3, <3>3, <3>4 DEF CountInv
  <2>. QED BY <2>2, <2>6, <2>7
<1>. QED BY <1>1, <1>7, <1>8

\* A step that leaves header, number of points and file as they are, once the
\* writer is closed.
LEMMA ClosedCounts ==
  ASSUME IInv, CountInv, KeepsHeader(dll', dll),
         phase \in {"read", "inside"}, phase' \in {"read", "inside", "closed"},
         UNCHANGED <<disk, job, before, given, counted>>
  PROVE  CountInv'
<1>1. dll'.header = dll.header /\ dll'.npoints = dll.npoints
  BY DEF KeepsHeader
<1>2. ReaderCounts => ReaderCounts'
  BY <1>1 DEF ReaderCounts, IsRecoded
<1>3. FileCounts(disk.las.header) => FileCounts(disk.las.header)'
  BY DEF FileCounts, IsRecoded
<1>. QED BY <1>2, <1>3 DEF CountInv

\* A point is written; the inventory does not have it yet.
LEMMA WriteNextCounts == ASSUME IInv, CountInv, WriteNext PROVE CountInv'
<1> DEFINE q == job.points[Len(given) + 1]
           p == Fitted(q)
<1>1. /\ phase = "write" /\ Len(given) < Len(job.points)
      /\ job.inventory => counted = Len(given)
      /\ WritePoint(p) /\ UNCHANGED <<job, before, counted>>
  BY DEF WriteNext, WritePoint
<1>2. /\ DOMAIN dll = DllFields /\ disk.las # None /\ DOMAIN disk = {"las", "lax"}
      /\ DOMAIN disk.las = {"header", "starts_at", "compressed", "items", "points"}
      /\ job.points \in Seq(LaszipPoint) /\ job.inventory \in BOOLEAN
  <2>1. job \in Jobs
    BY DEF IInv, HeaderInv
  <2>2. DOMAIN dll = DllFields
    BY DEF IInv, HeaderInv, IsDll
  <2>3. /\ disk.las # None /\ DOMAIN disk = {"las", "lax"}
        /\ DOMAIN disk.las = {"header", "starts_at", "compressed", "items", "points"}
    BY <1>1 DEF IInv, FileInv, Opened
  <2>. QED BY <2>1, <2>2, <2>3, JobsAssumption
<1>3. /\ ArePoints(given) /\ counted \in 0..Len(given) /\ Len(given) \in Nat
      /\ WriterInv /\ (job.inventory => InventoryInv)
  <2>1. ArePoints(given)
    BY DEF CountInv
  <2>2. Len(given) \in Nat
    BY <2>1 DEF ArePoints
  <2>. QED BY <1>1, <2>1, <2>2 DEF CountInv
<1>4. q \in LaszipPoint
  <2> DEFINE S == LaszipPoint
  <2>1. job.points \in Seq(S) /\ Len(given) + 1 \in 1..Len(job.points)
    BY <1>1, <1>2, <1>3
  <2> HIDE DEF S
  <2>2. job.points[Len(given) + 1] \in S
    BY <2>1
  <2>. QED BY <2>2 DEF S
<1>5. /\ DOMAIN q = PointFields /\ q.x \in Int /\ q.return_number \in 0..7
      /\ q.extended_return_number \in 0..15
  <2>1. /\ DOMAIN q = {"x", "y", "gps_time", "nir", "scan_angle_rank", "return_number",
               "number_of_returns", "classification", "flags", "extended_point_type",
               "extended_scan_angle", "extended_return_number", "extended_number_of_returns",
               "extended_classification", "extended_classification_flags",
               "extended_scanner_channel", "extra_bytes"}
    BY <1>4 DEF LaszipPoint
  <2>2. q.x \in Int
    BY <1>4 DEF LaszipPoint
  <2>3. q.return_number \in 0..7
    BY <1>4 DEF LaszipPoint
  <2>4. q.extended_return_number \in 0..15
    BY <1>4 DEF LaszipPoint
  <2>. QED BY <2>1, <2>2, <2>3, <2>4 DEF PointFields, NewPoint
<1> HIDE DEF q
<1>6. IsPoint(p)
  <2>1. /\ DOMAIN p = PointFields /\ p.x = q.x /\ p.extended_point_type = q.extended_point_type
        /\ p.return_number = q.return_number
        /\ p.extended_return_number = q.extended_return_number
    BY <1>5 DEF Fitted, PointFields, NewPoint
  <2>. QED BY <1>5, <2>1 DEF IsPoint, ReturnOf
<1> HIDE DEF p
<1>7. CASE dll' = Refused(dll) /\ phase' = "refused" /\ given' = given
  BY <1>1, <1>3, <1>7 DEF CountInv
<1>8. CASE /\ \E d \in {PointToWrite(SetPoint(dll, p))} :
                /\ dll' = IF job.index THEN Indexed(d) ELSE Written(d)
                /\ disk' = [disk EXCEPT !.las.points = Append(@, Stored(d.writer.items, d.point))]
           /\ given' = Append(given, p) /\ phase' = "write"
  <2> DEFINE c == SetPoint(dll, p)
             d == PointToWrite(c)
             kept == {"header", "inventory", "compatibility_mode"}
  <2>1. /\ dll' = IF job.index THEN Indexed(d) ELSE Written(d)
        /\ disk' = [disk EXCEPT !.las.points = Append(@, Stored(d.writer.items, d.point))]
    BY <1>8
  <2>2. /\ DOMAIN c = DllFields /\ DOMAIN c.point = PointFields
        /\ \A f \in kept : c[f] = dll[f]
        /\ c.point.x = p.x /\ ReturnOf(c.point) = ReturnOf(p)
    BY <1>2, <1>6 DEF SetPoint, DllFields, IsPoint, PointFields, NewPoint, ReturnOf
  <2> HIDE DEF c
  <2>3. /\ DOMAIN d = DllFields /\ \A f \in kept : d[f] = dll[f]
        /\ d.point.x = p.x
        /\ ~dll.compatibility_mode => ReturnOf(d.point) = ReturnOf(p)
    <3>1. CASE job.index \/ ~c.compatibility_mode
      BY <2>2, <3>1 DEF PointToWrite, WithRecoding, DllFields
    <3>2. CASE ~job.index /\ c.compatibility_mode
      <4>1. d = [c EXCEPT !.point = Distilled(c.point, c.start)]
        BY <3>2 DEF PointToWrite, WithRecoding
      <4>2. Distilled(c.point, c.start).x = c.point.x
        BY <2>2 DEF Distilled, PointFields, NewPoint
      <4>. QED BY <2>2, <3>2, <4>1, <4>2 DEF DllFields
    <3>. QED BY <3>1, <3>2
  <2> HIDE DEF d
  <2>4. dll'.point = d.point /\ \A f \in kept : dll'[f] = dll[f]
    BY <2>1, <2>3 DEF Indexed, Written, DllFields
  <2>5. disk'.las.header = disk.las.header
    <3> DEFINE item == Stored(d.writer.items, d.point)
    <3>1. disk' = [disk EXCEPT !.las.points = Append(@, item)]
      BY <2>1
    <3> HIDE DEF item
    <3>. QED BY <1>2, <3>1
  <2>6. WriterInv' /\ (IsRecoded' <=> IsRecoded)
    BY <1>1, <1>3, <2>4, <2>5 DEF WriterInv, IsRecoded
  <2>7. /\ ArePoints(given') /\ Len(given') = Len(given) + 1 /\ given'[Len(given) + 1] = p
    BY <1>3, <1>6, <1>8, OneMorePoint
  <2>8. ASSUME job.inventory PROVE InventoryInv'
    <3>1. counted' = counted /\ counted = Len(given) /\ dll'.inventory = dll.inventory
      BY <1>1, <2>4, <2>8
    <3>2. IF counted = 0 THEN dll.inventory = None
          ELSE IsTally(dll.inventory, given, counted, IsRecoded)
      BY <1>3, <2>8 DEF InventoryInv
    <3>3. counted # 0 => IsTally(dll.inventory, given', counted, IsRecoded)
      BY <1>3, <1>6, <1>8, <3>2, TallyStays
    <3>4. ~IsRecoded => ~dll.compatibility_mode
      BY <1>3 DEF WriterInv
    <3>5. dll'.point.x = p.x /\ (~IsRecoded => ReturnOf(dll'.point) = ReturnOf(p))
      BY <2>3, <2>4, <3>4
    <3>6. IF counted = 0 THEN dll'.inventory = None
          ELSE IsTally(dll'.inventory, given', counted, IsRecoded)
      BY <3>1, <3>2, <3>3
    <3>7. ~IsRecoded' <=> ~IsRecoded
      BY <2>6
    <3>8. Len(given') <= counted' + 1 /\ given'[counted' + 1] = p
      BY <1>3, <2>7, <3>1
    <3>9. IsRecoded' = IsRecoded
      BY <2>6 DEF IsRecoded
    <3>10. IF counted' = 0 THEN dll'.inventory = None
           ELSE IsTally(dll'.inventory, given', counted', IsRecoded')
      BY <3>1, <3>6, <3>9
    <3>. QED BY <3>5, <3>7, <3>8, <3>10 DEF InventoryInv
  <2>9. counted' \in 0..Len(given') /\ job' = job /\ before'.format \in 0..10
    BY <1>1, <1>3, <2>7 DEF CountInv
  <2>. QED BY <1>8, <2>6, <2>7, <2>8, <2>9 DEF CountInv
<1>. QED BY <1>1, <1>7, <1>8 DEF WritePoint

\* The inventory counts the point that was written last.
LEMMA UpdateInventoryCounts ==
  ASSUME IInv, CountInv, job.inventory, UpdateInventory PROVE CountInv'
<1> DEFINE i == IF dll.inventory = None THEN NewInventory ELSE dll.inventory
<1>1. /\ phase = "write" /\ phase' = "write" /\ counted < Len(given) /\ counted' = counted + 1
      /\ UNCHANGED <<disk, job, before, given>>
      /\ dll' = [dll EXCEPT !.inventory = AddToInventory(i, dll.point)]
      /\ DOMAIN dll = DllFields
  BY DEF UpdateInventory, IInv, HeaderInv, IsDll
<1>2. /\ ArePoints(given) /\ counted \in 0..Len(given) /\ Len(given) \in Nat
      /\ WriterInv /\ InventoryInv
  <2>1. ArePoints(given)
    BY DEF CountInv
  <2>2. Len(given) \in Nat
    BY <2>1 DEF ArePoints
  <2>. QED BY <1>1, <2>1, <2>2 DEF CountInv
<1>3. IF counted = 0 THEN i = NewInventory ELSE IsTally(i, given, counted, IsRecoded)
  <2>1. counted # 0 => dll.inventory # None
    BY <1>2, TallyIsThere DEF InventoryInv
  <2>. QED BY <1>2, <2>1 DEF InventoryInv
<1>4. dll.point.x = given[counted + 1].x
      /\ (~IsRecoded => ReturnOf(dll.point) = ReturnOf(given[counted + 1]))
  BY <1>1, <1>2 DEF InventoryInv
<1>5. IsRecoded \in BOOLEAN
  BY DEF IsRecoded
<1> HIDE DEF i
<1>6. IsTally(AddToInventory(i, dll.point), given, counted + 1, IsRecoded)
  BY <1>1, <1>2, <1>3, <1>4, <1>5, OneMoreTallied
<1>7. /\ dll'.inventory = AddToInventory(i, dll.point) /\ dll'.header = dll.header
      /\ dll'.compatibility_mode = dll.compatibility_mode /\ dll'.point = dll.point
  BY <1>1 DEF DllFields
<1>8. WriterInv' /\ IsRecoded' = IsRecoded
  BY <1>1, <1>2, <1>7 DEF WriterInv, IsRecoded
<1>9. InventoryInv'
  <2>1. counted' # 0 /\ ~(counted' < Len(given')) /\ Len(given') <= counted' + 1
    BY <1>1, <1>2 DEF InventoryInv
  <2>2. IsTally(dll'.inventory, given', counted', IsRecoded')
    BY <1>1, <1>6, <1>7, <1>8
  <2>. QED BY <2>1, <2>2 DEF InventoryInv
<1>. QED BY <1>1, <1>2, <1>8, <1>9 DEF CountInv

\* laszip_close_writer() puts the inventory of all points into the file.
LEMMA CloseWriterCounts ==
  ASSUME IInv, CountInv, AllWritten, CloseWriter PROVE CountInv'
<1> DEFINE file == disk.las.header
           i == dll.inventory
           g == UpdatedFile(file, dll.header, i)
<1>1. /\ phase = "write" /\ phase' = "file" /\ UNCHANGED <<job, before, given, counted>>
      /\ disk'.las = IF i = None THEN disk.las ELSE [disk.las EXCEPT !.header = g]
      /\ job.inventory => counted = Len(given)
      /\ IsHeader(file) /\ "header" \in DOMAIN disk.las
  BY DEF CloseWriter, AllWritten, IInv, FileInv, Opened
<1>2. /\ ArePoints(given) /\ counted \in 0..Len(given) /\ Len(given) \in Nat
      /\ WriterInv /\ (job.inventory => InventoryInv)
  <2>1. ArePoints(given)
    BY DEF CountInv
  <2>2. Len(given) \in Nat
    BY <2>1 DEF ArePoints
  <2>. QED BY <1>1, <2>1, <2>2 DEF CountInv
<1>3. ASSUME job.inventory, given # <<>> PROVE FileCounts(disk.las.header)'
  <2>1. counted = Len(given) /\ Len(given) # 0
    <3>1. Len(given) # 0
      BY <1>2, <1>3 DEF ArePoints
    <3>. QED BY <1>1, <1>3, <3>1
  <2>2. IsTally(i, given, Len(given), IsRecoded)
    BY <1>2, <1>3, <2>1 DEF InventoryInv
  <2>3. i # None
    BY <2>2, TallyIsThere
  <2>4. /\ disk'.las.header = g /\ DOMAIN file = HeaderFields
        /\ dll.header.format = file.format /\ dll.header.minor = file.minor
        /\ file.format \in 0..10 /\ file.minor \in 0..5
    BY <1>1, <1>2, <2>3 DEF IsHeader, WriterInv
  <2>5. /\ g.format = file.format /\ g.minor = file.minor /\ g.vlrs = file.vlrs /\ g.box = i.box
        /\ g.count = IF file.format <= 5 THEN i.count ELSE file.count
        /\ file.format <= 5 => g.by = [r \in 1..5 |-> i.by[r]]
        /\ file.minor >= 4 => g.extended = [count |-> i.count, by |-> [r \in 1..15 |-> i.by[r]]]
    BY <2>4 DEF UpdatedFile, HeaderFields
  <2> HIDE DEF g, i, file
  <2>6. (IsRecoded' <=> IsRecoded) /\ (HasVlr(g, CompatibilityVLR) <=> HasVlr(file, CompatibilityVLR))
    BY <1>1, <2>4, <2>5 DEF IsRecoded, file, HasVlr, Where
  <2>7. IsExtent(g.box.min_x, g.box.max_x, given, Len(given)) /\ i.count = Len(given)
    BY <2>2, <2>5 DEF IsTally
  <2>8. IF g.format <= 5 THEN g.count = Len(given) ELSE g.count = 0 /\ g.minor >= 4
    <3>1. file.format > 5 => file.count = 0 /\ file.minor >= 4
      BY <1>2 DEF WriterInv, file
    <3>. QED BY <2>4, <2>5, <2>7, <3>1
  <2>9. before.format <= 5 => g.format <= 5
    BY <1>2, <2>5 DEF WriterInv, file
  <2>10. ASSUME ~IsRecoded
         PROVE  /\ ~HasVlr(g, CompatibilityVLR)
                /\ g.format <= 5 => \A r \in 1..5 : g.by[r] = Counts(given, Len(given), r)
                /\ g.minor >= 4 =>
                     /\ g.extended.count = Len(given)
                     /\ \A r \in 1..15 : g.extended.by[r] = Counts(given, Len(given), r)
    <3>1. \A r \in 0..15 : i.by[r] = Counts(given, Len(given), r)
      BY <2>2, <2>10 DEF IsTally
    <3>2. ~HasVlr(g, CompatibilityVLR)
      BY <1>2, <2>6, <2>10 DEF WriterInv, file
    <3>3. ASSUME g.format <= 5, NEW r \in 1..5 PROVE g.by[r] = Counts(given, Len(given), r)
      <4>1. g.by = [k \in 1..5 |-> i.by[k]]
        BY <2>5, <3>3
      <4>. QED BY <3>1, <4>1
    <3>4. ASSUME g.minor >= 4
          PROVE  /\ g.extended.count = Len(given)
                 /\ \A r \in 1..15 : g.extended.by[r] = Counts(given, Len(given), r)
      <4>1. g.extended = [count |-> i.count, by |-> [r \in 1..15 |-> i.by[r]]]
        BY <2>5, <3>4
      <4>. QED BY <2>7, <3>1, <4>1
    <3>. QED BY <3>2, <3>3, <3>4
  <2>11. given' = given /\ before' = before
    BY <1>1
  <2>. QED BY <2>4, <2>6, <2>7, <2>8, <2>9, <2>10, <2>11 DEF FileCounts
<1>. QED BY <1>1, <1>2, <1>3 DEF CountInv

\* Between writer and reader the file stays what it is.
LEMMA BetweenFilesCounts ==
  ASSUME IInv, CountInv, NEW clean, NEW compat, NEW exploit, BetweenFiles(clean, compat, exploit)
  PROVE  CountInv'
<1>1. /\ phase = "file" /\ phase' = "reopen" /\ UNCHANGED <<disk, job, before, given, counted>>
  BY DEF BetweenFiles
<1>2. FileCounts(disk.las.header) => FileCounts(disk.las.header)'
  BY <1>1 DEF FileCounts, IsRecoded
<1>. QED BY <1>1, <1>2 DEF CountInv

\* laszip_open_reader() takes the counters from the file.
LEMMA OpenReaderCounts == ASSUME IInv, CountInv, OpenReader PROVE CountInv'
<1> DEFINE file == disk.las.header
           f == [file EXCEPT
                   !.extended = IF file.minor >= 4 THEN @ ELSE dll.header.extended,
                   !.gps = IF file.minor >= 5 THEN @ ELSE dll.header.gps]
           h == HeaderOf(dll, disk.las)
           start == StartsIn(dll, h)
<1>1. /\ phase = "reopen" /\ UNCHANGED <<disk, job, before, given, counted>>
      /\ IsDll(dll) /\ DOMAIN dll = DllFields
      /\ IsHeader(file) /\ CompatibilityHasExtraBytes(file)
  BY DEF OpenReader, IInv, HeaderInv, FileInv, Opened, IsDll
<1>2. PICK items :
        \/ phase' = "refused"
        \/ /\ dll' = WithReader(WithHeader(SetupItems(Accepted(dll), items), h, start),
                                items, disk.lax)
           /\ phase' = "read"
  BY DEF OpenReader
<1>3. ArePoints(given) /\ counted \in 0..Len(given) /\ Len(given) \in Nat
  <2>1. ArePoints(given)
    BY DEF CountInv
  <2>2. Len(given) \in Nat
    BY <2>1 DEF ArePoints
  <2>. QED BY <2>1, <2>2 DEF CountInv
<1>4. FileCounts(file) => FileCounts(disk.las.header)'
  BY <1>1 DEF FileCounts, IsRecoded
<1>5. CASE phase' = "refused"
  BY <1>1, <1>3, <1>5 DEF CountInv
<1>6. CASE /\ dll' = WithReader(WithHeader(SetupItems(Accepted(dll), items), h, start),
                                items, disk.lax)
           /\ phase' = "read"
  <2>1. ASSUME job.inventory, given # <<>> PROVE FileCounts(file) /\ ReaderCounts'
    <3> DEFINE c == SetupItems(Accepted(dll), items)
               d == WithHeader(c, h, start)
    <3>1. FileCounts(file) /\ Len(given) # 0
      BY <1>1, <1>3, <2>1 DEF CountInv, ArePoints
    <3>2. /\ DOMAIN f = HeaderFields /\ f.vlrs = file.vlrs /\ f.minor \in 0..5
          /\ f.format \in 0..10 /\ f.length \in Int /\ f.size \in Int /\ f.offset \in Int
          /\ f.after \in Int
          /\ \A k \in {"format", "minor", "count", "by", "box"} : f[k] = file[k]
          /\ file.minor >= 4 => f.extended = file.extended
      BY <1>1 DEF IsHeader, HeaderFields
    <3>3. h = ReadBack(f)
      BY DEF HeaderOf
    <3>4. IsHeader(f) /\ IsHeader(h)
      BY <1>1, <3>2, HeaderThatIsRead DEF IsHeader
    <3> HIDE DEF f
    <3>5. /\ \A k \in {"format", "minor", "count", "by", "box"} : h[k] = file[k]
          /\ file.minor >= 4 => h.extended = file.extended
      BY <3>2, <3>3, <3>4, ReadBackIsAboutVlrs DEF HeaderFields, VlrFields
    <3>6. HasVlr(h, CompatibilityVLR) => HasVlr(file, CompatibilityVLR)
      <4>1. HasVlr(f, CompatibilityVLR) => HasVlr(file, CompatibilityVLR)
        BY <3>2 DEF HasVlr, Where
      <4>. QED BY <3>3, <3>4, <4>1, NoVlrIsReadBack
    <3> HIDE DEF h, start
    <3>7. DOMAIN c = DllFields
      <4>1. IsDll(Accepted(dll))
        BY <1>1, RemarksKeepHeader, SameDll
      <4>2. IsDll(c)
        BY <4>1, RemarksKeepHeader, SameDll DEF IsDll
      <4>. QED BY <4>2 DEF IsDll
    <3> HIDE DEF c
    <3>8. DOMAIN d = DllFields /\ (d.header = h \/ (IsCompatible(h) /\ d.header = Upgraded(h, start)))
      BY <3>7 DEF WithHeader, DllFields
    <3>9. dll' = WithReader(d, items, disk.lax)
      BY <1>6 DEF c
    <3> HIDE DEF d
    <3>10. dll'.header = d.header /\ dll'.npoints = Total(d.header)
      BY <3>8, <3>9 DEF WithReader, DllFields
    <3>11. \A k \in {"count", "by", "box"} : d.header[k] = file[k]
      BY <3>4, <3>5, <3>8, UpgradedKeepsCounters
    <3>12. ~IsRecoded => d.header = h
      BY <3>1, <3>6, <3>8 DEF FileCounts, IsCompatible
    <3> HIDE DEF file
    <3>13. d.header = h \/ file.format <= 5
      BY <3>5, <3>8 DEF IsCompatible
    <3>14. Total(d.header) = Len(given)
      <4>1. CASE file.format <= 5
        BY <3>1, <3>11, <4>1 DEF Total, FileCounts
      <4>2. CASE ~(file.format <= 5)
        <5>1. d.header.count = 0 /\ d.header.extended = file.extended /\ ~IsRecoded
              /\ file.minor >= 4
          BY <3>1, <3>5, <3>11, <3>13, <4>2 DEF FileCounts, IsRecoded, file
        <5>2. file.extended.count = Len(given)
          BY <3>1, <5>1 DEF FileCounts
        <5>. QED BY <5>1, <5>2 DEF Total
      <4>. QED BY <4>1, <4>2
    <3>15. IsExtent(d.header.box.min_x, d.header.box.max_x, given, Len(given))
      BY <3>1, <3>11 DEF FileCounts
    <3>16. before.format <= 5 => \A r \in 1..5 : d.header.by[r] = Counts(given, Len(given), r)
      <4>1. before.format <= 5 => ~(before.format > 5)
        BY DEF CountInv
      <4>2. before.format <= 5 => ~IsRecoded /\ file.format <= 5
        BY <3>1, <4>1 DEF FileCounts, IsRecoded
      <4>. QED BY <3>1, <3>11, <4>2 DEF FileCounts
    <3>17. d.header.minor >= 4 /\ ~IsRecoded =>
             /\ d.header.extended.count = Len(given)
             /\ \A r \in 1..15 : d.header.extended.by[r] = Counts(given, Len(given), r)
      BY <3>1, <3>5, <3>12 DEF FileCounts
    <3>18. ReaderCounts'
      <4>1. /\ dll'.header = d.header /\ dll'.npoints = Len(given) /\ given' = given
            /\ before' = before /\ (IsRecoded' <=> IsRecoded)
        BY <1>1, <3>10, <3>14 DEF IsRecoded
      <4>. QED BY <3>15, <3>16, <3>17, <4>1 DEF ReaderCounts
    <3>. QED BY <3>1, <3>18
  <2> HIDE DEF h, start, file
  <2>2. ArePoints(given') /\ counted' \in 0..Len(given') /\ job' = job /\ given' = given
        /\ before'.format \in 0..10
    BY <1>1, <1>3 DEF CountInv
  <2>3. phase' = "read"
    BY <1>6
  <2>. QED BY <1>4, <2>1, <2>2, <2>3 DEF CountInv
<1>. QED BY <1>2, <1>5, <1>6

\* Every step keeps the invariant of the counters.
LEMMA NextCounts == ASSUME IInv, CountInv, [Next]_vars PROVE CountInv'
<1>1. CASE Start
  BY <1>1, StartCounts
<1>2. CASE WriteNext
  BY <1>2, WriteNextCounts
<1>3. CASE job.inventory /\ UpdateInventory
  BY <1>3, UpdateInventoryCounts
<1>4. CASE AllWritten /\ CloseWriter
  BY <1>4, CloseWriterCounts
<1>5. CASE \E call \in job.calls : Call(call)
  BY <1>5, CallCounts
<1>6. CASE \E compress \in BOOLEAN : OpenWriter(compress)
  BY <1>6, OpenWriterCounts
<1>7. CASE \E clean, compat \in BOOLEAN, exploit \in {FALSE, job.rectangles # {}} :
             BetweenFiles(clean, compat, exploit)
  BY <1>7, BetweenFilesCounts
<1>8. CASE OpenReader
  BY <1>8, OpenReaderCounts
<1>9. CASE Reading
  BY <1>9, ReadingKeepsHeader, ClosedCounts
<1>10. CASE UNCHANGED vars
  BY <1>10 DEF vars, CountInv, WriterInv, InventoryInv, FileCounts, ReaderCounts, IsRecoded
<1>. QED BY <1>1, <1>2, <1>3, <1>4, <1>5, <1>6, <1>7, <1>8, <1>9, <1>10 DEF Next, Stopped, Reading

\* The smallest and the largest of the points.
LEMMA ExtentIs ==
  ASSUME NEW s, ArePoints(s), NEW lo, NEW hi, IsExtent(lo, hi, s, Len(s))
  PROVE  /\ lo = Min({s[i].x : i \in DOMAIN s})
         /\ hi = Max({s[i].x : i \in DOMAIN s})
<1> DEFINE S == {s[i].x : i \in DOMAIN s}
<1>1. PICK T : s \in Seq(T) /\ \A q \in T : IsPoint(q)
  BY DEF ArePoints
<1>2. DOMAIN s = 1..Len(s) /\ \A i \in 1..Len(s) : s[i].x \in Int
  BY <1>1 DEF IsPoint
<1>3. /\ S \subseteq Int /\ lo \in S /\ hi \in S
      /\ \A k \in S : lo <= k /\ k <= hi
  BY <1>2 DEF IsExtent
<1> HIDE DEF S
<1>4. \A m \in S : (\A k \in S : m <= k) => m = lo
  BY <1>3
<1>5. \A m \in S : (\A k \in S : m >= k) => m = hi
  BY <1>3
<1>6. Min(S) = lo
  BY <1>3, <1>4 DEF Min
<1>7. Max(S) = hi
  BY <1>3, <1>5 DEF Max
<1>. QED BY <1>6, <1>7 DEF S

-----------------------------------------------------------------------------
(* A point of a new type as one of an old type, and back *)

\* What the object's point holds when it is recoded.
IsNewPoint(p) ==
  /\ DOMAIN p = PointFields
  /\ p.extended_scan_angle \in I16 /\ p.nir \in U16 /\ p.flags \in 0..7
  /\ p.extended_return_number \in 0..15 /\ p.extended_number_of_returns \in 0..15
  /\ p.extended_classification \in U8 /\ p.classification \in 0..31
  /\ p.extended_classification_flags \in 0..15 /\ p.extended_scanner_channel \in 0..3
  /\ p.extended_classification_flags % 8 = p.flags
  /\ p.extended_classification <= 31 => p.classification = p.extended_classification

\* Where the values are that are kept in extra bytes, behind the first s.
IsLayout(start, s, nir) ==
  /\ start.scan_angle = s /\ start.returns = s + 2 /\ start.classification = s + 3
  /\ start.flags = s + 4 /\ start.nir = IF nir THEN s + 5 ELSE -1

HasRoom(bytes, s, nir) ==
  \E n \in Nat : DOMAIN bytes = 1..n /\ s + (IF nir THEN 7 ELSE 5) <= n

\* What 16 bits have room for.
LEMMA RangeOfI16 ==
  \A v : v \in I16 <=> v \in Int /\ -32768 <= v /\ v <= 32767
<1> DEFINE lo == -32768
           hi == 32767
<1>1. lo \in Int /\ hi \in Int /\ I16 = lo..hi
  BY DEF I16
<1> HIDE DEF lo, hi
<1>2. \A v : v \in I16 <=> v \in Int /\ lo <= v /\ v <= hi
  BY <1>1
<1>. QED BY <1>2 DEF lo, hi

\* The same without a sign.
LEMMA RangeOfU16 ==
  \A v : v \in U16 <=> v \in Int /\ 0 <= v /\ v <= 65535
<1> DEFINE hi == 65535
<1>1. hi \in Int /\ U16 = 0..hi
  BY DEF U16
<1> HIDE DEF hi
<1>2. \A v : v \in U16 <=> v \in Int /\ 0 <= v /\ v <= hi
  BY <1>1
<1>. QED BY <1>2 DEF hi

\* A number of 16 bits as the sum of its bytes.
LEMMA BytesGot ==
  ASSUME NEW v \in Int
  PROVE  /\ v \in U16 => (v % 256) + 256 * ((v \div 256) % 256) = v
         /\ v \in I16 =>
              (v % 256) + 256 * ((v \div 256) % 256)
                - (IF (v \div 256) % 256 >= 128 THEN 65536 ELSE 0) = v
<1> DEFINE q == v \div 256
           r == v % 256
<1>1. q \in Int /\ r \in 0..255 /\ v = 256 * q + r
  OBVIOUS
<1> HIDE DEF q, r
<1>2. ASSUME v \in U16 PROVE q \in 0..255 /\ q % 256 = q
  <2>1. 0 <= v /\ v <= 65535
    BY <1>2, RangeOfU16
  <2>2. q \in 0..255
    BY <1>1, <2>1
  <2>. QED BY <2>2
<1>3. ASSUME v \in I16
      PROVE  q \in -128..127 /\ q % 256 = IF q >= 0 THEN q ELSE q + 256
  <2>1. -32768 <= v /\ v <= 32767
    BY <1>3, RangeOfI16
  <2>2. -128 <= q /\ q <= 127
    BY <1>1, <2>1
  <2>3. \A j \in 0..255 : j % 256 = j
    OBVIOUS
  <2>4. \A j \in -128..-1 : j % 256 = j + 256
    OBVIOUS
  <2>. QED BY <1>1, <2>2, <2>3, <2>4
<1>4. v \in U16 => r + 256 * (q % 256) = v
  BY <1>1, <1>2
<1>5. v \in I16 => r + 256 * (q % 256) - (IF q % 256 >= 128 THEN 65536 ELSE 0) = v
  BY <1>1, <1>3
<1>. QED BY <1>4, <1>5 DEF q, r

\* The rank of a scan angle has its sign, so that what it leaves is small.
LEMMA RestOfAngle ==
  ASSUME NEW a \in I16
  PROVE  RankOf(a) \in I8 /\ a - AngleOf(RankOf(a)) \in I16
<1> DEFINE n == Nearest(6 * a, 1000)
           r == RankOf(a)
<1>1. a \in Int /\ -32768 <= a /\ a <= 32767
  BY RangeOfI16
<1>2. n \in Int /\ (a >= 0 => n >= 0) /\ (a < 0 => n <= 0)
  <2>1. CASE a >= 0
    BY <1>1, <2>1 DEF Nearest
  <2>2. CASE a < 0
    <3>1. n = - ((1000 - 12 * a) \div 2000)
      BY <1>1, <2>2 DEF Nearest
    <3> DEFINE k == (1000 - 12 * a) \div 2000
    <3>2. k \in Nat
      BY <1>1, <2>2
    <3>3. n = -k
      BY <3>1
    <3> HIDE DEF k, n
    <3>4. n \in Int /\ n <= 0
      BY <3>2, <3>3
    <3>. QED BY <1>1, <2>2, <3>4 DEF n
  <2>. QED BY <1>1, <2>1, <2>2
<1>3. r = IF n > 127 THEN 127 ELSE IF n < -128 THEN -128 ELSE n
  <2>1. r = Max({-128, Min({127, n})})
    BY DEF RankOf, I8_CLAMP
  <2> HIDE DEF n, r
  <2>2. Min({127, n}) = IF 127 <= n THEN 127 ELSE n
    BY <1>2, MinMaxOfTwo
  <2>3. Min({127, n}) \in Int
    BY <1>2, <2>2
  <2> DEFINE m == Min({127, n})
  <2> HIDE DEF m
  <2>4. Max({-128, m}) = IF -128 <= m THEN m ELSE -128
    BY <2>3, MinMaxOfTwo DEF m
  <2>. QED BY <1>2, <2>1, <2>2, <2>4 DEF m
<1> HIDE DEF n, r
<1>4. r \in Int /\ -128 <= r /\ r <= 127 /\ (a >= 0 => r >= 0) /\ (a < 0 => r <= 0)
  BY <1>2, <1>3
<1>5. /\ AngleOf(r) \in Int /\ -21334 <= AngleOf(r) /\ AngleOf(r) <= 21334
      /\ r >= 0 => AngleOf(r) >= 0
      /\ r <= 0 => AngleOf(r) <= 0
  <2>1. CASE r >= 0
    <3>1. AngleOf(r) = (1000 * r + 3) \div 6
      BY <1>4, <2>1 DEF AngleOf, Nearest
    <3>. QED BY <1>4, <2>1, <3>1
  <2>2. CASE r < 0
    <3>1. AngleOf(r) = - ((3 - 1000 * r) \div 6)
      BY <1>4, <2>2 DEF AngleOf, Nearest
    <3> DEFINE k == (3 - 1000 * r) \div 6
    <3>2. k \in Int /\ 0 <= k /\ k <= 21334
      BY <1>4, <2>2
    <3> HIDE DEF k
    <3>3. AngleOf(r) = -k
      BY <3>1 DEF k
    <3>. QED BY <1>4, <2>2, <3>2, <3>3
  <2>. QED BY <1>4, <2>1, <2>2
<1>6. a - AngleOf(r) \in I16 /\ r \in I8
  <2> DEFINE g == AngleOf(r)
  <2>1. /\ g \in Int /\ -21334 <= g /\ g <= 21334
        /\ a >= 0 => g >= 0
        /\ a < 0 => g <= 0
    BY <1>4, <1>5
  <2> HIDE DEF g
  <2>2. a - g \in Int /\ -32768 <= a - g /\ a - g <= 32767
    BY <1>1, <2>1
  <2>3. a - g \in I16
    BY <2>2, RangeOfI16
  <2>4. r \in I8
    BY <1>4 DEF I8
  <2>. QED BY <2>3, <2>4 DEF g
<1>. QED BY <1>6 DEF r

\* Old return numbers fit, and leave what fits into half a byte.
LEMMA RestOfReturns ==
  ASSUME NEW r \in 0..15, NEW n \in 0..15
  PROVE  /\ Min({n, 7}) \in 0..7 /\ n - Min({n, 7}) \in 0..15
         /\ OldReturnNumber(r, n) \in 0..7 /\ r - OldReturnNumber(r, n) \in 0..15
<1>1. \A k \in 0..15 : Min({k, 7}) = IF k <= 7 THEN k ELSE 7
  BY MinMaxOfTwo
<1>2. Min({n, 7}) = IF n <= 7 THEN n ELSE 7
  BY <1>1
<1>3. Min({r, 7}) = IF r <= 7 THEN r ELSE 7
  BY <1>1
<1>. QED BY <1>2, <1>3 DEF OldReturnNumber

\* What the point d holds after laszip_write_point() has recoded the point p.
HasTheRest(d, p, s, nir) ==
  LET b == d.extra_bytes
      rank == RankOf(p.extended_scan_angle)
      rest == p.extended_scan_angle - AngleOf(rank)
      n == Min({p.extended_number_of_returns, 7})
      r == OldReturnNumber(p.extended_return_number, p.extended_number_of_returns)
      fits == p.extended_classification <= 31
  IN
  /\ DOMAIN d = PointFields /\ DOMAIN b = DOMAIN p.extra_bytes
  /\ \A f \in {"x", "y", "gps_time", "flags", "extended_point_type"} : d[f] = p[f]
  /\ d.scan_angle_rank = rank /\ d.number_of_returns = n /\ d.return_number = r
  /\ d.classification = IF fits THEN p.classification ELSE 0
  /\ \A i \in 1..s : b[i] = p.extra_bytes[i]
  /\ b[s + 1] = rest % 256 /\ b[s + 2] = (rest \div 256) % 256
  /\ b[s + 3] = 16 * (p.extended_return_number - r) + (p.extended_number_of_returns - n)
  /\ b[s + 4] = IF fits THEN 0 ELSE p.extended_classification
  /\ b[s + 5] = 2 * p.extended_scanner_channel + p.extended_classification_flags \div 8
  /\ nir => b[s + 6] = p.nir % 256 /\ b[s + 7] = (p.nir \div 256) % 256

\* Two bytes behind the first s are those of v, and the others are left alone.
HasPut(b, bytes, len, s, v) ==
  /\ DOMAIN b = 1..len
  /\ b[s + 1] = v % 256 /\ b[s + 2] = (v \div 256) % 256
  /\ \A i \in 1..len : i \notin {s + 1, s + 2} => b[i] = bytes[i]

\* CompatiblePoints.Put16() puts a number of two bytes.
LEMMA PutInto ==
  ASSUME NEW bytes, NEW len \in Nat, DOMAIN bytes = 1..len, NEW s \in Nat, s + 2 <= len, NEW v
  PROVE  HasPut(Put16(bytes, s, v), bytes, len, s, v)
<1> DEFINE lo == v % 256
           hi == (v \div 256) % 256
           b == [bytes EXCEPT ![s + 1] = lo, ![s + 2] = hi]
<1>1. b = Put16(bytes, s, v)
  BY DEF Put16
<1> HIDE DEF lo, hi
<1>2. /\ DOMAIN b = 1..len /\ b[s + 1] = lo /\ b[s + 2] = hi
      /\ \A i \in 1..len : i \notin {s + 1, s + 2} => b[i] = bytes[i]
  OBVIOUS
<1> HIDE DEF b
<1>. QED BY <1>1, <1>2 DEF HasPut, lo, hi

\* Distilled() keeps in old fields what they have room for, and the rest in extra bytes.
LEMMA DistilledFields ==
  ASSUME NEW p, IsNewPoint(p), NEW s \in Nat, NEW nir \in BOOLEAN, HasRoom(p.extra_bytes, s, nir),
         NEW start, IsLayout(start, s, nir)
  PROVE  HasTheRest(Distilled(p, start), p, s, nir)
<1> DEFINE d == Distilled(p, start)
           rank == RankOf(p.extended_scan_angle)
           rest == p.extended_scan_angle - AngleOf(rank)
           n == Min({p.extended_number_of_returns, 7})
           r == OldReturnNumber(p.extended_return_number, p.extended_number_of_returns)
           fits == p.extended_classification <= 31
           old == p.extra_bytes
           angles == Put16(old, start.scan_angle, rest)
           returns == 16 * (p.extended_return_number - r) + (p.extended_number_of_returns - n)
           class == IF fits THEN 0 ELSE p.extended_classification
           flags == 2 * p.extended_scanner_channel + p.extended_classification_flags \div 8
           bytes == [angles EXCEPT ![start.returns + 1] = returns,
                                   ![start.classification + 1] = class,
                                   ![start.flags + 1] = flags]
           b == IF start.nir = -1 THEN bytes ELSE Put16(bytes, start.nir, p.nir)
<1>1. PICK len \in Nat : DOMAIN old = 1..len /\ s + (IF nir THEN 7 ELSE 5) <= len
  BY DEF HasRoom
<1>2. rest \in Int
  BY RestOfAngle, RangeOfI16 DEF IsNewPoint
<1>3. p.nir \in Int /\ DOMAIN p = PointFields
  BY RangeOfU16 DEF IsNewPoint
<1>4. /\ DOMAIN d = PointFields
      /\ \A f \in {"x", "y", "gps_time", "flags", "extended_point_type"} : d[f] = p[f]
      /\ d.scan_angle_rank = rank /\ d.number_of_returns = n /\ d.return_number = r
      /\ d.classification = IF fits THEN p.classification ELSE 0
      /\ d.extra_bytes = b
  BY <1>3 DEF Distilled, PointFields, NewPoint
<1> HIDE DEF d, rest, rank, n, r, fits, old, returns, class, flags
<1>5. /\ DOMAIN angles = 1..len /\ angles[s + 1] = rest % 256
      /\ angles[s + 2] = (rest \div 256) % 256
      /\ \A i \in 1..len : i \notin {s + 1, s + 2} => angles[i] = old[i]
  <2>1. start.scan_angle = s /\ s + 2 <= len
    BY <1>1 DEF IsLayout
  <2>. QED BY <1>1, <2>1, PutInto DEF HasPut
<1> HIDE DEF angles
<1>6. /\ DOMAIN bytes = 1..len
      /\ bytes[s + 1] = rest % 256 /\ bytes[s + 2] = (rest \div 256) % 256
      /\ bytes[s + 3] = returns /\ bytes[s + 4] = class /\ bytes[s + 5] = flags
      /\ \A i \in 1..s : bytes[i] = old[i]
  <2>1. start.returns + 1 = s + 3 /\ start.classification + 1 = s + 4 /\ start.flags + 1 = s + 5
    BY DEF IsLayout
  <2>2. s + 5 <= len
    BY <1>1
  <2>3. bytes = [angles EXCEPT ![s + 3] = returns, ![s + 4] = class, ![s + 5] = flags]
    BY <2>1
  <2> HIDE DEF bytes
  <2>4. DOMAIN bytes = 1..len
    BY <1>5, <2>3
  <2>5. bytes[s + 3] = returns /\ bytes[s + 4] = class /\ bytes[s + 5] = flags
    BY <1>5, <2>2, <2>3
  <2>6. \A i \in 1..s + 2 : bytes[i] = angles[i]
    BY <1>5, <2>2, <2>3
  <2>. QED BY <1>5, <2>2, <2>4, <2>5, <2>6
<1> HIDE DEF bytes
<1>7. /\ DOMAIN b = 1..len
      /\ \A i \in 1..s + 5 : b[i] = bytes[i]
      /\ nir => b[s + 6] = p.nir % 256 /\ b[s + 7] = (p.nir \div 256) % 256
  <2>1. CASE nir
    <3>1. b = Put16(bytes, s + 5, p.nir) /\ s + 5 \in Nat /\ s + 5 + 2 <= len
      BY <1>1, <2>1 DEF IsLayout
    <3> HIDE DEF b
    <3>2. HasPut(b, bytes, len, s + 5, p.nir)
      BY <1>6, <3>1, PutInto
    <3>3. /\ DOMAIN b = 1..len
          /\ b[s + 5 + 1] = p.nir % 256 /\ b[s + 5 + 2] = (p.nir \div 256) % 256
          /\ \A i \in 1..len : i \notin {s + 5 + 1, s + 5 + 2} => b[i] = bytes[i]
      BY <3>2 DEF HasPut
    <3>. QED BY <2>1, <3>1, <3>3
  <2>2. CASE ~nir
    BY <1>6, <2>2 DEF IsLayout
  <2>. QED BY <2>1, <2>2
<1> HIDE DEF b
<1>8. /\ \A i \in 1..s : b[i] = old[i]
      /\ b[s + 1] = rest % 256 /\ b[s + 2] = (rest \div 256) % 256
      /\ b[s + 3] = returns /\ b[s + 4] = class /\ b[s + 5] = flags
  BY <1>6, <1>7
<1>. QED BY <1>1, <1>4, <1>7, <1>8
         DEF HasTheRest, d, rest, rank, n, r, fits, old, returns, class, flags

\* Instilled() after LoadPOINT10() after StorePOINT10() after Distilled().
LEMMA RecodedComesBack ==
  ASSUME NEW p, IsNewPoint(p), NEW s \in Nat, NEW nir \in BOOLEAN, HasRoom(p.extra_bytes, s, nir),
         NEW start, IsLayout(start, s, nir), NEW q, DOMAIN q = PointFields
  PROVE  LET back == Instilled(LoadPOINT10(q, StorePOINT10(Distilled(p, start))), start) IN
         /\ \A f \in {"x", "y", "gps_time", "flags"} \cup NewFields : back[f] = p[f]
         /\ nir => back.nir = p.nir
         /\ \A i \in 1..s : back.extra_bytes[i] = p.extra_bytes[i]
<1> DEFINE d == Distilled(p, start)
           item == StorePOINT10(d)
           l == LoadPOINT10(q, item)
           back == Instilled(l, start)
           b == d.extra_bytes
           rank == RankOf(p.extended_scan_angle)
           rest == p.extended_scan_angle - AngleOf(rank)
           n == Min({p.extended_number_of_returns, 7})
           r == OldReturnNumber(p.extended_return_number, p.extended_number_of_returns)
           fits == p.extended_classification <= 31
           stored == {"x", "y", "gps_time", "flags", "scan_angle_rank", "number_of_returns",
                      "return_number", "classification", "extra_bytes"}
<1>0. HasTheRest(d, p, s, nir)
  BY DistilledFields
<1> HIDE DEF d
<1>1. /\ DOMAIN d = PointFields
      /\ \A f \in {"x", "y", "gps_time", "flags", "extended_point_type"} : d[f] = p[f]
      /\ d.scan_angle_rank = rank /\ d.number_of_returns = n /\ d.return_number = r
      /\ d.classification = IF fits THEN p.classification ELSE 0
      /\ \A i \in 1..s : b[i] = p.extra_bytes[i]
      /\ b[s + 1] = rest % 256 /\ b[s + 2] = (rest \div 256) % 256
      /\ b[s + 3] = 16 * (p.extended_return_number - r) + (p.extended_number_of_returns - n)
      /\ b[s + 4] = IF fits THEN 0 ELSE p.extended_classification
      /\ b[s + 5] = 2 * p.extended_scanner_channel + p.extended_classification_flags \div 8
      /\ nir => b[s + 6] = p.nir % 256 /\ b[s + 7] = (p.nir \div 256) % 256
  BY <1>0 DEF HasTheRest
<1>2. DOMAIN l = PointFields /\ \A f \in stored : l[f] = d[f]
  BY DEF LoadPOINT10, StorePOINT10, PointFields, NewPoint
<1>3. l.extra_bytes = b /\ l.scan_angle_rank = rank /\ l.number_of_returns = n
      /\ l.return_number = r /\ l.classification = (IF fits THEN p.classification ELSE 0)
      /\ l.x = p.x /\ l.y = p.y /\ l.gps_time = p.gps_time /\ l.flags = p.flags
  BY <1>1, <1>2
<1> HIDE DEF l
<1>4. /\ back.x = l.x /\ back.y = l.y /\ back.gps_time = l.gps_time /\ back.flags = l.flags
      /\ back.extra_bytes = b
      /\ back.extended_scan_angle = GetI16(b, start.scan_angle) + AngleOf(rank)
      /\ back.extended_return_number = b[start.returns + 1] \div 16 + r
      /\ back.extended_number_of_returns = (b[start.returns + 1] % 16) + n
      /\ back.extended_classification =
           b[start.classification + 1] + (IF fits THEN p.classification ELSE 0)
      /\ back.extended_scanner_channel = (b[start.flags + 1] \div 2) % 4
      /\ back.extended_classification_flags = 8 * (b[start.flags + 1] % 2) + p.flags
      /\ back.nir = IF start.nir = -1 THEN l.nir ELSE GetU16(b, start.nir)
  BY <1>2, <1>3 DEF Instilled, PointFields, NewPoint
<1> HIDE DEF back, b
<1>5. back.extended_scan_angle = p.extended_scan_angle
  <2>1. rest \in I16 /\ rank \in I8
    BY RestOfAngle DEF IsNewPoint
  <2>2. GetI16(b, s) = rest
    <3>1. rest \in Int
      BY <2>1, RangeOfI16
    <3> HIDE DEF rest
    <3>. QED BY <1>1, <2>1, <3>1, BytesGot DEF GetI16, GetU16
  <2>3. AngleOf(rank) \in Int /\ p.extended_scan_angle \in Int
    <3>1. rank \in Int
      BY <2>1 DEF I8
    <3> HIDE DEF rank
    <3>2. AngleOf(rank) \in Int
      BY <3>1 DEF AngleOf, Nearest
    <3>. QED BY <3>2, RangeOfI16 DEF IsNewPoint
  <2> HIDE DEF rank
  <2>. QED BY <1>4, <2>2, <2>3 DEF IsLayout
<1>6. /\ back.extended_return_number = p.extended_return_number
      /\ back.extended_number_of_returns = p.extended_number_of_returns
  <2> DEFINE i == p.extended_return_number - r
             j == p.extended_number_of_returns - n
  <2>1. /\ p.extended_return_number \in 0..15 /\ p.extended_number_of_returns \in 0..15
        /\ r \in 0..7 /\ n \in 0..7 /\ i \in 0..15 /\ j \in 0..15
    BY RestOfReturns DEF IsNewPoint
  <2>2. b[start.returns + 1] = 16 * i + j
    BY <1>1 DEF IsLayout, b
  <2>3. (16 * i + j) \div 16 = i /\ (16 * i + j) % 16 = j
    <3> HIDE DEF i, j
    <3>. QED BY <2>1
  <2>4. back.extended_return_number = i + r /\ back.extended_number_of_returns = j + n
    BY <1>4, <2>2, <2>3
  <2> HIDE DEF r, n
  <2>. QED BY <2>1, <2>4
<1>7. back.extended_classification = p.extended_classification
  <2>1. b[start.classification + 1] = IF fits THEN 0 ELSE p.extended_classification
    BY <1>1 DEF IsLayout, b
  <2>. QED BY <1>4, <2>1 DEF IsNewPoint, U8
<1>8. /\ back.extended_scanner_channel = p.extended_scanner_channel
      /\ back.extended_classification_flags = p.extended_classification_flags
  <2> DEFINE c == p.extended_scanner_channel
             f == p.extended_classification_flags
  <2>1. b[start.flags + 1] = 2 * c + f \div 8
    BY <1>1 DEF IsLayout, b
  <2>2. c \in 0..3 /\ f \in 0..15 /\ f % 8 = p.flags
    BY DEF IsNewPoint
  <2> HIDE DEF c, f
  <2>3. f \div 8 \in 0..1 /\ f = 8 * (f \div 8) + (f % 8)
    BY <2>2
  <2>4. ((2 * c + f \div 8) \div 2) % 4 = c /\ (2 * c + f \div 8) % 2 = f \div 8
    BY <2>2, <2>3
  <2>. QED BY <1>4, <2>1, <2>2, <2>3, <2>4 DEF c, f
<1>9. nir => back.nir = p.nir
  <2>1. p.nir \in U16 /\ p.nir \in Int
    BY RangeOfU16 DEF IsNewPoint
  <2>. QED BY <1>1, <1>4, <2>1, BytesGot DEF IsLayout, GetU16, b
<1>10. \A i \in 1..s : back.extra_bytes[i] = p.extra_bytes[i]
  BY <1>1, <1>4 DEF b
<1>11. \A f \in {"x", "y", "gps_time", "flags"} \cup NewFields : back[f] = p[f]
  BY <1>3, <1>4, <1>5, <1>6, <1>7, <1>8 DEF NewFields
<1>. QED BY <1>9, <1>10, <1>11 DEF back, l, d

-----------------------------------------------------------------------------
(* Where the values go that the old point types have no field for *)

OldPointNames ==
  {ScanAngle.name, ExtendedReturns.name, Classification.name, FlagsAndChannel.name,
   NIRBand.name}
HasNoOldPoints(attributes) ==
  \A i \in DOMAIN attributes : attributes[i].name \notin OldPointNames
Lacks(attributes, name) == \A i \in DOMAIN attributes : attributes[i].name # name

\* Positions in one list behind another.
LEMMA ElementsOfAttributes ==
  ASSUME NEW s, AreAttributes(s), NEW t, AreAttributes(t)
  PROVE  /\ AreAttributes(s \o t) /\ Len(s \o t) = Len(s) + Len(t)
         /\ DOMAIN (s \o t) = 1..Len(s) + Len(t)
         /\ \A i \in 1..Len(s) + Len(t) :
              (s \o t)[i] = IF i <= Len(s) THEN s[i] ELSE t[i - Len(s)]
         /\ SizeOf(s \o t) = SizeOf(s) + SizeOf(t)
<1>1. PICK A : s \in Seq(A)
  BY AttributesDef
<1>2. PICK B : t \in Seq(B)
  BY AttributesDef
<1>3. s \in Seq(A \cup B) /\ t \in Seq(A \cup B)
  <2>1. /\ \A i \in 1..Len(s) : s[i] \in A \cup B
        /\ \A i \in 1..Len(t) : t[i] \in A \cup B
    BY <1>1, <1>2
  <2>. QED BY <1>1, <1>2, <2>1
<1>4. /\ s \o t \in Seq(A \cup B) /\ Len(s \o t) = Len(s) + Len(t)
      /\ \A i \in 1..Len(s) + Len(t) :
           (s \o t)[i] = IF i <= Len(s) THEN s[i] ELSE t[i - Len(s)]
  BY <1>3, ConcatProperties
<1>5. DOMAIN (s \o t) = 1..Len(s) + Len(t)
  BY <1>4
<1> DEFINE a == [i \in DOMAIN s |-> s[i].size]
           b == [i \in DOMAIN t |-> t[i].size]
           c == [i \in DOMAIN (s \o t) |-> (s \o t)[i].size]
<1>6. /\ a \in Seq(Int) /\ b \in Seq(Int) /\ DOMAIN s = 1..Len(s) /\ DOMAIN t = 1..Len(t)
      /\ Len(s) \in Nat /\ Len(t) \in Nat
  BY AttributesAreSequences
<1>7. c = a \o b
  <2>1. Len(a) = Len(s) /\ Len(b) = Len(t)
    BY <1>6
  <2>2. a \o b \in Seq(Int) /\ DOMAIN (a \o b) = 1..Len(s) + Len(t)
        /\ \A i \in 1..Len(s) + Len(t) :
             (a \o b)[i] = IF i <= Len(s) THEN a[i] ELSE b[i - Len(s)]
    BY <1>6, <2>1, ConcatProperties
  <2>3. ASSUME NEW i \in 1..Len(s) + Len(t) PROVE c[i] = (a \o b)[i]
    <3>1. c[i] = (s \o t)[i].size
      BY <1>5
    <3>2. CASE i <= Len(s)
      <4>1. i \in 1..Len(s)
        BY <1>6, <3>2
      <4>. QED BY <1>4, <1>6, <2>2, <3>1, <3>2, <4>1
    <3>3. CASE ~(i <= Len(s))
      <4>1. i - Len(s) \in 1..Len(t)
        BY <1>6, <3>3
      <4>. QED BY <1>4, <1>6, <2>2, <3>1, <3>3, <4>1
    <3>. QED BY <3>2, <3>3
  <2>4. c = [i \in 1..Len(s) + Len(t) |-> c[i]]
        /\ a \o b = [i \in 1..Len(s) + Len(t) |-> (a \o b)[i]]
    BY <1>5, <2>2, SMTT(30)
  <2> HIDE DEF a, b, c
  <2>. QED BY <2>3, <2>4
<1>8. SizeOf(s \o t) = SizeOf(s) + SizeOf(t)
  <2> HIDE DEF a, b, c
  <2>1. Sum(c) = Sum(a) + Sum(b)
    BY <1>6, <1>7, SumOfConcat
  <2>. QED BY <2>1 DEF SizeOf, a, b, c
<1>9. AreAttributes(s \o t)
  BY AttributesConcat
<1>. QED BY <1>4, <1>5, <1>8, <1>9

\* One attribute.
LEMMA OneAttribute ==
  ASSUME NEW a, a.size \in Nat
  PROVE  AreAttributes(<<a>>) /\ Len(<<a>>) = 1 /\ <<a>>[1] = a /\ SizeOf(<<a>>) = a.size
<1>1. <<a>> \in Seq({a}) /\ \A b \in {a} : b.size \in Nat
  OBVIOUS
<1>2. AreAttributes(<<a>>)
  <2> DEFINE s == <<a>>
  <2>1. s \in Seq({a})
    BY <1>1
  <2> HIDE DEF s
  <2>2. AreAttributes(s)
    BY <1>1, <2>1, AttributesDef
  <2>. QED BY <2>2 DEF s
<1>3. [i \in DOMAIN <<a>> |-> <<a>>[i].size] = <<a.size>>
  OBVIOUS
<1>4. Sum(<<a.size>>) = a.size
  BY SumOfOne
<1>. QED BY <1>2, <1>3, <1>4 DEF SizeOf

\* LASattributer::get_attribute_start(): what is in front of it.
LEMMA StartBehind ==
  ASSUME NEW s, AreAttributes(s), NEW a, a.size \in Nat, NEW t, AreAttributes(t),
         Lacks(s, a.name), Lacks(t, a.name)
  PROVE  StartOf((s \o <<a>>) \o t, a.name) = SizeOf(s)
<1> DEFINE u == (s \o <<a>>) \o t
           n == Len(s)
<1>1. AreAttributes(<<a>>) /\ Len(<<a>>) = 1 /\ <<a>>[1] = a
  BY OneAttribute
<1>2. /\ n \in Nat /\ Len(t) \in Nat /\ DOMAIN s = 1..n /\ DOMAIN t = 1..Len(t)
  BY AttributesAreSequences
<1>3. /\ AreAttributes(s \o <<a>>) /\ Len(s \o <<a>>) = n + 1
      /\ \A i \in 1..n + 1 : (s \o <<a>>)[i] = IF i <= n THEN s[i] ELSE <<a>>[i - n]
  BY <1>1, ElementsOfAttributes
<1>4. /\ AreAttributes(u) /\ DOMAIN u = 1..n + 1 + Len(t)
      /\ \A i \in 1..n + 1 + Len(t) :
           u[i] = IF i <= n + 1 THEN (s \o <<a>>)[i] ELSE t[i - (n + 1)]
  BY <1>3, ElementsOfAttributes
<1> HIDE DEF u, n
<1>5. u[n + 1] = a
  BY <1>1, <1>2, <1>3, <1>4
<1>6. ASSUME NEW i \in 1..n + 1 + Len(t), i # n + 1 PROVE u[i].name # a.name
  <2>1. CASE i <= n
    BY <1>2, <1>3, <1>4, <2>1 DEF Lacks
  <2>2. CASE ~(i <= n)
    <3>1. i - (n + 1) \in 1..Len(t)
      BY <1>2, <1>6, <2>2
    <3>. QED BY <1>2, <1>4, <1>6, <2>2, <3>1, SMTT(30) DEF Lacks
  <2>. QED BY <2>1, <2>2
<1>7. IndicesOf(u, a.name) = {n + 1}
  BY <1>2, <1>4, <1>5, <1>6 DEF IndicesOf
<1>8. Min({n + 1}) = n + 1
  <2>1. {n + 1} \subseteq Nat /\ n + 1 \in {n + 1} /\ \A k \in {n + 1} : n + 1 <= k
    BY <1>2
  <2>. QED BY <2>1, MinIs
<1>9. SubSeq(u, 1, n) = s
  <2>1. PICK A : u \in Seq(A)
    BY <1>4, AttributesDef
  <2>2. PICK B : s \in Seq(B)
    BY AttributesDef
  <2>3. Len(u) = n + 1 + Len(t)
    BY <1>2, <1>4, <2>1
  <2>4. \A i \in 1..n : u[i] = s[i]
    BY <1>2, <1>3, <1>4
  <2>. QED BY <1>2, <2>1, <2>2, <2>3, <2>4 DEF n
<1>10. Min(IndicesOf(u, a.name)) = n + 1 /\ IndicesOf(u, a.name) # {}
  BY <1>7, <1>8
<1>11. StartOf(u, a.name) = SizeOf(SubSeq(u, 1, n))
  <2>1. n + 1 - 1 = n
    BY <1>2
  <2>2. StartOf(u, a.name) = SizeOf(SubSeq(u, 1, Min(IndicesOf(u, a.name)) - 1))
    BY <1>10, Zenon DEF StartOf
  <2>3. Min(IndicesOf(u, a.name)) - 1 = n
    <3> DEFINE m == Min(IndicesOf(u, a.name))
    <3>1. m = n + 1
      BY <1>10
    <3> HIDE DEF m
    <3>2. m - 1 = n
      BY <1>2, <3>1
    <3>. QED BY <3>2 DEF m
  <2>. QED BY <2>2, <2>3, Zenon
<1>. QED BY <1>9, <1>11 DEF u

\* An attribute that is not there.
LEMMA NoStart ==
  ASSUME NEW s, NEW name, Lacks(s, name)
  PROVE  StartOf(s, name) = -1
BY DEF StartOf, IndicesOf, Lacks

\* One attribute more, at either end.
LEMMA OneMore ==
  ASSUME NEW s, AreAttributes(s), NEW a, a.size \in Nat
  PROVE  /\ AreAttributes(s \o <<a>>) /\ SizeOf(s \o <<a>>) = SizeOf(s) + a.size
         /\ AreAttributes(<<a>> \o s)
         /\ \A name : (Lacks(s, name) /\ a.name # name) =>
              Lacks(s \o <<a>>, name) /\ Lacks(<<a>> \o s, name)
<1>1. AreAttributes(<<a>>) /\ Len(<<a>>) = 1 /\ <<a>>[1] = a /\ SizeOf(<<a>>) = a.size
  BY OneAttribute
<1>2. Len(s) \in Nat /\ DOMAIN s = 1..Len(s)
  BY AttributesAreSequences
<1> DEFINE one == <<a>>
<1>3. AreAttributes(one) /\ Len(one) = 1 /\ SizeOf(one) = a.size /\ one[1] = a
  BY <1>1
<1> HIDE DEF one
<1>4. /\ AreAttributes(s \o one) /\ DOMAIN (s \o one) = 1..Len(s) + 1
      /\ \A i \in 1..Len(s) + 1 :
           (s \o one)[i] = IF i <= Len(s) THEN s[i] ELSE one[i - Len(s)]
      /\ SizeOf(s \o one) = SizeOf(s) + a.size
  BY <1>3, ElementsOfAttributes
<1>5. /\ AreAttributes(one \o s) /\ DOMAIN (one \o s) = 1..1 + Len(s)
      /\ \A i \in 1..1 + Len(s) : (one \o s)[i] = IF i <= 1 THEN one[i] ELSE s[i - 1]
  <2>1. /\ AreAttributes(one \o s) /\ DOMAIN (one \o s) = 1..Len(one) + Len(s)
        /\ \A i \in 1..Len(one) + Len(s) :
             (one \o s)[i] = IF i <= Len(one) THEN one[i] ELSE s[i - Len(one)]
    <3> DEFINE u == one
    <3>1. AreAttributes(u)
      BY <1>3
    <3> HIDE DEF u
    <3>2. /\ AreAttributes(u \o s) /\ DOMAIN (u \o s) = 1..Len(u) + Len(s)
          /\ \A i \in 1..Len(u) + Len(s) :
               (u \o s)[i] = IF i <= Len(u) THEN u[i] ELSE s[i - Len(u)]
      BY <3>1, ElementsOfAttributes
    <3>. QED BY <3>2 DEF u
  <2>. QED BY <1>3, <2>1
<1>6. ASSUME NEW name, Lacks(s, name), a.name # name
      PROVE  Lacks(s \o one, name) /\ Lacks(one \o s, name)
  <2>1. ASSUME NEW i \in 1..Len(s) + 1 PROVE (s \o one)[i].name # name
    <3>1. CASE i <= Len(s)
      BY <1>2, <1>4, <1>6, <3>1 DEF Lacks
    <3>2. CASE ~(i <= Len(s))
      <4>1. i - Len(s) = 1
        BY <1>2, <3>2
      <4>. QED BY <1>3, <1>4, <1>6, <3>2, <4>1
    <3>. QED BY <3>1, <3>2
  <2>2. ASSUME NEW i \in 1..1 + Len(s) PROVE (one \o s)[i].name # name
    <3>1. CASE i <= 1
      BY <1>3, <1>5, <1>6, <3>1
    <3>2. CASE ~(i <= 1)
      <4>1. i - 1 \in 1..Len(s)
        BY <1>2, <3>2
      <4>. QED BY <1>2, <1>5, <1>6, <3>2, <4>1 DEF Lacks
    <3>. QED BY <3>1, <3>2
  <2>. QED BY <1>4, <1>5, <2>1, <2>2 DEF Lacks
<1>. QED BY <1>4, <1>5, <1>6 DEF one

\* The extra bytes that a point has anyway, and those behind them.
LEMMA StartsOfOldPoints ==
  ASSUME NEW s, AreAttributes(s), HasNoOldPoints(s), NEW format
  PROVE  IsLayout(Starts(ForOldPoints(s, format)), SizeOf(s), format \in {8, 10})
<1> DEFINE A == ScanAngle
           R == ExtendedReturns
           C == Classification
           F == FlagsAndChannel
           N == NIRBand
           t4 == IF format \in {8, 10} THEN <<N>> ELSE <<>>
           t3 == <<F>> \o t4
           t2 == <<C>> \o t3
           t1 == <<R>> \o t2
           s1 == s \o <<A>>
           s2 == s1 \o <<R>>
           s3 == s2 \o <<C>>
           s4 == s3 \o <<F>>
           all == ForOldPoints(s, format)
           n == SizeOf(s)
<1>1. /\ A.size = 2 /\ R.size = 1 /\ C.size = 1 /\ F.size = 1 /\ N.size = 2
  BY DEF ScanAngle, ExtendedReturns, Classification, FlagsAndChannel, NIRBand
<1>2. /\ A.name # R.name /\ A.name # C.name /\ A.name # F.name /\ A.name # N.name
      /\ R.name # C.name /\ R.name # F.name /\ R.name # N.name
      /\ C.name # F.name /\ C.name # N.name /\ F.name # N.name
  BY DEF ScanAngle, ExtendedReturns, Classification, FlagsAndChannel, NIRBand
<1>3. /\ Lacks(s, A.name) /\ Lacks(s, R.name) /\ Lacks(s, C.name) /\ Lacks(s, F.name)
      /\ Lacks(s, N.name)
  BY DEF HasNoOldPoints, OldPointNames, Lacks
<1>4. all = s1 \o t1 /\ all = s2 \o t2 /\ all = s3 \o t3 /\ all = s4 \o t4
  <2>1. PICK S : s \in Seq(S)
    BY AttributesDef
  <2> DEFINE T == S \cup {A, R, C, F, N}
  <2>2. s \in Seq(T)
    <3>1. \A i \in 1..Len(s) : s[i] \in T
      BY <2>1
    <3> HIDE DEF T
    <3>. QED BY <2>1, <3>1
  <2>3. A \in T /\ R \in T /\ C \in T /\ F \in T /\ N \in T
    OBVIOUS
  <2> HIDE DEF T, A, R, C, F, N
  <2>4. t4 \in Seq(T)
    <3>1. <<N>> \in Seq(T) /\ <<>> \in Seq(T)
      BY <2>3
    <3>. QED BY <3>1
  <2> HIDE DEF t4
  <2>5. all = (s \o <<A, R, C, F>>) \o t4
    BY DEF ForOldPoints, t4, A, R, C, F, N
  <2> DEFINE Cat(u, v) == u \o v
             four == <<A, R, C, F>>
             a == <<A>>
             r == <<R>>
             c == <<C>>
             f == <<F>>
  <2>6. a \in Seq(T) /\ r \in Seq(T) /\ c \in Seq(T) /\ f \in Seq(T)
    BY <2>3
  <2>7. four = Cat(Cat(Cat(a, r), c), f)
    <3>1. /\ <<A>> \in Seq(T) /\ <<A, R>> \in Seq(T) /\ <<A, R, C>> \in Seq(T)
          /\ <<A, R>> = Append(<<A>>, R) /\ <<A, R, C>> = Append(<<A, R>>, C)
          /\ <<A, R, C, F>> = Append(<<A, R, C>>, F)
      BY <2>3
    <3>2. \A u \in Seq(T), e \in T : Append(u, e) = u \o <<e>>
      BY AppendIsConcat
    <3>3. <<A, R>> = <<A>> \o <<R>>
      BY <2>3, <3>1, <3>2, Zenon
    <3>4. <<A, R, C>> = <<A, R>> \o <<C>>
      BY <2>3, <3>1, <3>2, Zenon
    <3>5. <<A, R, C, F>> = <<A, R, C>> \o <<F>>
      BY <2>3, <3>1, <3>2, Zenon
    <3>. QED BY <3>3, <3>4, <3>5, Zenon
  <2>8. /\ \A u, v \in Seq(T) : Cat(u, v) \in Seq(T)
        /\ \A u, v, w \in Seq(T) : Cat(Cat(u, v), w) = Cat(u, Cat(v, w))
    <3>1. \A u, v \in Seq(T) : u \o v \in Seq(T)
      OBVIOUS
    <3>2. \A u, v, w \in Seq(T) : (u \o v) \o w = u \o (v \o w)
      OBVIOUS
    <3>. QED BY <3>1, <3>2
  <2>9. all = Cat(Cat(s, four), t4)
    BY <2>5
  <2> HIDE DEF all, a, r, c, f, four, Cat
  <2>10. /\ Cat(s, a) \in Seq(T) /\ Cat(Cat(s, a), r) \in Seq(T)
         /\ Cat(Cat(Cat(s, a), r), c) \in Seq(T)
         /\ Cat(f, t4) \in Seq(T) /\ Cat(c, Cat(f, t4)) \in Seq(T)
         /\ Cat(r, Cat(c, Cat(f, t4))) \in Seq(T)
         /\ Cat(a, r) \in Seq(T) /\ Cat(Cat(a, r), c) \in Seq(T) /\ four \in Seq(T)
    BY <2>2, <2>4, <2>6, <2>7, <2>8
  <2>11. all = Cat(Cat(Cat(Cat(Cat(s, a), r), c), f), t4)
    <3>1. Cat(s, four) = Cat(Cat(s, Cat(Cat(a, r), c)), f)
      BY <2>2, <2>6, <2>7, <2>8, <2>10
    <3>2. Cat(s, Cat(Cat(a, r), c)) = Cat(Cat(s, Cat(a, r)), c)
      BY <2>2, <2>6, <2>8, <2>10
    <3>3. Cat(s, Cat(a, r)) = Cat(Cat(s, a), r)
      BY <2>2, <2>6, <2>8, <2>10
    <3>. QED BY <2>9, <3>1, <3>2, <3>3
  <2>12. all = Cat(Cat(Cat(Cat(s, a), r), c), Cat(f, t4))
    BY <2>4, <2>6, <2>8, <2>10, <2>11
  <2>13. all = Cat(Cat(Cat(s, a), r), Cat(c, Cat(f, t4)))
    BY <2>4, <2>6, <2>8, <2>10, <2>12
  <2>14. all = Cat(Cat(s, a), Cat(r, Cat(c, Cat(f, t4))))
    BY <2>4, <2>6, <2>8, <2>10, <2>13
  <2>. QED BY <2>11, <2>12, <2>13, <2>14 DEF Cat, a, r, c, f
<1> HIDE DEF A, R, C, F, N, all
<1>5. /\ AreAttributes(t4) /\ Lacks(t4, R.name) /\ Lacks(t4, C.name) /\ Lacks(t4, F.name)
      /\ Lacks(t4, A.name)
  <2>1. AreAttributes(<<>>) /\ \A name : Lacks(<<>>, name)
    <3>1. <<>> \in Seq({}) /\ DOMAIN <<>> = {}
      OBVIOUS
    <3>2. AreAttributes(<<>>)
      <4> DEFINE none == <<>>
      <4>1. none \in Seq({}) /\ \A a \in {} : a.size \in Nat
        BY <3>1
      <4> HIDE DEF none
      <4>2. AreAttributes(none)
        BY <4>1, AttributesDef
      <4>. QED BY <4>2 DEF none
    <3>. QED BY <3>1, <3>2 DEF Lacks
  <2>2. AreAttributes(<<N>>)
    BY <1>1, OneAttribute
  <2>3. ASSUME NEW name, N.name # name PROVE Lacks(<<N>>, name)
    BY <2>3 DEF Lacks
  <2>4. \/ t4 = <<N>>
        \/ t4 = <<>>
    OBVIOUS
  <2> HIDE DEF t4
  <2>. QED BY <1>2, <2>1, <2>2, <2>3, <2>4
<1> HIDE DEF t4
<1>6. AreAttributes(t3) /\ Lacks(t3, C.name) /\ Lacks(t3, R.name) /\ Lacks(t3, A.name)
  BY <1>1, <1>2, <1>5, OneMore
<1> HIDE DEF t3
<1>7. AreAttributes(t2) /\ Lacks(t2, R.name) /\ Lacks(t2, A.name)
  BY <1>1, <1>2, <1>6, OneMore
<1> HIDE DEF t2
<1>8. AreAttributes(t1) /\ Lacks(t1, A.name)
  BY <1>1, <1>2, <1>7, OneMore
<1> HIDE DEF t1
<1>9. n \in Int
  BY AttributesAreSequences
<1>10. /\ AreAttributes(s1) /\ SizeOf(s1) = n + 2
       /\ Lacks(s1, R.name) /\ Lacks(s1, C.name) /\ Lacks(s1, F.name) /\ Lacks(s1, N.name)
  BY <1>1, <1>2, <1>3, OneMore
<1>11. /\ AreAttributes(s2) /\ SizeOf(s2) = n + 3
       /\ Lacks(s2, C.name) /\ Lacks(s2, F.name) /\ Lacks(s2, N.name)
  <2> HIDE DEF s1, n
  <2>1. SizeOf(s2) = (n + 2) + 1 /\ AreAttributes(s2)
    BY <1>1, <1>10, OneMore
  <2>2. Lacks(s2, C.name) /\ Lacks(s2, F.name) /\ Lacks(s2, N.name)
    BY <1>1, <1>2, <1>10, OneMore
  <2> HIDE DEF s2
  <2>. QED BY <1>9, <2>1, <2>2
<1>12. /\ AreAttributes(s3) /\ SizeOf(s3) = n + 4 /\ Lacks(s3, F.name) /\ Lacks(s3, N.name)
  <2> HIDE DEF s2, n
  <2>1. SizeOf(s3) = (n + 3) + 1 /\ AreAttributes(s3)
    BY <1>1, <1>11, OneMore
  <2>2. Lacks(s3, F.name) /\ Lacks(s3, N.name)
    BY <1>1, <1>2, <1>11, OneMore
  <2> HIDE DEF s3
  <2>. QED BY <1>9, <2>1, <2>2
<1>13. AreAttributes(s4) /\ SizeOf(s4) = n + 5 /\ Lacks(s4, N.name)
  <2> HIDE DEF s3, n
  <2>1. SizeOf(s4) = (n + 4) + 1 /\ AreAttributes(s4)
    BY <1>1, <1>12, OneMore
  <2>2. Lacks(s4, N.name)
    BY <1>1, <1>2, <1>12, OneMore
  <2> HIDE DEF s4
  <2>. QED BY <1>9, <2>1, <2>2
<1>14. StartOf(all, A.name) = n
  <2>1. StartOf((s \o <<A>>) \o t1, A.name) = SizeOf(s)
    BY <1>1, <1>3, <1>8, StartBehind
  <2>. QED BY <1>4, <2>1
<1>15. StartOf(all, R.name) = n + 2
  <2> HIDE DEF s1
  <2>1. StartOf((s1 \o <<R>>) \o t2, R.name) = SizeOf(s1)
    BY <1>1, <1>7, <1>10, StartBehind
  <2>. QED BY <1>4, <1>10, <2>1
<1>16. StartOf(all, C.name) = n + 3
  <2> HIDE DEF s2
  <2>1. StartOf((s2 \o <<C>>) \o t3, C.name) = SizeOf(s2)
    BY <1>1, <1>6, <1>11, StartBehind
  <2>. QED BY <1>4, <1>11, <2>1
<1>17. StartOf(all, F.name) = n + 4
  <2> HIDE DEF s3
  <2>1. StartOf((s3 \o <<F>>) \o t4, F.name) = SizeOf(s3)
    BY <1>1, <1>5, <1>12, StartBehind
  <2>. QED BY <1>4, <1>12, <2>1
<1>18. StartOf(all, N.name) = IF format \in {8, 10} THEN n + 5 ELSE -1
  <2> HIDE DEF s4
  <2>1. PICK S : s4 \in Seq(S)
    BY <1>13, AttributesDef
  <2>2. CASE format \in {8, 10}
    <3>1. (s4 \o <<N>>) \o <<>> = s4 \o <<N>>
      <4>1. s4 \o <<N>> \in Seq(S \cup {N})
        <5>1. \A i \in 1..Len(s4) : s4[i] \in S \cup {N}
          BY <2>1
        <5>2. s4 \in Seq(S \cup {N}) /\ <<N>> \in Seq(S \cup {N})
          BY <2>1, <5>1
        <5>. QED BY <5>2
      <4> DEFINE u == s4 \o <<N>>
      <4> HIDE DEF u
      <4>2. u \o <<>> = u
        BY <4>1, ConcatEmptySeq DEF u
      <4>. QED BY <4>2 DEF u
    <3>2. AreAttributes(<<>>) /\ Lacks(<<>>, N.name)
      <4> DEFINE none == <<>>
      <4>1. none \in Seq({}) /\ (\A a \in {} : a.size \in Nat) /\ DOMAIN none = {}
        OBVIOUS
      <4> HIDE DEF none
      <4>2. AreAttributes(none) /\ Lacks(none, N.name)
        BY <4>1, AttributesDef DEF Lacks
      <4>. QED BY <4>2 DEF none
    <3>3. StartOf((s4 \o <<N>>) \o <<>>, N.name) = SizeOf(s4)
      <4> DEFINE none == <<>>
      <4>1. AreAttributes(none) /\ Lacks(none, N.name)
        BY <3>2
      <4> HIDE DEF none
      <4>2. StartOf((s4 \o <<N>>) \o none, N.name) = SizeOf(s4)
        BY <1>1, <1>13, <4>1, StartBehind
      <4>. QED BY <4>2 DEF none
    <3>4. all = s4 \o <<N>>
      BY <1>4, <2>2 DEF t4
    <3>. QED BY <1>13, <2>2, <3>1, <3>3, <3>4
  <2>3. CASE format \notin {8, 10}
    <3>1. t4 = <<>>
      BY <2>3 DEF t4
    <3>2. all = s4
      BY <1>4, <2>1, <3>1, ConcatEmptySeq
    <3>3. StartOf(s4, N.name) = -1
      BY <1>13, NoStart
    <3>. QED BY <2>3, <3>2, <3>3
  <2>. QED BY <2>2, <2>3
<1> HIDE DEF n
<1>. QED BY <1>14, <1>15, <1>16, <1>17, <1>18 DEF Starts, IsLayout, all, n, A, R, C, F, N

\* A sum of natural numbers is one.
LEMMA SumOfNaturals ==
  ASSUME NEW s \in Seq(Nat)
  PROVE  Sum(s) \in Nat
<1>1. s \in Seq(Int) /\ Len(s) \in Nat /\ \A i \in 1..Len(s) : s[i] \in Nat
  OBVIOUS
<1> DEFINE f == PartialSums(s)
           S == {n \in Nat : n <= Len(s) => f[n] \in Nat}
<1>2. /\ f[0] = 0 /\ \A n \in 1..Len(s) : f[n] = f[n-1] + s[n]
      /\ Sum(s) = f[Len(s)]
  BY <1>1, PartialSumsProperties
<1> HIDE DEF f
<1>3. 0 \in S
  BY <1>2
<1>4. ASSUME NEW n \in Nat, n \in S PROVE n + 1 \in S
  <2>1. SUFFICES ASSUME n + 1 <= Len(s) PROVE f[n + 1] \in Nat
    OBVIOUS
  <2>2. n + 1 \in 1..Len(s) /\ n <= Len(s) /\ n + 1 - 1 = n
    BY <1>1, <2>1
  <2>3. f[n] \in Nat
    BY <1>4, <2>2
  <2>4. f[n + 1] = f[n] + s[n + 1] /\ s[n + 1] \in Nat
    BY <1>1, <1>2, <2>2
  <2>. QED BY <2>3, <2>4
<1>5. \A n \in Nat : n \in S
  <2> HIDE DEF S
  <2>. QED BY <1>3, <1>4, NaturalInduction
<1>. QED BY <1>1, <1>2, <1>5

\* A sum of ones is their number.
LEMMA SumOfOnes ==
  ASSUME NEW k \in Nat
  PROVE  Sum([i \in 1..k |-> 1]) = k
<1> DEFINE s == [i \in 1..k |-> 1]
           f == PartialSums(s)
           S == {n \in Nat : n <= k => f[n] = n}
<1>1. s \in Seq(Int) /\ Len(s) = k /\ \A i \in 1..k : s[i] = 1
  OBVIOUS
<1> HIDE DEF s
<1>2. /\ f[0] = 0 /\ \A n \in 1..k : f[n] = f[n-1] + s[n]
      /\ Sum(s) = f[k]
  BY <1>1, PartialSumsProperties
<1> HIDE DEF f
<1>3. 0 \in S
  BY <1>2
<1>4. ASSUME NEW n \in Nat, n \in S PROVE n + 1 \in S
  <2>1. SUFFICES ASSUME n + 1 <= k PROVE f[n + 1] = n + 1
    OBVIOUS
  <2>2. n + 1 \in 1..k /\ n <= k /\ n + 1 - 1 = n
    BY <1>1, <2>1
  <2>3. f[n] = n
    BY <1>4, <2>2
  <2>4. f[n + 1] = f[n] + 1
    BY <1>1, <1>2, <2>2
  <2>. QED BY <2>3, <2>4
<1>5. \A n \in Nat : n \in S
  <2> HIDE DEF S
  <2>. QED BY <1>3, <1>4, NaturalInduction
<1>. QED BY <1>1, <1>2, <1>5 DEF s

\* LASattributer::get_attributes_size() is a number.
LEMMA SizeOfIsNatural ==
  ASSUME NEW s, AreAttributes(s)
  PROVE  SizeOf(s) \in Nat
<1> DEFINE t == [i \in DOMAIN s |-> s[i].size]
<1>1. Len(s) \in Nat /\ DOMAIN s = 1..Len(s) /\ \A i \in DOMAIN s : s[i].size \in Nat
  BY AttributesAreSequences
<1>2. t \in Seq(Nat)
  <2>1. t \in [1..Len(s) -> Nat]
    BY <1>1
  <2>. QED BY <1>1, <2>1
<1> HIDE DEF t
<1>3. Sum(t) \in Nat
  BY <1>2, SumOfNaturals
<1>. QED BY <1>3 DEF SizeOf, t

\* As many attributes of one byte as are missing.
LEMMA Unknown ==
  ASSUME NEW k \in Nat
  PROVE  LET s == [i \in 1..k |-> [name |-> "unknown", size |-> 1]] IN
         AreAttributes(s) /\ SizeOf(s) = k /\ HasNoOldPoints(s)
<1> DEFINE a == [name |-> "unknown", size |-> 1]
           s == [i \in 1..k |-> a]
<1>1. DOMAIN s = 1..k /\ (\A i \in 1..k : s[i] = a) /\ s \in Seq({a}) /\ a.size = 1
  OBVIOUS
<1>2. AreAttributes(s)
  <2>1. \A b \in {a} : b.size \in Nat
    BY <1>1
  <2> HIDE DEF s, a
  <2>. QED BY <1>1, <2>1, AttributesDef
<1>3. SizeOf(s) = k
  <2>1. [i \in DOMAIN s |-> s[i].size] = [i \in 1..k |-> 1]
    BY <1>1
  <2>2. Sum([i \in 1..k |-> 1]) = k
    BY SumOfOnes
  <2> HIDE DEF s
  <2>3. SizeOf(s) = Sum([i \in 1..k |-> 1])
    BY <2>1 DEF SizeOf
  <2>. QED BY <2>2, <2>3
<1>4. a.name \notin OldPointNames
  BY DEF OldPointNames, ScanAngle, ExtendedReturns, Classification, FlagsAndChannel, NIRBand
<1>5. HasNoOldPoints(s)
  <2> HIDE DEF a
  <2>. QED BY <1>1, <1>4 DEF HasNoOldPoints
<1>. QED BY <1>2, <1>3, <1>5

\* No attribute of an old point in two lists, none in both of them together.
LEMMA NoOldPointsInBoth ==
  ASSUME NEW s, AreAttributes(s), NEW t, AreAttributes(t), HasNoOldPoints(s), HasNoOldPoints(t)
  PROVE  HasNoOldPoints(s \o t)
<1>1. /\ DOMAIN (s \o t) = 1..Len(s) + Len(t)
      /\ \A i \in 1..Len(s) + Len(t) :
           (s \o t)[i] = IF i <= Len(s) THEN s[i] ELSE t[i - Len(s)]
  BY ElementsOfAttributes
<1>2. /\ Len(s) \in Nat /\ Len(t) \in Nat /\ DOMAIN s = 1..Len(s) /\ DOMAIN t = 1..Len(t)
  BY AttributesAreSequences
<1>3. ASSUME NEW i \in 1..Len(s) + Len(t) PROVE (s \o t)[i].name \notin OldPointNames
  <2>1. CASE i <= Len(s)
    BY <1>1, <1>2, <2>1 DEF HasNoOldPoints
  <2>2. CASE ~(i <= Len(s))
    <3>1. i - Len(s) \in 1..Len(t)
      BY <1>2, <2>2
    <3>. QED BY <1>1, <1>2, <2>2, <3>1 DEF HasNoOldPoints
  <2>. QED BY <2>1, <2>2
<1>. QED BY <1>1, <1>3 DEF HasNoOldPoints

\* Attributes that describe no more than there is, nor what is to come, do so
\* completely afterwards.
Describes(attributes, existing) == SizeOf(attributes) <= existing /\ HasNoOldPoints(attributes)

\* Described() fills up the list of attributes to the extra bytes there are.
LEMMA DescribedBytes ==
  ASSUME NEW h, AreVlrs(h.vlrs), NEW attributes, AreAttributes(attributes), NEW existing \in Nat,
         Describes(attributes, existing),
         HasVlr(h, ExtraBytesVLR) => Describes(Vlr(h, ExtraBytesVLR).data, existing)
  PROVE  LET s == Described(attributes, h, existing) IN
         AreAttributes(s) /\ SizeOf(s) = existing /\ HasNoOldPoints(s)
<1> DEFINE s == Described(attributes, h, existing)
           known == IF HasVlr(h, ExtraBytesVLR) THEN Vlr(h, ExtraBytesVLR).data ELSE attributes
           k == existing - SizeOf(known)
           rest == [i \in 1..Max({0, k}) |-> [name |-> "unknown", size |-> 1]]
<1>1. CASE existing = 0 \/ SizeOf(attributes) >= existing
  <2>1. s = attributes
    BY <1>1 DEF Described
  <2>2. SizeOf(attributes) \in Nat /\ SizeOf(attributes) <= existing
    BY SizeOfIsNatural DEF Describes
  <2>. QED BY <1>1, <2>1, <2>2 DEF Describes
<1>2. CASE ~(existing = 0 \/ SizeOf(attributes) >= existing)
  <2>1. s = known \o rest
    BY <1>2 DEF Described
  <2>2. AreAttributes(known) /\ Describes(known, existing)
    <3>1. HasVlr(h, ExtraBytesVLR) =>
            IsVlr(Vlr(h, ExtraBytesVLR)) /\ Vlr(h, ExtraBytesVLR).id = ExtraBytesVLR
      BY VlrThatIsThere
    <3>. QED BY <3>1 DEF IsVlr
  <2> HIDE DEF known, s
  <2>3. k \in Nat /\ SizeOf(known) \in Nat
    BY <2>2, SizeOfIsNatural DEF Describes
  <2>4. Max({0, k}) = k
    <3>1. ASSUME NEW j \in Nat PROVE Max({0, j}) = j
      BY MinMaxOfTwo
    <3> HIDE DEF k
    <3>. QED BY <2>3, <3>1
  <2>5. AreAttributes(rest) /\ SizeOf(rest) = k /\ HasNoOldPoints(rest)
    BY <2>3, <2>4, Unknown
  <2> HIDE DEF rest
  <2>6. AreAttributes(known \o rest) /\ SizeOf(known \o rest) = SizeOf(known) + SizeOf(rest)
    BY <2>2, <2>5, ElementsOfAttributes
  <2>7. HasNoOldPoints(known \o rest)
    BY <2>2, <2>5, NoOldPointsInBoth DEF Describes
  <2>. QED BY <2>1, <2>3, <2>5, <2>6, <2>7 DEF s
<1>. QED BY <1>1, <1>2

-----------------------------------------------------------------------------
(* VLRs that are put in, and the others *)

\* What laszip_add_vlr() puts in is found again, and so is what was there.
LEMMA VlrThatIsPutIn ==
  ASSUME NEW h, IsHeader(h), NEW id, NEW length, NEW data
  PROVE  LET g == WithVlr(h, id, length, data) IN
         /\ HasVlr(g, id) /\ Vlr(g, id) = [id |-> id, length |-> length, data |-> data]
         /\ \A other : other # id =>
              /\ HasVlr(g, other) <=> HasVlr(h, other)
              /\ HasVlr(h, other) => Vlr(g, other) = Vlr(h, other)
<1> DEFINE g == WithVlr(h, id, length, data)
           vlr == [id |-> id, length |-> length, data |-> data]
           n == Len(h.vlrs)
<1>1. n \in Nat /\ DOMAIN h.vlrs = 1..n /\ AreVlrs(h.vlrs)
  BY VlrsAreSequences DEF IsHeader
<1>2. DOMAIN h = HeaderFields /\ vlr.id = id
  BY DEF IsHeader
<1>3. CASE HasVlr(h, id)
  <2> DEFINE i == Min(Where(h, id))
  <2>1. i \in 1..n /\ h.vlrs[i].id = id /\ \A k \in Where(h, id) : i <= k
    <3>1. Where(h, id) \subseteq Nat /\ Where(h, id) # {}
      BY <1>1, <1>3 DEF Where, HasVlr
    <3>2. i \in Where(h, id) /\ \A k \in Where(h, id) : i <= k
      BY <3>1, MinOfNaturals
    <3>. QED BY <1>1, <3>2 DEF Where
  <2>2. g.vlrs = [h.vlrs EXCEPT ![i] = vlr]
    BY <1>2, <1>3 DEF WithVlr, HeaderFields
  <2> HIDE DEF g, i, vlr
  <2>3. /\ DOMAIN g.vlrs = 1..n /\ g.vlrs[i] = vlr
        /\ \A k \in 1..n : k # i => g.vlrs[k] = h.vlrs[k]
    BY <1>1, <2>1, <2>2
  <2>4. \A other : Where(g, other) = Where(h, other)
    BY <1>1, <1>2, <2>1, <2>3 DEF Where
  <2>5. Vlr(g, id) = vlr
    BY <2>3, <2>4 DEF Vlr, i
  <2>6. ASSUME NEW other, other # id, HasVlr(h, other) PROVE Vlr(g, other) = Vlr(h, other)
    <3>1. Where(h, other) \subseteq Nat /\ Where(h, other) # {}
      BY <1>1, <2>6 DEF Where, HasVlr
    <3>2. Min(Where(h, other)) \in Where(h, other)
      BY <3>1, MinOfNaturals
    <3> DEFINE k == Min(Where(h, other))
    <3>3. k \in 1..n /\ h.vlrs[k].id = other
      BY <1>1, <3>2 DEF Where
    <3>4. g.vlrs[k] = h.vlrs[k]
      <4> HIDE DEF k
      <4>. QED BY <2>1, <2>3, <2>6, <3>3
    <3>. QED BY <2>4, <3>4 DEF Vlr
  <2>. QED BY <1>3, <2>4, <2>5, <2>6 DEF HasVlr, g, vlr
<1>4. CASE ~HasVlr(h, id)
  <2>1. g.vlrs = Append(h.vlrs, vlr)
    BY <1>2, <1>4 DEF WithVlr, HeaderFields
  <2>2. PICK V : h.vlrs \in Seq(V)
    BY <1>1, VlrsDef
  <2> HIDE DEF g, vlr
  <2>3. /\ DOMAIN g.vlrs = 1..n + 1 /\ g.vlrs[n + 1] = vlr
        /\ \A k \in 1..n : g.vlrs[k] = h.vlrs[k]
    BY <1>1, <2>1, <2>2
  <2>4. Where(h, id) = {}
    BY <1>4 DEF HasVlr
  <2>5. Where(g, id) = {n + 1}
    BY <1>1, <1>2, <2>3, <2>4 DEF Where
  <2>6. \A other : other # id => Where(g, other) = Where(h, other)
    BY <1>1, <1>2, <2>3 DEF Where
  <2>7. Vlr(g, id) = vlr
    <3>1. {n + 1} \subseteq Nat /\ n + 1 \in {n + 1} /\ \A k \in {n + 1} : n + 1 <= k
      BY <1>1
    <3>2. Min({n + 1}) = n + 1
      <4> HIDE DEF n
      <4>. QED BY <3>1, MinIs
    <3>. QED BY <2>3, <2>5, <3>2 DEF Vlr
  <2>8. ASSUME NEW other, other # id, HasVlr(h, other) PROVE Vlr(g, other) = Vlr(h, other)
    <3>1. Where(h, other) \subseteq Nat /\ Where(h, other) # {}
      BY <1>1, <2>8 DEF Where, HasVlr
    <3>2. Min(Where(h, other)) \in Where(h, other)
      BY <3>1, MinOfNaturals
    <3>3. Min(Where(h, other)) \in 1..n
      BY <1>1, <3>2 DEF Where
    <3>. QED BY <2>3, <2>6, <2>8, <3>3 DEF Vlr
  <2>. QED BY <2>5, <2>6, <2>7, <2>8 DEF HasVlr, g, vlr
<1>. QED BY <1>3, <1>4

-----------------------------------------------------------------------------
(* The room that the item of the extra bytes gives the point *)

\* What is put behind a sequence is its last element.
LEMMA LastOfMore ==
  ASSUME NEW S, NEW s \in Seq(S), NEW x \in S
  PROVE  /\ DOMAIN (s \o <<x>>) = 1..Len(s) + 1 /\ (s \o <<x>>)[Len(s) + 1] = x
         /\ Len(s) \in Nat
OBVIOUS

\* The item of the extra bytes is the last: in compatibility mode it has room for
\* the extra bytes there are and for what the old point type has no fields for.
LEMMA LastItem ==
  ASSUME NEW format \in 6..10, NEW length \in Int, ExtraBytes(format, length) >= 0,
         NEW requested
  PROVE  LET items == WithVersions(Items(format, length, TRUE), requested) IN
         /\ Last(items).type = "BYTE"
         /\ Last(items).size = ExtraBytes(format, length) + (IF HasNir(format) THEN 7 ELSE 5)
<1> DEFINE plain == Items(format, length, TRUE)
           items == WithVersions(plain, requested)
           extra == ExtraOf(format, length, TRUE)
           If(there, type, size) == IF there THEN <<[type |-> type, size |-> size]>> ELSE <<>>
           p == If(TRUE, "POINT10", 20)
           g == If(TRUE, "GPSTIME11", 8)
           c == If(HasRgb(format), "RGB12", 6)
           w == If(HasWave(format), "WAVEPACKET13", 29)
           item == [type |-> "BYTE", size |-> extra]
           b == <<item>>
           S == {[type |-> t, size |-> k] : t \in {"POINT10", "GPSTIME11", "RGB12", "WAVEPACKET13", "BYTE"},
                                            k \in Int}
<1>1. extra = ExtraBytes(format, length) + (IF HasNir(format) THEN 7 ELSE 5) /\ extra \in Nat
      /\ extra > 0
  <2>1. \A k \in Int : Max({k, 0}) = IF k >= 0 THEN k ELSE 0
    BY DEF Max
  <2>2. ExtraBytes(format, length) \in Int
    BY DEF ExtraBytes, PointSize
  <2>3. Max({ExtraBytes(format, length), 0}) = ExtraBytes(format, length)
    BY <2>1, <2>2
  <2>4. extra = ExtraBytes(format, length) + (IF HasNir(format) THEN 7 ELSE 5)
    BY <2>3 DEF ExtraOf
  <2> HIDE DEF extra
  <2>. QED BY <2>2, <2>4
<1>2. plain = p \o g \o c \o w \o b
  <2>1. ~Is14(format, TRUE)
    BY DEF Is14
  <2>2. plain = If(TRUE, "POINT10", 20)
                \o If(~(format > 5 /\ ~TRUE) /\ format \notin {0, 2}, "GPSTIME11", 8)
                \o If(HasRgb(format), "RGB12", 6) \o If(HasWave(format), "WAVEPACKET13", 29)
                \o If(extra > 0, "BYTE", extra)
    BY DEF Items, HasNir, HasRgb, HasWave, ExtraOf
  <2> HIDE DEF extra, plain
  <2>3. (~(format > 5 /\ ~TRUE) /\ format \notin {0, 2}) = TRUE /\ (extra > 0) = TRUE
    BY <1>1
  <2>. QED BY <2>2, <2>3
<1>3. /\ p \in Seq(S) /\ g \in Seq(S) /\ c \in Seq(S) /\ w \in Seq(S) /\ b \in Seq(S)
      /\ item \in S
  <2> HIDE DEF extra
  <2>1. \A t \in {"POINT10", "GPSTIME11", "RGB12", "WAVEPACKET13", "BYTE"} : \A k \in Int :
          [type |-> t, size |-> k] \in S
    OBVIOUS
  <2> HIDE DEF S
  <2>2. item \in S
    BY <1>1, <2>1
  <2>. QED BY <2>1, <2>2
<1> HIDE DEF p, g, c, w, b, S, plain, extra
<1> DEFINE u == p \o g \o c \o w
<1>4. u \in Seq(S)
  BY <1>3
<1> HIDE DEF u
<1>5. plain = u \o b
  BY <1>2 DEF u
<1>6. DOMAIN plain = 1..Len(u) + 1 /\ plain[Len(u) + 1] = item /\ Len(u) \in Nat
  <2> HIDE DEF item
  <2>. QED BY <1>3, <1>4, <1>5, LastOfMore DEF b
<1> DEFINE n == Len(u) + 1
<1>7. /\ DOMAIN items = 1..n /\ items[n].type = item.type /\ items[n].size = item.size
      /\ n \in Nat /\ items = [i \in 1..n |-> items[i]]
  BY <1>6 DEF WithVersions
<1>8. Last(items) = items[n]
  <2> HIDE DEF items, n
  <2>1. Len(items) = n
    BY <1>7
  <2>. QED BY <2>1 DEF Last
<1>. QED BY <1>1, <1>7, <1>8 DEF items, plain

\* So much room has the point for which points of LAS 1.4 are recoded.
LEMMA RoomForOldPoints ==
  ASSUME NEW d, DOMAIN d = DOMAIN NewDll, DOMAIN d.point = PointFields, NEW compress \in BOOLEAN,
         d.header.format \in 6..10, d.header.length \in Int, d.compat = TRUE,
         Existing(d.header) >= 0
  PROVE  HasRoom(SetupItems(d, WriterItems(d, compress)).point.extra_bytes, Existing(d.header),
                 d.header.format \in {8, 10})
<1> DEFINE format == d.header.format
           length == d.header.length
           n == Existing(d.header) + (IF HasNir(format) THEN 7 ELSE 5)
           items == WriterItems(d, compress)
<1>1. Last(items).type = "BYTE" /\ Last(items).size = n
  <2>1. ExtraBytes(format, length) = Existing(d.header)
    BY DEF Existing
  <2>2. ExtraBytes(format, length) >= 0
    BY <2>1
  <2> HIDE DEF format, length
  <2>3. format \in 6..10 /\ length \in Int
    BY DEF format, length
  <2>4. \A requested : LET s == WithVersions(Items(format, length, TRUE), requested) IN
          Last(s).type = "BYTE" /\ Last(s).size = n
    BY <2>1, <2>2, <2>3, LastItem
  <2>5. items = WithVersions(Items(format, length, TRUE),
               IF compress THEN DefaultVersion(format, d.header.minor) ELSE 0)
    BY DEF WriterItems, format, length
  <2>. QED BY <2>4, <2>5
<1>2. Existing(d.header) \in Nat
  <2>1. Existing(d.header) \in Int
    BY DEF Existing, ExtraBytes, PointSize
  <2>. QED BY <2>1
<1> HIDE DEF items
<1>3. SetupItems(d, items).point.extra_bytes = [i \in 1..n |-> 0]
  BY <1>1 DEF SetupItems, PointFields, NewPoint, NewDll
<1>. QED BY <1>2, <1>3 DEF HasRoom, items, HasNir

-----------------------------------------------------------------------------
(* The header of points that are recoded *)

\* The header of the older version says that there are points of LAS 1.4 in it.
LEMMA DowngradedSaysSo ==
  ASSUME NEW h, IsHeader(h)
  PROVE  LET g == Downgraded(h) IN
         /\ IsHeader(g) /\ g.minor < 4 /\ g.format = h.format
         /\ HasVlr(g, CompatibilityVLR) /\ Vlr(g, CompatibilityVLR).length \in {156, 174}
         /\ HasVlr(g, ExtraBytesVLR) <=> HasVlr(h, ExtraBytesVLR)
         /\ HasVlr(h, ExtraBytesVLR) => Vlr(g, ExtraBytesVLR) = Vlr(h, ExtraBytesVLR)
<1> DEFINE old == IF h.format <= 8 THEN Shortened(h, 2, 148) ELSE Shortened(h, 3, 140)
           count == h.extended.count
           by == [r \in 1..5 |-> h.extended.by[r]]
           recoded == [old EXCEPT !.count = count, !.by = by, !.wkt = FALSE, !.length = @ - 2 + 5]
           length == IF h.minor >= 5 THEN 174 ELSE 156
           data == [version |-> IF h.minor = 5 THEN 4 ELSE 3, extended |-> recoded.extended,
                    gps |-> IF h.minor >= 5 THEN recoded.gps ELSE <<>>]
           g == Downgraded(h)
<1>1. g = WithVlr(recoded, CompatibilityVLR, length, data)
  BY DEF Downgraded, WithCompatibility
<1>2. IsHeader(g) /\ g.format = h.format
  BY DowngradedKeepsSlack
<1>3. /\ IsHeader(old) /\ \A f \in HeaderFields \ {"size", "offset", "minor"} : old[f] = h[f]
  BY ShortenedKeepsSlack
<1>4. old.minor \in {2, 3}
  BY DEF Shortened, IsHeader, HeaderFields
<1> HIDE DEF old, count, by
<1>5. /\ DOMAIN recoded = HeaderFields /\ recoded.length = old.length - 2 + 5
      /\ \A f \in HeaderFields \ {"count", "by", "wkt", "length"} : recoded[f] = old[f]
  BY <1>3 DEF HeaderFields, IsHeader
<1> HIDE DEF recoded, data
<1>6. /\ recoded.vlrs = old.vlrs /\ recoded.minor = old.minor /\ recoded.format = old.format
      /\ recoded.size = old.size /\ recoded.offset = old.offset /\ recoded.after = old.after
      /\ old.vlrs = h.vlrs
  BY <1>3, <1>5 DEF HeaderFields
<1>7. IsHeader(recoded)
  <2>1. recoded.length \in Int
    BY <1>3, <1>5 DEF IsHeader
  <2>. QED BY <1>3, <1>5, <1>6, <2>1 DEF IsHeader
<1> HIDE DEF length
<1> DEFINE new == WithVlr(recoded, CompatibilityVLR, length, data)
<1>8. /\ HasVlr(new, CompatibilityVLR)
      /\ Vlr(new, CompatibilityVLR) = [id |-> CompatibilityVLR, length |-> length, data |-> data]
      /\ \A other : other # CompatibilityVLR =>
           /\ HasVlr(new, other) <=> HasVlr(recoded, other)
           /\ HasVlr(recoded, other) => Vlr(new, other) = Vlr(recoded, other)
  BY <1>7, VlrThatIsPutIn
<1>9. new.minor = recoded.minor
  <2>1. IsVlr([id |-> CompatibilityVLR, length |-> length, data |-> data])
    BY DEF IsVlr, CompatibilityVLR, ExtraBytesVLR, length
  <2>2. DiffersInVlrs(new, recoded)
    BY <1>7, <2>1, WithVlrKeepsSlack
  <2>. QED BY <2>2 DEF DiffersInVlrs, HeaderFields
<1> HIDE DEF new
<1>10. ExtraBytesVLR # CompatibilityVLR
  BY DEF ExtraBytesVLR, CompatibilityVLR
<1>11. length \in {156, 174}
  BY DEF length
<1>12. \A id : (HasVlr(recoded, id) <=> HasVlr(h, id)) /\ Vlr(recoded, id) = Vlr(h, id)
  BY <1>6 DEF HasVlr, Vlr, Where
<1>13. new.minor < 4
  BY <1>4, <1>6, <1>9
<1>. QED BY <1>1, <1>2, <1>8, <1>10, <1>11, <1>12, <1>13 DEF new

\* What is said of extra bytes, by the object or the header, is true of them.
DescribesItsBytes(d) ==
  /\ Describes(d.attributes, Existing(d.header))
  /\ HasVlr(d.header, ExtraBytesVLR) =>
       Describes(Vlr(d.header, ExtraBytesVLR).data, Existing(d.header))

\* A header that a reader takes for one of compatibility mode, and from which
\* it knows where in the extra bytes to look: behind the first s.
IsRecodedHeader(h, s, nir) ==
  /\ h.format <= 5 /\ IsCompatible(h) /\ HasVlr(h, ExtraBytesVLR)
  /\ IsLayout(Starts(Vlr(h, ExtraBytesVLR).data), s, nir)

\* What laszip_prepare_point_for_write() makes of an object in compatibility mode.
LEMMA RecodedHeader ==
  ASSUME NEW d, IsDll(d), d.header.format \in 6..10, DescribesItsBytes(d),
         ~PrepareCompatible(d).error
  PROVE  LET e == PrepareCompatible(d) IN
         /\ Existing(d.header) \in Nat
         /\ e.point = d.point /\ e.compatibility_mode = TRUE
         /\ e.start = Starts(Vlr(e.header, ExtraBytesVLR).data)
         /\ IsRecodedHeader(e.header, Existing(d.header), d.header.format \in {8, 10})
<1> DEFINE e == PrepareCompatible(d)
           existing == Existing(d.header)
           c == [d EXCEPT !.header = Downgraded(@)]
           described == Described(c.attributes, c.header, existing)
           all == ForOldPoints(described, c.header.format)
<1>0. DOMAIN d = DllFields
  BY DEF IsDll
<1>1. existing \in Int /\ existing = ExtraBytes(d.header.format, d.header.length)
  BY DEF Existing, ExtraBytes, PointSize, IsDll, IsHeader
<1>2. existing >= 0 /\ existing \in Nat
  <2>1. SUFFICES ASSUME existing < 0 PROVE FALSE
    BY <1>1
  <2>2. e = Refused([d EXCEPT !.header = WithCounters32(@)])
    BY <1>1, <2>1 DEF PrepareCompatible
  <2>3. e.error = TRUE
    BY <1>0, <2>2 DEF Refused, DllFields
  <2>. QED BY <2>3
<1>3. e = Recoded(c, existing)
  BY <1>1, <1>2 DEF PrepareCompatible
<1>4. /\ DOMAIN c = DllFields /\ c.header = Downgraded(d.header)
      /\ c.attributes = d.attributes /\ c.point = d.point
  BY <1>0 DEF DllFields
<1>5. ~(existing > 0 /\ SizeOf(c.attributes) > existing)
  <2>1. SizeOf(d.attributes) <= existing /\ SizeOf(d.attributes) \in Nat
    BY SizeOfIsNatural DEF DescribesItsBytes, Describes, IsDll
  <2>. QED BY <1>1, <1>4, <2>1
<1>6. e = WithOldPoints(c, all)
  BY <1>3, <1>5 DEF Recoded
<1> HIDE DEF c
<1>7. /\ IsHeader(c.header) /\ c.header.minor < 4 /\ c.header.format = d.header.format
      /\ HasVlr(c.header, CompatibilityVLR)
      /\ Vlr(c.header, CompatibilityVLR).length \in {156, 174}
      /\ HasVlr(c.header, ExtraBytesVLR) <=> HasVlr(d.header, ExtraBytesVLR)
      /\ HasVlr(d.header, ExtraBytesVLR) =>
           Vlr(c.header, ExtraBytesVLR) = Vlr(d.header, ExtraBytesVLR)
  BY <1>4, DowngradedSaysSo DEF IsDll
<1>8. AreAttributes(described) /\ SizeOf(described) = existing /\ HasNoOldPoints(described)
  <2>1. AreVlrs(c.header.vlrs) /\ AreAttributes(c.attributes)
    BY <1>4, <1>7 DEF IsDll, IsHeader
  <2>2. Describes(c.attributes, existing)
    BY <1>4 DEF DescribesItsBytes
  <2>3. HasVlr(c.header, ExtraBytesVLR) =>
          Describes(Vlr(c.header, ExtraBytesVLR).data, existing)
    BY <1>7 DEF DescribesItsBytes
  <2> HIDE DEF existing
  <2>. QED BY <1>2, <2>1, <2>2, <2>3, DescribedBytes
<1> HIDE DEF described
<1>9. IsLayout(Starts(all), existing, d.header.format \in {8, 10})
  BY <1>7, <1>8, StartsOfOldPoints
<1>10. AreAttributes(all)
  BY <1>8, ForOldPointsAreAttributes
<1> HIDE DEF all
<1> DEFINE g == WithAttributes(c.header, all)
           h == [g EXCEPT !.format = OldFormat(@)]
<1>11. /\ e.header = h /\ e.start = Starts(all) /\ e.compatibility_mode = TRUE
       /\ e.point = d.point
  BY <1>4, <1>6 DEF WithOldPoints, DllFields
<1>12. /\ HasVlr(g, ExtraBytesVLR) /\ Vlr(g, ExtraBytesVLR).data = all
       /\ HasVlr(g, CompatibilityVLR)
       /\ Vlr(g, CompatibilityVLR) = Vlr(c.header, CompatibilityVLR)
  <2>1. ExtraBytesVLR # CompatibilityVLR
    BY DEF ExtraBytesVLR, CompatibilityVLR
  <2>2. /\ HasVlr(g, ExtraBytesVLR)
        /\ Vlr(g, ExtraBytesVLR)
             = [id |-> ExtraBytesVLR, length |-> 192 * Len(all), data |-> all]
        /\ \A other : other # ExtraBytesVLR =>
             /\ HasVlr(g, other) <=> HasVlr(c.header, other)
             /\ HasVlr(c.header, other) => Vlr(g, other) = Vlr(c.header, other)
    BY <1>7, VlrThatIsPutIn DEF WithAttributes
  <2>. QED BY <1>7, <2>1, <2>2
<1>13. DiffersInVlrs(g, c.header)
  BY <1>7, <1>10, WithAttributesKeepsSlack
<1> HIDE DEF g
<1>14. /\ h.vlrs = g.vlrs /\ h.minor = c.header.minor /\ h.format = OldFormat(d.header.format)
  BY <1>7, <1>13 DEF DiffersInVlrs, HeaderFields
<1>15. \A id : (HasVlr(h, id) <=> HasVlr(g, id)) /\ Vlr(h, id) = Vlr(g, id)
  BY <1>14 DEF HasVlr, Vlr, Where
<1> HIDE DEF h
<1>16. h.format \in {1, 3, 4, 5} /\ h.format <= 5
  <2>1. OldFormat(d.header.format) \in {1, 3, 4, 5}
    BY DEF OldFormat
  <2>. QED BY <1>14, <2>1
<1>17. IsCompatible(h)
  BY <1>7, <1>12, <1>14, <1>15, <1>16 DEF IsCompatible
<1>. QED BY <1>2, <1>9, <1>11, <1>12, <1>15, <1>16, <1>17 DEF IsRecodedHeader

\* What laszip_open_writer() makes of the object: points of an old type that say
\* so, or points that are what they are.
LEMMA PreparedForPoints ==
  ASSUME NEW d, IsDll(d), NEW compress \in BOOLEAN, ~HasVlr(d.header, CompatibilityVLR),
         d.compatibility_mode = FALSE, DOMAIN d.point = PointFields,
         d.header.format > 5 /\ d.compat => DescribesItsBytes(d),
         ~PreparedDll(d, compress).error
  PROVE  LET e == PreparedDll(d, compress) IN
         /\ DOMAIN e.point = PointFields /\ e.point.extra_bytes = d.point.extra_bytes
         /\ d.header.format > 5 /\ d.compat =>
              /\ Existing(d.header) \in Nat /\ e.compatibility_mode = TRUE
              /\ e.start = Starts(Vlr(e.header, ExtraBytesVLR).data)
              /\ IsRecodedHeader(e.header, Existing(d.header), d.header.format \in {8, 10})
         /\ ~(d.header.format > 5 /\ d.compat) =>
              /\ e.compatibility_mode = FALSE /\ ~HasVlr(e.header, CompatibilityVLR)
              /\ e.header.format = d.header.format
<1> DEFINE e == PreparedDll(d, compress)
           c == [d EXCEPT !.header = WithOldCounters(@)]
           p == NewPoint14(c)
           SamePoint(x) == DOMAIN x.point = PointFields /\ x.point.extra_bytes = d.point.extra_bytes
<1>1. /\ IsDll(c) /\ c.header.format = d.header.format /\ c.header.length = d.header.length
      /\ c.native = d.native /\ c.compat = d.compat
      /\ ~HasVlr(c.header, CompatibilityVLR)
      /\ \A id : HasVlr(c.header, id) <=> HasVlr(d.header, id)
  BY OldCountersAreApart
<1>2. d.header.format \in 0..10 /\ DOMAIN d = DllFields
  BY DEF IsDll, IsHeader
<1>3. /\ DOMAIN c = DllFields /\ c.point = d.point /\ c.compatibility_mode = FALSE
      /\ c.attributes = d.attributes /\ c.header = WithOldCounters(d.header)
  BY <1>2 DEF DllFields
<1>4. c.header.vlrs = d.header.vlrs
  BY <1>3, WithOldCountersKeepsSlack DEF IsDll, HeaderFields
<1> HIDE DEF c
<1>5. ~CanSetup(d, compress) => FALSE
  <2>1. SUFFICES ASSUME ~CanSetup(d, compress) PROVE FALSE
    OBVIOUS
  <2>2. e.error = TRUE
    BY <1>2, <2>1 DEF PreparedDll, Refused, DllFields
  <2>. QED BY <2>2
<1>6. ~CountersAgree(d.header) => FALSE
  <2>1. SUFFICES ASSUME ~CountersAgree(d.header) PROVE FALSE
    OBVIOUS
  <2>2. e = Refused(c)
    BY <1>5, <2>1 DEF PreparedDll, c
  <2>3. e.error = TRUE
    BY <1>3, <2>2 DEF Refused, DllFields
  <2>. QED BY <2>3
<1>7. e = PreparePoint(c, compress)
  BY <1>5, <1>6 DEF PreparedDll, c
<1>8. /\ DOMAIN p = DllFields /\ p.header = c.header /\ p.native = d.native /\ p.compat = d.compat
      /\ p.compatibility_mode = FALSE /\ p.attributes = d.attributes /\ SamePoint(p)
  BY <1>1, <1>3 DEF NewPoint14, DllFields, PointFields, NewPoint
<1> HIDE DEF p, e
<1>9. CASE d.header.format <= 5
  <2>1. e = OldPoint(c)
    BY <1>1, <1>2, <1>7, <1>9 DEF PreparePoint
  <2>2. e.header = c.header /\ e.compatibility_mode = FALSE /\ SamePoint(e)
    BY <1>3, <2>1 DEF OldPoint, DllFields, PointFields, NewPoint
  <2>3. ~(d.header.format > 5 /\ d.compat)
    BY <1>2, <1>9
  <2>. QED BY <1>1, <2>2, <2>3 DEF e
<1>10. CASE d.header.format > 5 /\ d.native
  <2>1. ~d.compat
    BY <1>10 DEF IsDll
  <2>2. e = [p EXCEPT !.compatibility_mode = FALSE]
    BY <1>1, <1>2, <1>7, <1>10, <2>1 DEF PreparePoint, p
  <2>3. e.header = c.header /\ e.compatibility_mode = FALSE /\ SamePoint(e)
    BY <1>8, <2>2 DEF DllFields
  <2>. QED BY <1>1, <2>1, <2>3 DEF e
<1>11. CASE d.header.format > 5 /\ ~d.native /\ d.compat
  <2>1. e = PrepareCompatible(p)
    BY <1>1, <1>2, <1>7, <1>11 DEF PreparePoint, p
  <2>2. IsDll(p) /\ p.header.format \in 6..10
    BY <1>1, <1>2, <1>8, <1>11 DEF IsDll
  <2>3. Existing(p.header) = Existing(d.header)
    BY <1>1, <1>8 DEF Existing
  <2>4. DescribesItsBytes(p)
    <3>1. \A id : (HasVlr(p.header, id) <=> HasVlr(d.header, id))
                  /\ Vlr(p.header, id) = Vlr(d.header, id)
      BY <1>4, <1>8 DEF HasVlr, Vlr, Where
    <3>. QED BY <1>8, <1>11, <2>3, <3>1 DEF DescribesItsBytes
  <2>5. ~PrepareCompatible(p).error
    BY <2>1 DEF e
  <2>6. /\ Existing(p.header) \in Nat /\ e.point = p.point /\ e.compatibility_mode = TRUE
        /\ e.start = Starts(Vlr(e.header, ExtraBytesVLR).data)
        /\ IsRecodedHeader(e.header, Existing(p.header), p.header.format \in {8, 10})
    BY <2>1, <2>2, <2>4, <2>5, RecodedHeader
  <2>7. p.header.format = d.header.format /\ SamePoint(e)
    BY <1>1, <1>8, <2>6
  <2>. QED BY <1>11, <2>3, <2>6, <2>7 DEF e
<1>12. CASE d.header.format > 5 /\ ~d.native /\ ~d.compat
  <2>1. e \in {p, Refused(p)}
    BY <1>1, <1>2, <1>7, <1>12 DEF PreparePoint, p
  <2>2. Refused(p).error = TRUE
    BY <1>8 DEF Refused, DllFields
  <2>3. e = p
    BY <2>1, <2>2 DEF e
  <2>. QED BY <1>1, <1>8, <1>12, <2>3 DEF e
<1>13. \/ d.header.format <= 5
       \/ d.header.format > 5 /\ d.native
       \/ d.header.format > 5 /\ ~d.native /\ d.compat
       \/ d.header.format > 5 /\ ~d.native /\ ~d.compat
  BY <1>2 DEF IsDll
<1>. QED BY <1>9, <1>10, <1>11, <1>12, <1>13

-----------------------------------------------------------------------------
(* What a file tells its reader *)

\* Header h is in a file of points of an old type, opened for a new one, b.
RecodedFrom(h, b) == h.format <= 5 /\ b.format > 5

\* Items and header of a file agree on the type of its points, and the header
\* says whether and how they were recoded.
IsReadable(las, b) ==
  LET h == las.header IN
  /\ "POINT14" \in Types(las.items) <=> h.format > 5
  /\ h.format > 5 => ("RGBNIR14" \in Types(las.items) <=> b.format \in {8, 10})
  /\ b.format <= 5 => h.format <= 5
  /\ IF RecodedFrom(h, b)
     THEN Existing(b) \in Nat /\ IsRecodedHeader(h, Existing(b), b.format \in {8, 10})
     ELSE h.format <= 5 => ~HasVlr(h, CompatibilityVLR)

\* What laszip_write_header() puts into the file is what it was given, but for
\* the LASzip VLR.
LEMMA WrittenHeaderSaysSo ==
  ASSUME NEW h, IsHeader(h), OffsetIsRight(h), NEW items, Len(items) \in Nat,
         NEW compress \in BOOLEAN
  PROVE  LET g == WrittenHeader(h, items, compress).header IN
         /\ g.format = h.format
         /\ \A s : \A nir \in BOOLEAN : IsRecodedHeader(h, s, nir) => IsRecodedHeader(g, s, nir)
         /\ HasVlr(g, CompatibilityVLR) => HasVlr(h, CompatibilityVLR)
<1> DEFINE g == WrittenHeader(h, items, compress).header
<1>1. /\ g.format = h.format
      /\ \A id : HasVlr(h, id) => HasVlr(g, id) /\ Vlr(g, id) = Vlr(h, id)
      /\ \A id : id # LASzipVLR /\ HasVlr(g, id) => HasVlr(h, id)
  BY WrittenHeaderIsRight
<1>2. g.minor = h.minor
  BY DEF WrittenHeader, IsHeader, HeaderFields
<1>3. CompatibilityVLR # LASzipVLR
  BY DEF CompatibilityVLR, LASzipVLR
<1> HIDE DEF g
<1>4. ASSUME NEW s, NEW nir \in BOOLEAN, IsRecodedHeader(h, s, nir)
      PROVE  IsRecodedHeader(g, s, nir)
  BY <1>1, <1>2, <1>4 DEF IsRecodedHeader, IsCompatible
<1>. QED BY <1>1, <1>3, <1>4 DEF g

\* The file that laszip_open_writer() begins.
LEMMA ReadableFile ==
  ASSUME NEW o, IsDll(o), NEW compress \in BOOLEAN, NEW items, items = WriterItems(o, compress),
         NEW h, IsHeader(h), OffsetIsRight(h),
         o.header.format > 5 /\ o.compat =>
           /\ Existing(o.header) \in Nat
           /\ IsRecodedHeader(h, Existing(o.header), o.header.format \in {8, 10}),
         ~(o.header.format > 5 /\ o.compat) =>
           ~HasVlr(h, CompatibilityVLR) /\ h.format = o.header.format
  PROVE  IsReadable(FileOf(WrittenHeader(h, items, compress), items, compress), o.header)
<1> DEFINE format == o.header.format
           length == o.header.length
           las == FileOf(WrittenHeader(h, items, compress), items, compress)
           g == las.header
           version == IF compress THEN DefaultVersion(format, o.header.minor) ELSE 0
           plain == Items(format, length, o.compat)
           extra == ExtraOf(format, length, o.compat)
<1>1. /\ format \in 0..10 /\ length \in Int /\ o.compat \in BOOLEAN
      /\ items = WithVersions(plain, version)
  BY DEF IsDll, IsHeader, WriterItems
<1>2. Types(items) = TypesOf(format, extra, o.compat)
  <2> HIDE DEF version, format, length
  <2>1. Types(plain) = TypesOf(format, extra, o.compat)
    BY <1>1, ItemsOfSetup
  <2>2. Types(items) = Types(plain)
    BY <1>1, TypesKeepVersions
  <2>. QED BY <2>1, <2>2
<1>3. Len(items) \in Nat
  <2> HIDE DEF version, format, length
  <2>1. items = WithVersions(Items(format, length, o.compat), version)
    BY <1>1
  <2>. QED BY <1>1, <2>1, ItemsHaveALength
<1> HIDE DEF extra, version, plain
<1>4. /\ "POINT14" \in Types(items) <=> Is14(format, o.compat)
      /\ "RGBNIR14" \in Types(items) <=> Is14(format, o.compat) /\ format \in {8, 10}
  BY <1>1, <1>2 DEF TypesOf, HasRgb, HasNir
<1>5. /\ g.format = h.format
      /\ \A s : \A nir \in BOOLEAN : IsRecodedHeader(h, s, nir) => IsRecodedHeader(g, s, nir)
      /\ HasVlr(g, CompatibilityVLR) => HasVlr(h, CompatibilityVLR)
  BY <1>3, WrittenHeaderSaysSo DEF FileOf
<1>6. las.header = g /\ las.items = items
  BY DEF FileOf
<1> HIDE DEF las
<1>7. CASE format > 5 /\ o.compat
  <2>1. g.format <= 5 /\ ~(g.format > 5) /\ RecodedFrom(g, o.header)
    <3>1. h.format \in Int /\ h.format <= 5
      BY <1>7 DEF IsHeader, IsRecodedHeader
    <3>. QED BY <1>5, <1>7, <3>1 DEF RecodedFrom
  <2>2. ~Is14(format, o.compat) /\ ~(format <= 5)
    BY <1>1, <1>7 DEF Is14
  <2>3. /\ Existing(o.header) \in Nat
        /\ IsRecodedHeader(h, Existing(o.header), format \in {8, 10})
    BY <1>7
  <2>4. IsRecodedHeader(g, Existing(o.header), format \in {8, 10})
    <3>1. (format \in {8, 10}) \in BOOLEAN
      OBVIOUS
    <3>. QED BY <1>5, <2>3, <3>1
  <2>5. IsReadable(las, o.header)
    <3> HIDE DEF g
    <3>. QED BY <1>4, <1>6, <2>1, <2>2, <2>3, <2>4 DEF IsReadable
  <2>. QED BY <2>5 DEF las
<1>8. CASE ~(format > 5 /\ o.compat)
  <2>1. g.format = format /\ ~HasVlr(g, CompatibilityVLR)
    BY <1>5, <1>8
  <2>2. Is14(format, o.compat) <=> g.format > 5
    BY <1>8, <2>1 DEF Is14
  <2>3. ~RecodedFrom(g, o.header)
    BY <1>1, <2>1 DEF RecodedFrom
  <2>4. IsReadable(las, o.header)
    <3> HIDE DEF g
    <3>. QED BY <1>4, <1>6, <2>1, <2>2, <2>3 DEF IsReadable
  <2>. QED BY <2>4 DEF las
<1>. QED BY <1>7, <1>8

-----------------------------------------------------------------------------
(* Points that a reader gets from a file *)

\* The fields of a point that both kinds of points are made from.
HasFields(p) ==
  /\ DOMAIN p = PointFields
  /\ p.extended_scan_angle \in I16 /\ p.nir \in U16 /\ p.flags \in 0..7
  /\ p.extended_return_number \in 0..15 /\ p.extended_number_of_returns \in 0..15
  /\ p.extended_classification \in U8 /\ p.classification \in 0..31
  /\ p.extended_classification_flags \in 0..15 /\ p.extended_scanner_channel \in 0..3

\* A laszip_point has them, whatever extra bytes it is given.
LEMMA FieldsOfPoint ==
  ASSUME NEW q \in LaszipPoint, NEW p, DOMAIN p = PointFields,
         \A f \in PointFields \ {"extra_bytes"} : p[f] = q[f]
  PROVE  HasFields(p)
<1> DEFINE F == {"nir", "flags", "classification"} \cup NewFields
<1>0. F \subseteq PointFields \ {"extra_bytes"}
  BY DEF NewFields, PointFields, NewPoint
<1>1. \A f \in F : p[f] = q[f]
  <2> HIDE DEF F
  <2>. QED BY <1>0
<1>2. q.extended_scan_angle \in I16
  BY DEF LaszipPoint
<1>3. q.nir \in U16
  BY DEF LaszipPoint
<1>4. q.flags \in 0..7
  BY DEF LaszipPoint
<1>5. q.extended_return_number \in 0..15
  BY DEF LaszipPoint
<1>6. q.extended_number_of_returns \in 0..15
  BY DEF LaszipPoint
<1>7. q.extended_classification \in U8
  BY DEF LaszipPoint
<1>8. q.classification \in 0..31
  BY DEF LaszipPoint
<1>9. q.extended_classification_flags \in 0..15
  BY DEF LaszipPoint
<1>10. q.extended_scanner_channel \in 0..3
  BY DEF LaszipPoint
<1>11. /\ p.extended_scan_angle = q.extended_scan_angle /\ p.nir = q.nir /\ p.flags = q.flags
       /\ p.extended_return_number = q.extended_return_number
       /\ p.extended_number_of_returns = q.extended_number_of_returns
       /\ p.extended_classification = q.extended_classification
       /\ p.classification = q.classification
       /\ p.extended_classification_flags = q.extended_classification_flags
       /\ p.extended_scanner_channel = q.extended_scanner_channel
  BY <1>1 DEF NewFields
<1> HIDE DEF F
<1>. QED BY <1>2, <1>3, <1>4, <1>5, <1>6, <1>7, <1>8, <1>9, <1>10, <1>11 DEF HasFields

\* The fields of the old point types are kept as they are.
LEMMA OldPointComesBack ==
  ASSUME NEW p, DOMAIN p = PointFields, NEW q, DOMAIN q = PointFields
  PROVE  LET back == LoadPOINT10(q, StorePOINT10(p)) IN
         /\ DOMAIN back = PointFields
         /\ \A f \in {"x", "y", "gps_time", "flags", "extra_bytes"} \cup OldFields : back[f] = p[f]
BY DEF LoadPOINT10, StorePOINT10, PointFields, NewPoint, OldFields

\* So are those of the new ones, if the point says that it is one.
LEMMA NewPointComesBack ==
  ASSUME NEW p, DOMAIN p = PointFields, NEW q, DOMAIN q = PointFields, NEW nir \in BOOLEAN,
         p.extended_point_type = 1, IsConsistent(p), p.extended_classification_flags \in 0..15,
         p.flags \in 0..7
  PROVE  LET back == LoadPOINT14(q, StorePOINT14(p, nir), nir) IN
         /\ DOMAIN back = PointFields
         /\ \A f \in {"x", "y", "gps_time", "flags", "extra_bytes"} \cup NewFields : back[f] = p[f]
         /\ nir => back.nir = p.nir
<1> DEFINE item == StorePOINT14(p, nir)
           back == LoadPOINT14(q, item, nir)
           flags == 8 * (p.extended_classification_flags \div 8) + p.flags
<1>1. /\ item.x = p.x /\ item.y = p.y /\ item.gps_time = p.gps_time
      /\ item.extra_bytes = p.extra_bytes
      /\ nir => item.nir = p.nir
      /\ item.classification_flags = flags
      /\ item.scanner_channel = p.extended_scanner_channel
      /\ item.return_number = p.extended_return_number
      /\ item.number_of_returns = p.extended_number_of_returns
      /\ item.scan_angle = p.extended_scan_angle
  <2> HIDE DEF flags
  <2>. QED BY DEF StorePOINT14, flags
<1>2. item.classification = p.extended_classification
  BY DEF StorePOINT14, IsConsistent
<1>3. flags = p.extended_classification_flags /\ flags % 8 = p.flags
  BY DEF IsConsistent
<1> HIDE DEF item, flags
<1>4. /\ DOMAIN back = PointFields
      /\ back.x = item.x /\ back.y = item.y /\ back.gps_time = item.gps_time
      /\ back.extra_bytes = item.extra_bytes
      /\ nir => back.nir = item.nir
      /\ back.flags = item.classification_flags % 8
      /\ back.extended_scanner_channel = item.scanner_channel
      /\ back.extended_classification_flags = item.classification_flags
      /\ back.extended_classification = item.classification
      /\ back.extended_return_number = item.return_number
      /\ back.extended_number_of_returns = item.number_of_returns
      /\ back.extended_scan_angle = item.scan_angle
  BY DEF LoadPOINT14, PointFields, NewPoint
<1> HIDE DEF back
<1>. QED BY <1>1, <1>2, <1>3, <1>4 DEF NewFields, back, item

\* What laszip_read_point() makes of an item of the file, whatever the object's
\* point was, for a reader that asks for compatibility mode if it is needed.
FileStart(h) == Starts(Vlr(h, ExtraBytesVLR).data)
ReadFrom(las, b, q, item) ==
  LET p == Loaded(las.items, q, item)
  IN IF RecodedFrom(las.header, b) THEN Instilled(p, FileStart(las.header)) ELSE p
GivesBack(las, b, item, p) ==
  \A q : DOMAIN q = PointFields => IsSamePoint(p, ReadFrom(las, b, q, item), b)

\* Reading fills in fields that are there.
LEMMA ReadingKeepsFields ==
  ASSUME NEW q, DOMAIN q = PointFields, NEW item
  PROVE  /\ \A items : DOMAIN Loaded(items, q, item) = PointFields
         /\ \A start : DOMAIN Instilled(q, start) = PointFields
<1>1. \A items : DOMAIN Loaded(items, q, item) = PointFields
  BY DEF Loaded, LoadPOINT10, LoadPOINT14
<1>2. \A start : DOMAIN Instilled(q, start) = PointFields
  BY DEF Instilled
<1>. QED BY <1>1, <1>2

\* Distilled() fills in fields and bytes that are there.
LEMMA DistillingKeepsRoom ==
  ASSUME NEW p, IsNewPoint(p), NEW s \in Nat, NEW nir \in BOOLEAN, HasRoom(p.extra_bytes, s, nir),
         NEW start, IsLayout(start, s, nir)
  PROVE  /\ DOMAIN Distilled(p, start) = PointFields
         /\ HasRoom(Distilled(p, start).extra_bytes, s, nir)
<1> DEFINE d == Distilled(p, start)
<1>1. HasTheRest(d, p, s, nir)
  BY DistilledFields
<1> HIDE DEF d
<1>2. DOMAIN d = PointFields /\ DOMAIN d.extra_bytes = DOMAIN p.extra_bytes
  BY <1>1 DEF HasTheRest
<1>3. HasRoom(d.extra_bytes, s, nir)
  BY <1>2 DEF HasRoom
<1>. QED BY <1>2, <1>3 DEF d

\* What a caller promises of a point of a new type: it says that it is one, and
\* a classification that the old field has room for is in the old field, too.
IsCarefulPoint(p, recoded) ==
  /\ p.extended_point_type = 1 /\ IsConsistent(p)
  /\ recoded /\ p.extended_classification <= 31 => p.classification = p.extended_classification

\* A point that is put into a file comes back from it.
LEMMA PointIsGivenBack ==
  ASSUME NEW b, b.format \in 0..10, NEW las, las.header.format \in 0..10, IsReadable(las, b),
         NEW p, HasFields(p), NEW recoded, recoded = RecodedFrom(las.header, b),
         b.format > 5 => IsCarefulPoint(p, recoded),
         NEW w, DOMAIN w = PointFields,
         \A f \in PointFields \ {"extra_bytes"} : w[f] = p[f],
         p.extra_bytes # <<>> => w.extra_bytes = p.extra_bytes,
         recoded => HasRoom(w.extra_bytes, Existing(b), b.format \in {8, 10}),
         NEW put, put = IF recoded THEN Distilled(w, FileStart(las.header)) ELSE w
  PROVE  /\ DOMAIN put = PointFields
         /\ recoded => HasRoom(put.extra_bytes, Existing(b), b.format \in {8, 10})
         /\ GivesBack(las, b, Stored(las.items, put), p)
<1> DEFINE h == las.header
           nir == b.format \in {8, 10}
           s == Existing(b)
           start == FileStart(h)
           item == Stored(las.items, put)
<1>0. /\ "POINT14" \in Types(las.items) <=> h.format > 5
      /\ h.format > 5 => ("RGBNIR14" \in Types(las.items) <=> nir)
      /\ b.format <= 5 => h.format <= 5
      /\ nir \in BOOLEAN
  BY DEF IsReadable
<1>1. recoded => h.format <= 5 /\ b.format > 5 /\ s \in Nat /\ IsLayout(start, s, nir)
  BY DEF IsReadable, IsRecodedHeader, RecodedFrom, FileStart
<1> DEFINE F == {"x", "y", "gps_time", "flags", "nir", "extended_point_type"}
                  \cup OldFields \cup NewFields
<1>2. F \subseteq PointFields \ {"extra_bytes"}
  BY DEF OldFields, NewFields, PointFields, NewPoint
<1>3. \A f \in F : w[f] = p[f]
  <2> HIDE DEF F
  <2>. QED BY <1>2
<1>4. /\ w.flags = p.flags /\ w.classification = p.classification /\ w.nir = p.nir
      /\ w.extended_point_type = p.extended_point_type
      /\ \A f \in {"x", "y", "gps_time", "flags"} \cup OldFields \cup NewFields : w[f] = p[f]
      /\ w.extended_scan_angle = p.extended_scan_angle
      /\ w.extended_return_number = p.extended_return_number
      /\ w.extended_number_of_returns = p.extended_number_of_returns
      /\ w.extended_classification = p.extended_classification
      /\ w.extended_classification_flags = p.extended_classification_flags
      /\ w.extended_scanner_channel = p.extended_scanner_channel
  BY <1>3 DEF NewFields, OldFields
<1> HIDE DEF F
<1>5. CASE recoded
  <2>1. h.format <= 5 /\ ~(h.format > 5) /\ b.format > 5 /\ ~(b.format <= 5) /\ s \in Nat
        /\ IsLayout(start, s, nir)
    BY <1>1, <1>5
  <2>8. HasRoom(w.extra_bytes, s, nir)
    BY <1>5
  <2>2. IsNewPoint(w)
    <3>1. /\ p.extended_classification_flags % 8 = p.flags
          /\ p.extended_classification <= 31 => p.classification = p.extended_classification
      BY <1>5, <2>1 DEF IsCarefulPoint, IsConsistent
    <3>. QED BY <1>4, <3>1 DEF IsNewPoint, HasFields
  <2>3. put = Distilled(w, start)
    BY <1>5
  <2>4. DOMAIN put = PointFields /\ HasRoom(put.extra_bytes, s, nir)
    <3> HIDE DEF start, s, nir
    <3>. QED BY <1>0, <2>1, <2>2, <2>3, <2>8, DistillingKeepsRoom
  <2>6. item = StorePOINT10(put)
    BY <1>0, <2>1 DEF Stored
  <2>7. ASSUME NEW q, DOMAIN q = PointFields
        PROVE  IsSamePoint(p, ReadFrom(las, b, q, item), b)
    <3> DEFINE back == Instilled(LoadPOINT10(q, StorePOINT10(Distilled(w, start))), start)
    <3>1. ReadFrom(las, b, q, item) = back
      BY <1>0, <1>5, <2>1, <2>3, <2>6 DEF ReadFrom, Loaded
    <3>2. /\ \A f \in {"x", "y", "gps_time", "flags"} \cup NewFields : back[f] = w[f]
          /\ nir => back.nir = w.nir
          /\ \A i \in 1..s : back.extra_bytes[i] = w.extra_bytes[i]
      <4> HIDE DEF start, s, nir
      <4>. QED BY <1>0, <2>1, <2>2, <2>7, <2>8, RecodedComesBack
    <3> DEFINE r == ReadFrom(las, b, q, item)
    <3>3. r = back
      BY <3>1
    <3> HIDE DEF back, r
    <3>4. IsSamePoint(p, r, b)
      BY <1>4, <2>1, <3>2, <3>3 DEF IsSamePoint
    <3>. QED BY <3>4 DEF r
  <2>. QED BY <2>4, <2>7 DEF GivesBack
<1>6. CASE ~recoded
  <2>1. put = w
    BY <1>6
  <2>2. ~RecodedFrom(h, b)
    BY <1>6
  <2>3. CASE b.format <= 5
    <3>1. /\ ~("POINT14" \in Types(las.items))
          /\ (b.format > 5) = FALSE /\ (b.format \in {8, 10}) = FALSE
      BY <1>0, <2>3
    <3>2. item = StorePOINT10(w)
      BY <2>1, <3>1 DEF Stored
    <3>3. ASSUME NEW q, DOMAIN q = PointFields
          PROVE  IsSamePoint(p, ReadFrom(las, b, q, item), b)
      <4> DEFINE back == LoadPOINT10(q, StorePOINT10(w))
      <4>1. ReadFrom(las, b, q, item) = back
        BY <2>2, <3>1, <3>2 DEF ReadFrom, Loaded
      <4>2. \A f \in {"x", "y", "gps_time", "flags", "extra_bytes"} \cup OldFields : back[f] = w[f]
        BY <3>3, OldPointComesBack
      <4> DEFINE r == ReadFrom(las, b, q, item)
      <4>4. r = back
        BY <4>1
      <4> HIDE DEF back, r
      <4>5. IsSamePoint(p, r, b)
        BY <1>4, <2>3, <3>1, <4>2, <4>4 DEF IsSamePoint
      <4>. QED BY <4>5 DEF r
    <3>. QED BY <1>6, <2>1, <3>3 DEF GivesBack
  <2>4. CASE b.format > 5
    <3>1. /\ "POINT14" \in Types(las.items)
          /\ "RGBNIR14" \in Types(las.items) <=> nir
      BY <1>0, <2>2, <2>4 DEF RecodedFrom
    <3>2. item = StorePOINT14(w, nir)
      BY <2>1, <3>1 DEF Stored
    <3>3. ASSUME NEW q, DOMAIN q = PointFields
          PROVE  IsSamePoint(p, ReadFrom(las, b, q, item), b)
      <4> DEFINE back == LoadPOINT14(q, StorePOINT14(w, nir), nir)
      <4>1. ReadFrom(las, b, q, item) = back
        BY <2>2, <3>1, <3>2 DEF ReadFrom, Loaded
      <4>2. w.extended_point_type = 1 /\ IsConsistent(w)
        BY <1>4, <2>4 DEF IsCarefulPoint, IsConsistent
      <4>3. /\ \A f \in {"x", "y", "gps_time", "flags", "extra_bytes"} \cup NewFields :
                 back[f] = w[f]
            /\ nir => back.nir = w.nir
        <5>1. w.extended_classification_flags \in 0..15 /\ w.flags \in 0..7
          BY <1>4 DEF HasFields
        <5> HIDE DEF nir
        <5>. QED BY <1>0, <3>3, <4>2, <5>1, NewPointComesBack
      <4> DEFINE r == ReadFrom(las, b, q, item)
      <4>4. r = back
        BY <4>1
      <4> HIDE DEF back, r
      <4>5. IsSamePoint(p, r, b)
        BY <1>4, <2>4, <4>3, <4>4 DEF IsSamePoint
      <4>. QED BY <4>5 DEF r
    <3>. QED BY <1>6, <2>1, <3>3 DEF GivesBack
  <2>. QED BY <2>3, <2>4
<1>. QED BY <1>5, <1>6

-----------------------------------------------------------------------------
(* The object gives back what the file holds *)

\* The items in the file are those of the points that were given.
FileGivesBack ==
  /\ IsReadable(disk.las, before)
  /\ \E S : disk.las.points \in Seq(S)
  /\ Len(disk.las.points) = Len(given)
  /\ \A i \in 1..Len(given) : GivesBack(disk.las, before, disk.las.points[i], given[i])

\* The writer recodes points if the file says so, to where it says, and the
\* point has room for it.
PointWriter ==
  /\ dll.writer.items = disk.las.items
  /\ IsRecoded =>
       /\ dll.compatibility_mode = TRUE /\ dll.start = FileStart(disk.las.header) /\ ~job.index
       /\ HasRoom(dll.point.extra_bytes, Existing(before), before.format \in {8, 10})
  /\ ~IsRecoded => dll.compatibility_mode = FALSE

\* The index, if there is one, is that of LASindex.
IsIndex(lax) == lax = None \/ "at" \in DOMAIN lax

\* The reader takes the points for what the file says they are, but for one that
\* does not ask for compatibility mode.
ReadsItems ==
  /\ DOMAIN dll.reader = {"items", "at"}
  /\ Types(dll.reader.items) = Types(disk.las.items)
  /\ dll.reader.at \in Nat /\ dll.p_count \in Nat /\ IsIndex(dll.lax)
  /\ IsRecoded /\ dll.compat =>
       dll.compatibility_mode = TRUE /\ dll.start = FileStart(disk.las.header)
  /\ ~(IsRecoded /\ dll.compat) => dll.compatibility_mode = FALSE

\* The point that was read last is the one that was given.
HasReadLast ==
  last # 0 /\ (IsRecoded => dll.compat) => IsSamePoint(given[last], dll.point, before)

\* From laszip_write_point() to laszip_read_point().
PointInv ==
  /\ phase # "refused" => DOMAIN dll.point = PointFields
  /\ phase \notin {"read", "inside"} => last = 0
  /\ phase \in Opened => FileGivesBack
  /\ phase = "write" => PointWriter
  /\ phase \in {"read", "inside"} => ReadsItems /\ HasReadLast

\* What is taken of callers: before it opens a writer that recodes points, the
\* caller has described no more extra bytes than there are and under none of the
\* names the object uses, and makes no spatial index; a point of a new type that
\* it writes says what it is, its classification, too, in the old field, if there
\* is room for it there and the point is recoded.
CarefulCaller ==
  /\ phase = "header" /\ phase' = "write" /\ dll.compat /\ dll.header.format > 5 =>
       ~job.index /\ DescribesItsBytes(dll)
  /\ given' # given /\ before.format > 5 =>
       IsCarefulPoint(given'[Len(given')], IsRecoded)

-----------------------------------------------------------------------------
(* The steps keep the points *)

\* What a file gives back hangs on its items and on how its header tells points.
LEMMA SameFileGivesBack ==
  ASSUME NEW las, NEW more, more.items = las.items, more.header.format = las.header.format,
         more.header.minor = las.header.minor, more.header.vlrs = las.header.vlrs, NEW b
  PROVE  /\ RecodedFrom(more.header, b) <=> RecodedFrom(las.header, b)
         /\ FileStart(more.header) = FileStart(las.header)
         /\ IsReadable(las, b) => IsReadable(more, b)
         /\ \A item, p : GivesBack(las, b, item, p) => GivesBack(more, b, item, p)
<1> DEFINE h == las.header
           g == more.header
<1>1. \A id : (HasVlr(g, id) <=> HasVlr(h, id)) /\ Vlr(g, id) = Vlr(h, id)
  BY DEF HasVlr, Vlr, Where
<1>2. RecodedFrom(g, b) = RecodedFrom(h, b) /\ FileStart(g) = FileStart(h)
  BY <1>1 DEF RecodedFrom, FileStart
<1>3. \A s, nir : IsRecodedHeader(h, s, nir) => IsRecodedHeader(g, s, nir)
  BY <1>1 DEF IsRecodedHeader, IsCompatible
<1>4. \A q, item : ReadFrom(more, b, q, item) = ReadFrom(las, b, q, item)
  BY <1>2 DEF ReadFrom
<1>5. IsReadable(las, b) => IsReadable(more, b)
  BY <1>1, <1>2, <1>3 DEF IsReadable
<1>. QED BY <1>2, <1>4, <1>5 DEF GivesBack

\* At first there is no file.
LEMMA InitPoints == ASSUME Init PROVE PointInv
BY DEF Init, PointInv, NewDll, PointFields, Opened

\* A call before the writer is open is not about points.
LEMMA StartPoints == ASSUME IInv, PointInv, Start PROVE PointInv'
<1>1. DOMAIN dll = DllFields
  BY DEF IInv, HeaderInv, IsDll
<1>2. dll'.point = dll.point
  BY <1>1 DEF Start, CreateSpatialIndex, SetHeader, DllFields
<1>3. phase = "new" /\ phase' = "header" /\ last' = last
  BY DEF Start
<1>. QED BY <1>2, <1>3 DEF PointInv, Opened

\* Nor is any other call that is made then.
LEMMA CallPoints == ASSUME IInv, PointInv, NEW call \in job.calls, Call(call) PROVE PointInv'
<1> DEFINE a == Accepted(dll)
<1>1. /\ DOMAIN dll = DllFields /\ job \in Jobs /\ IsDll(dll)
  BY DEF IInv, HeaderInv, IsDll
<1>2. IsDll(a) /\ \A f \in DllFields \ {"error"} : a[f] = dll[f]
  BY <1>1, RemarksKeepHeader, SameDll DEF Accepted, DllFields
<1>3. IsCall(call) /\ dll' = Called(a, call)
  BY <1>1, JobsAssumption DEF Call
<1> HIDE DEF a
<1>4. dll'.point = a.point
  BY <1>2, <1>3, CalledIsAboutHeader DEF DllFields
<1>5. a.point = dll.point
  BY <1>2 DEF DllFields
<1>6. phase = "header" /\ phase' = "header" /\ last' = last
  BY DEF Call
<1>. QED BY <1>4, <1>5, <1>6 DEF PointInv, Opened

\* laszip_update_inventory() counts points but leaves them alone.
LEMMA UpdateInventoryPoints == ASSUME IInv, PointInv, UpdateInventory PROVE PointInv'
<1>1. DOMAIN dll = DllFields
  BY DEF IInv, HeaderInv, IsDll
<1>2. /\ phase = "write" /\ phase' = "write" /\ UNCHANGED <<disk, job, before, given, last>>
      /\ \A f \in DllFields \ {"inventory"} : dll'[f] = dll[f]
  BY <1>1 DEF UpdateInventory, DllFields
<1>3. /\ dll'.point = dll.point /\ dll'.writer = dll.writer /\ dll'.start = dll.start
      /\ dll'.compatibility_mode = dll.compatibility_mode
  BY <1>2 DEF DllFields
<1>4. FileGivesBack' /\ PointWriter'
  BY <1>2, <1>3 DEF PointInv, Opened, FileGivesBack, PointWriter, IsRecoded
<1>. QED BY <1>2, <1>3, <1>4 DEF PointInv

\* Between writer and reader the file stays what it is.
LEMMA BetweenFilesPoints ==
  ASSUME IInv, PointInv, NEW clean, NEW compat, NEW exploit, BetweenFiles(clean, compat, exploit)
  PROVE  PointInv'
<1> DEFINE d == IF clean THEN NewDll ELSE dll
<1>1. DOMAIN dll = DllFields /\ DOMAIN NewDll = DllFields
  BY NewDllIsDll DEF IInv, HeaderInv, IsDll
<1>2. /\ phase = "file" /\ phase' = "reopen" /\ UNCHANGED <<disk, job, before, given, last>>
      /\ dll' = ExploitSpatialIndex(RequestCompatibilityMode(d, compat), exploit)
  BY DEF BetweenFiles
<1>3. DOMAIN d = DllFields /\ DOMAIN d.point = PointFields
  BY <1>1, <1>2 DEF PointInv, NewDll, PointFields
<1> HIDE DEF d
<1>4. dll'.point = d.point
  BY <1>2, <1>3 DEF ExploitSpatialIndex, RequestCompatibilityMode, DllFields
<1>5. FileGivesBack'
  BY <1>2 DEF PointInv, Opened, FileGivesBack
<1>. QED BY <1>2, <1>3, <1>4, <1>5 DEF PointInv

\* What laszip_close_writer() puts into the header does not tell points.
LEMMA CloseWriterPoints == ASSUME IInv, PointInv, CloseWriter PROVE PointInv'
<1> DEFINE file == disk.las.header
           g == UpdatedFile(file, dll.header, dll.inventory)
<1>1. /\ phase = "write" /\ phase' = "file" /\ UNCHANGED <<job, before, given, last>>
      /\ disk'.las = IF dll.inventory = None THEN disk.las ELSE [disk.las EXCEPT !.header = g]
      /\ DOMAIN dll = DllFields /\ dll'.point = dll.point
      /\ DOMAIN file = HeaderFields
      /\ DOMAIN disk.las = {"header", "starts_at", "compressed", "items", "points"}
  <2>1. DOMAIN dll = DllFields
    BY DEF IInv, HeaderInv, IsDll
  <2>2. dll'.point = dll.point
    BY <2>1 DEF CloseWriter, DllFields
  <2>. QED BY <2>1, <2>2 DEF CloseWriter, IInv, FileInv, Opened, IsHeader
<1>2. g.format = file.format /\ g.minor = file.minor /\ g.vlrs = file.vlrs
  BY <1>1 DEF UpdatedFile, HeaderFields
<1> HIDE DEF g
<1>3. /\ disk'.las.items = disk.las.items /\ disk'.las.points = disk.las.points
      /\ disk'.las.header.format = file.format /\ disk'.las.header.minor = file.minor
      /\ disk'.las.header.vlrs = file.vlrs
  BY <1>1, <1>2
<1>4. FileGivesBack
  BY <1>1 DEF PointInv, Opened
<1>5. FileGivesBack'
  <2> DEFINE las == disk.las
             more == disk'.las
             b == before
  <2>1. /\ IsReadable(las, b) => IsReadable(more, b)
        /\ \A item, p : GivesBack(las, b, item, p) => GivesBack(more, b, item, p)
    BY <1>3, SameFileGivesBack
  <2>. QED BY <1>1, <1>3, <1>4, <2>1 DEF FileGivesBack
<1>. QED BY <1>1, <1>5 DEF PointInv

\* The point has as many extra bytes as laszip_open_writer() set up for it.
LEMMA PointOfItems ==
  ASSUME NEW d, DOMAIN d = DllFields, DOMAIN d.point = PointFields, NEW items
  PROVE  /\ DOMAIN SetupItems(Accepted(d), items).point = PointFields
         /\ SetupItems(Accepted(d), items).point = SetupItems(d, items).point
         /\ \A f \in DllFields \ {"error", "point"} : SetupItems(Accepted(d), items)[f] = d[f]
<1> DEFINE a == Accepted(d)
<1>1. DOMAIN a = DllFields /\ a.point = d.point /\ \A f \in DllFields \ {"error"} : a[f] = d[f]
  BY DEF Accepted, DllFields
<1> HIDE DEF a
<1>2. CASE Last(items).type \in {"BYTE", "BYTE14"}
  <2> DEFINE bytes == [i \in 1..Last(items).size |-> 0]
  <2>1. /\ SetupItems(a, items) = [a EXCEPT !.point.extra_bytes = bytes]
        /\ SetupItems(d, items) = [d EXCEPT !.point.extra_bytes = bytes]
    BY <1>2 DEF SetupItems
  <2> HIDE DEF bytes
  <2>. QED BY <1>1, <2>1 DEF a, DllFields, PointFields, NewPoint
<1>3. CASE ~(Last(items).type \in {"BYTE", "BYTE14"})
  <2>1. SetupItems(a, items) = a /\ SetupItems(d, items) = d
    BY <1>3 DEF SetupItems
  <2>. QED BY <1>1, <2>1 DEF a, DllFields
<1>. QED BY <1>2, <1>3

\* laszip_open_writer() begins a file of points that can be given back.
LEMMA OpenWriterPoints ==
  ASSUME IInv, CountInv, PointInv, CarefulCaller, NEW compress \in BOOLEAN, OpenWriter(compress)
  PROVE  PointInv'
<1>1. PICK items, d :
        /\ items = WriterItems(dll, compress)
        /\ d = PreparedDll(SetupItems(Accepted(dll), items), compress)
        /\ \/ phase' = "refused"
           \/ /\ ~d.error /\ CanWriteHeader(d)
              /\ dll' = WithWriter(d, items) /\ phase' = "write"
              /\ disk'.las = FileOf(WrittenHeader(d.header, items, compress), items, compress)
  BY DEF OpenWriter
<1>2. /\ phase = "header" /\ before' = dll.header /\ UNCHANGED <<job, given, last>>
      /\ ~HasVlr(dll.header, CompatibilityVLR) /\ IsDll(dll) /\ DOMAIN dll = DllFields
  BY DEF OpenWriter, IInv, HeaderInv, IsDll
<1>3. /\ given = <<>> /\ dll.compatibility_mode = FALSE /\ last = 0
      /\ DOMAIN dll.point = PointFields
  BY <1>2 DEF CountInv, PointInv
<1>4. CASE phase' = "refused"
  BY <1>2, <1>3, <1>4 DEF PointInv, Opened
<1>5. CASE /\ ~d.error /\ CanWriteHeader(d)
           /\ dll' = WithWriter(d, items) /\ phase' = "write"
           /\ disk'.las = FileOf(WrittenHeader(d.header, items, compress), items, compress)
  <2> DEFINE c == SetupItems(Accepted(dll), items)
             b == dll.header
             nir == b.format \in {8, 10}
             las == FileOf(WrittenHeader(d.header, items, compress), items, compress)
             recoded == b.format > 5 /\ dll.compat
  <2>1. IsDll(c)
    <3>1. IsDll(Accepted(dll)) /\ DOMAIN Accepted(dll) = DllFields
      BY <1>2, RemarksKeepHeader, SameDll DEF IsDll
    <3>. QED BY <3>1, RemarksKeepHeader, SameDll
  <2>2. /\ DOMAIN c.point = PointFields /\ c.point = SetupItems(dll, items).point
        /\ c.header = b /\ c.compat = dll.compat /\ c.attributes = dll.attributes
        /\ c.compatibility_mode = FALSE
    BY <1>2, <1>3, PointOfItems DEF DllFields
  <2>3. d = PreparedDll(c, compress)
    BY <1>1
  <2> HIDE DEF c
  <2>4. recoded => ~job.index /\ DescribesItsBytes(dll)
    BY <1>2, <1>5 DEF CarefulCaller
  <2>5. recoded => DescribesItsBytes(c)
    BY <2>2, <2>4 DEF DescribesItsBytes
  <2>6. /\ DOMAIN d.point = PointFields /\ d.point.extra_bytes = c.point.extra_bytes
        /\ recoded =>
             /\ Existing(b) \in Nat /\ d.compatibility_mode = TRUE
             /\ d.start = Starts(Vlr(d.header, ExtraBytesVLR).data)
             /\ IsRecodedHeader(d.header, Existing(b), nir)
        /\ ~recoded =>
             /\ d.compatibility_mode = FALSE /\ ~HasVlr(d.header, CompatibilityVLR)
             /\ d.header.format = b.format
    <3>1. /\ DOMAIN PreparedDll(c, compress).point = PointFields
          /\ PreparedDll(c, compress).point.extra_bytes = c.point.extra_bytes
          /\ c.header.format > 5 /\ c.compat =>
               /\ Existing(c.header) \in Nat /\ PreparedDll(c, compress).compatibility_mode = TRUE
               /\ PreparedDll(c, compress).start
                    = Starts(Vlr(PreparedDll(c, compress).header, ExtraBytesVLR).data)
               /\ IsRecodedHeader(PreparedDll(c, compress).header, Existing(c.header),
                                  c.header.format \in {8, 10})
          /\ ~(c.header.format > 5 /\ c.compat) =>
               /\ PreparedDll(c, compress).compatibility_mode = FALSE
               /\ ~HasVlr(PreparedDll(c, compress).header, CompatibilityVLR)
               /\ PreparedDll(c, compress).header.format = c.header.format
      BY <1>2, <1>5, <2>1, <2>2, <2>3, <2>5, PreparedForPoints, ZenonT(40)
    <3>. QED BY <2>2, <2>3, <3>1
  <2>7. /\ IsDll(d) /\ IsHeader(d.header) /\ OffsetIsRight(d.header)
        /\ b.format \in 0..10 /\ b.length \in Int
    <3>1. IsDll(d)
      BY <1>2, <1>5, <2>1, <2>2, <2>3, PreparedKeepsSlack
    <3>. QED BY <1>2, <1>5, <3>1 DEF IsDll, IsHeader, CanWriteHeader
  <2>8. IsReadable(las, b)
    BY <1>1, <1>2, <2>6, <2>7, ReadableFile
  <2>9. /\ dll'.writer.items = items /\ dll'.point = d.point /\ dll'.start = d.start
        /\ dll'.compatibility_mode = d.compatibility_mode
    BY <1>5, <2>7 DEF WithWriter, IsDll, DllFields
  <2>10. las.items = items /\ las.points = <<>> /\ las.header = WrittenHeader(d.header, items, compress).header
    BY DEF FileOf
  <2>11. Len(items) \in Nat
    <3>1. dll.compat \in BOOLEAN
      BY <1>2 DEF IsDll
    <3>. QED BY <1>1, <2>7, <3>1, ItemsHaveALength DEF WriterItems
  <2>12. /\ las.header.format = d.header.format
         /\ \A id : HasVlr(d.header, id) => Vlr(las.header, id) = Vlr(d.header, id)
    BY <2>7, <2>10, <2>11, WrittenHeaderIsRight
  <2> HIDE DEF las
  <2>13. /\ disk'.las = las /\ before' = b
         /\ RecodedFrom(las.header, b) <=> recoded
    <3>1. recoded => d.header.format <= 5
      BY <2>6 DEF IsRecodedHeader
    <3>2. ~recoded => ~(d.header.format <= 5 /\ b.format > 5)
      BY <2>6, <2>7
    <3>. QED BY <1>2, <1>5, <2>12, <3>1, <3>2 DEF RecodedFrom, las
  <2>14. IsRecoded' <=> recoded
    BY <2>13 DEF IsRecoded, RecodedFrom
  <2>15. FileGivesBack'
    <3>1. <<>> \in Seq({}) /\ Len(<<>>) = 0 /\ given' = <<>>
      BY <1>2, <1>3
    <3> DEFINE points == <<>>
    <3>2. disk'.las.points = points /\ Len(points) = 0 /\ points \in Seq({})
      BY <2>10, <2>13, <3>1
    <3> HIDE DEF points
    <3>3. \E S : disk'.las.points \in Seq(S)
      <4> DEFINE T == {}
      <4>1. disk'.las.points \in Seq(T)
        BY <3>2
      <4> HIDE DEF T
      <4>. QED BY <4>1
    <3>4. Len(disk'.las.points) = 0 /\ Len(given') = 0
      BY <3>1, <3>2
    <3>5. 1..0 = {}
      OBVIOUS
    <3>. QED BY <2>8, <2>13, <3>3, <3>4, <3>5 DEF FileGivesBack
  <2>16. ASSUME recoded
         PROVE  /\ dll'.compatibility_mode = TRUE /\ dll'.start = FileStart(las.header)
                /\ ~job.index /\ HasRoom(dll'.point.extra_bytes, Existing(b), nir)
    <3>1. d.start = FileStart(las.header)
      BY <2>6, <2>12, <2>16 DEF FileStart, IsRecodedHeader
    <3>2. HasRoom(c.point.extra_bytes, Existing(b), nir)
      <4>1. b.format \in 6..10 /\ dll.compat = TRUE /\ Existing(b) >= 0 /\ DOMAIN dll = DOMAIN NewDll
        BY <1>2, <2>6, <2>7, <2>16, NewDllIsDll DEF IsDll
      <4>. QED BY <1>1, <1>3, <2>2, <2>7, <4>1, RoomForOldPoints
    <3>. QED BY <2>4, <2>6, <2>9, <2>16, <3>1, <3>2
  <2>17. PointWriter'
    <3>1. /\ dll'.writer.items = disk'.las.items
          /\ job' = job /\ before' = b /\ disk'.las = las
      BY <1>2, <2>9, <2>10, <2>13
    <3>2. ~recoded => dll'.compatibility_mode = FALSE
      BY <2>6, <2>9
    <3>. QED BY <2>14, <2>16, <3>1, <3>2 DEF PointWriter
  <2>18. DOMAIN dll'.point = PointFields /\ last' = 0
    BY <1>2, <1>3, <2>6, <2>9
  <2>. QED BY <1>5, <2>15, <2>17, <2>18 DEF PointInv
<1>. QED BY <1>1, <1>4, <1>5

\* A point is recoded, if the file says so, and put into the file.
LEMMA WriteNextPoints ==
  ASSUME IInv, CountInv, PointInv, CarefulCaller, WriteNext PROVE PointInv'
<1> DEFINE q == job.points[Len(given) + 1]
           p == Fitted(q)
           las == disk.las
           b == before
           nir == b.format \in {8, 10}
           recoded == RecodedFrom(las.header, b)
<1>1. /\ phase = "write" /\ Len(given) < Len(job.points)
      /\ WritePoint(p) /\ UNCHANGED <<job, before, last>>
  BY DEF WriteNext, WritePoint
<1>2. /\ DOMAIN dll = DllFields /\ DOMAIN disk = {"las", "lax"}
      /\ DOMAIN las = {"header", "starts_at", "compressed", "items", "points"}
      /\ job.points \in Seq(LaszipPoint) /\ b.format \in 0..10 /\ las.header.format \in 0..10
  <2>1. job \in Jobs
    BY DEF IInv, HeaderInv
  <2>2. DOMAIN dll = DllFields /\ b.format \in 0..10
    BY DEF IInv, HeaderInv, IsDll, CountInv
  <2>3. /\ DOMAIN disk = {"las", "lax"} /\ las.header.format \in 0..10
        /\ DOMAIN las = {"header", "starts_at", "compressed", "items", "points"}
    BY <1>1 DEF IInv, FileInv, Opened, IsHeader
  <2>. QED BY <2>1, <2>2, <2>3, JobsAssumption
<1>3. ArePoints(given) /\ Len(given) \in Nat
  <2>1. ArePoints(given)
    BY DEF CountInv
  <2>. QED BY <2>1 DEF ArePoints
<1>4. /\ FileGivesBack /\ PointWriter /\ DOMAIN dll.point = PointFields /\ last = 0
  BY <1>1 DEF PointInv, Opened
<1>5. q \in LaszipPoint
  <2> DEFINE S == LaszipPoint
  <2>1. job.points \in Seq(S) /\ Len(given) + 1 \in 1..Len(job.points)
    BY <1>1, <1>2, <1>3
  <2> HIDE DEF S
  <2>2. job.points[Len(given) + 1] \in S
    BY <2>1
  <2>. QED BY <2>2 DEF S
<1>6. DOMAIN q = PointFields
  BY <1>5 DEF LaszipPoint, PointFields, NewPoint
<1> HIDE DEF q
<1>7. /\ DOMAIN p = PointFields /\ \A f \in PointFields \ {"extra_bytes"} : p[f] = q[f]
      /\ dll.compatibility_mode = TRUE /\ q.extra_bytes = <<>> => p.extra_bytes = <<>>
      /\ p.extra_bytes # <<>> => DOMAIN p.extra_bytes = 1..Len(dll.point.extra_bytes)
  <2>1. CASE dll.compatibility_mode /\ q.extra_bytes = <<>>
    BY <1>6, <2>1 DEF Fitted
  <2>2. CASE ~(dll.compatibility_mode /\ q.extra_bytes = <<>>)
    <3> DEFINE bytes == [i \in 1..Len(dll.point.extra_bytes) |->
                           IF i <= Len(q.extra_bytes) THEN q.extra_bytes[i] ELSE 0]
    <3>1. p = [q EXCEPT !.extra_bytes = bytes]
      BY <2>2 DEF Fitted
    <3>2. DOMAIN bytes = 1..Len(dll.point.extra_bytes)
      OBVIOUS
    <3> HIDE DEF bytes, p
    <3>3. "extra_bytes" \in PointFields
      BY DEF PointFields, NewPoint
    <3>4. ~(dll.compatibility_mode = TRUE /\ q.extra_bytes = <<>>)
      BY <2>2
    <3>. QED BY <1>6, <3>1, <3>2, <3>3, <3>4
  <2>. QED BY <2>1, <2>2
<1>8. HasFields(p)
  BY <1>5, <1>7, FieldsOfPoint
<1>9. recoded <=> IsRecoded
  BY DEF RecodedFrom, IsRecoded
<1> HIDE DEF p
<1>10. CASE dll' = Refused(dll) /\ phase' = "refused"
  BY <1>1, <1>4, <1>10 DEF PointInv, Opened
<1>11. CASE /\ \E d \in {PointToWrite(SetPoint(dll, p))} :
                 /\ dll' = IF job.index THEN Indexed(d) ELSE Written(d)
                 /\ disk' = [disk EXCEPT !.las.points = Append(@, Stored(d.writer.items, d.point))]
            /\ given' = Append(given, p) /\ phase' = "write"
  <2> DEFINE c == SetPoint(dll, p)
             d == PointToWrite(c)
             w == c.point
             put == IF recoded THEN Distilled(w, FileStart(las.header)) ELSE w
             item == Stored(las.items, put)
             kept == {"compatibility_mode", "start", "writer"}
  <2>1. /\ dll' = IF job.index THEN Indexed(d) ELSE Written(d)
        /\ disk' = [disk EXCEPT !.las.points = Append(@, Stored(d.writer.items, d.point))]
    BY <1>11
  <2>2. /\ DOMAIN c = DllFields /\ \A f \in kept : c[f] = dll[f]
        /\ w = [p EXCEPT !.extra_bytes = IF @ = <<>> THEN dll.point.extra_bytes ELSE @]
    BY <1>2 DEF SetPoint, DllFields
  <2> HIDE DEF c
  <2>3. /\ DOMAIN w = PointFields /\ \A f \in PointFields \ {"extra_bytes"} : w[f] = p[f]
        /\ w.extra_bytes = IF p.extra_bytes = <<>> THEN dll.point.extra_bytes ELSE p.extra_bytes
    <3>1. "extra_bytes" \in PointFields
      BY DEF PointFields, NewPoint
    <3>. QED BY <1>7, <2>2, <3>1
  <2>4. recoded => HasRoom(w.extra_bytes, Existing(b), nir)
    <3>1. SUFFICES ASSUME recoded PROVE HasRoom(w.extra_bytes, Existing(b), nir)
      OBVIOUS
    <3>2. HasRoom(dll.point.extra_bytes, Existing(b), nir)
      BY <1>4, <1>9, <3>1 DEF PointWriter
    <3>3. CASE p.extra_bytes = <<>>
      BY <2>3, <3>2, <3>3
    <3>4. CASE p.extra_bytes # <<>>
      <4>1. /\ w.extra_bytes = p.extra_bytes
            /\ DOMAIN p.extra_bytes = 1..Len(dll.point.extra_bytes)
        BY <1>7, <2>3, <3>4
      <4>2. DOMAIN dll.point.extra_bytes = 1..Len(dll.point.extra_bytes)
        BY <3>2 DEF HasRoom
      <4>. QED BY <3>2, <4>1, <4>2 DEF HasRoom
    <3>. QED BY <3>3, <3>4
  <2>5. d.point = put /\ DOMAIN d = DllFields /\ \A f \in kept : d[f] = dll[f]
    <3>1. CASE recoded
      <4>1. ~job.index /\ c.compatibility_mode = TRUE /\ c.start = FileStart(las.header)
        BY <1>4, <1>9, <2>2, <3>1 DEF PointWriter
      <4>2. d = [c EXCEPT !.point = Distilled(w, c.start)]
        BY <4>1 DEF PointToWrite, WithRecoding
      <4> HIDE DEF d
      <4>. QED BY <2>2, <3>1, <4>1, <4>2 DEF DllFields
    <3>2. CASE ~recoded
      <4>1. c.compatibility_mode = FALSE
        BY <1>4, <1>9, <2>2, <3>2 DEF PointWriter
      <4>2. d.point = w /\ DOMAIN d = DllFields /\ \A f \in kept : d[f] = c[f]
        BY <2>2, <4>1 DEF PointToWrite, WithRecoding, DllFields
      <4> HIDE DEF d
      <4>. QED BY <2>2, <3>2, <4>2
    <3>. QED BY <3>1, <3>2
  <2> HIDE DEF d
  <2>6. dll'.point = put /\ \A f \in kept : dll'[f] = dll[f]
    BY <2>1, <2>5 DEF Indexed, Written, DllFields
  <2>7. /\ Len(given') = Len(given) + 1 /\ given'[Len(given) + 1] = p
        /\ \A i \in 1..Len(given) : given'[i] = given[i]
    <3>1. PICK S : given \in Seq(S)
      BY <1>3 DEF ArePoints
    <3>. QED BY <1>11, <3>1
  <2>8. b.format > 5 => IsCarefulPoint(p, recoded)
    <3>1. given' # given
      BY <1>3, <2>7
    <3>2. before.format > 5 => IsCarefulPoint(p, IsRecoded)
      BY <2>7, <3>1 DEF CarefulCaller
    <3>. QED BY <1>9, <3>2 DEF IsCarefulPoint
  <2>9. /\ DOMAIN put = PointFields
        /\ recoded => HasRoom(put.extra_bytes, Existing(b), nir)
        /\ GivesBack(las, b, item, p)
    <3>1. IsReadable(las, b)
      BY <1>4 DEF FileGivesBack
    <3>2. p.extra_bytes # <<>> => w.extra_bytes = p.extra_bytes
      BY <2>3
    <3> HIDE DEF recoded, w
    <3>3. recoded = RecodedFrom(las.header, b) /\ put = IF recoded THEN Distilled(w, FileStart(las.header)) ELSE w
      BY DEF recoded
    <3> HIDE DEF put
    <3>. QED BY <1>2, <1>8, <2>3, <2>4, <2>8, <3>1, <3>2, <3>3, PointIsGivenBack
  <2>10. /\ disk'.las.header = las.header /\ disk'.las.items = las.items
         /\ disk'.las.points = Append(las.points, item)
    <3>1. d.writer.items = las.items
      BY <1>4, <2>5 DEF PointWriter
    <3>2. disk' = [disk EXCEPT !.las.points = Append(@, item)]
      BY <2>1, <2>5, <3>1
    <3> HIDE DEF item
    <3>. QED BY <1>2, <3>2
  <2> HIDE DEF put, item, w
  <2>11. /\ \E S : disk'.las.points \in Seq(S)
         /\ Len(disk'.las.points) = Len(given) + 1
         /\ disk'.las.points[Len(given) + 1] = item
         /\ \A i \in 1..Len(given) : disk'.las.points[i] = las.points[i]
    <3>1. PICK S : las.points \in Seq(S)
      BY <1>4 DEF FileGivesBack
    <3>2. Len(las.points) = Len(given)
      BY <1>4 DEF FileGivesBack
    <3> DEFINE T == S \cup {item}
    <3>3. las.points \in Seq(T) /\ item \in T
      BY <3>1
    <3> HIDE DEF T
    <3>4. Append(las.points, item) \in Seq(T)
      BY <3>3
    <3>. QED BY <1>3, <2>10, <3>2, <3>3, <3>4
  <2>12. FileGivesBack'
    <3> DEFINE more == disk'.las
    <3>1. /\ IsReadable(las, b) => IsReadable(more, b)
          /\ \A x, y : GivesBack(las, b, x, y) => GivesBack(more, b, x, y)
      BY <2>10, SameFileGivesBack
    <3>2. ASSUME NEW i \in 1..Len(given') PROVE GivesBack(more, b, more.points[i], given'[i])
      <4>1. CASE i = Len(given) + 1
        BY <2>7, <2>9, <2>11, <3>1, <4>1
      <4>2. CASE i \in 1..Len(given)
        BY <1>4, <2>7, <2>11, <3>1, <4>2 DEF FileGivesBack
      <4>. QED BY <1>3, <2>7, <4>1, <4>2
    <3>3. before' = b
      BY <1>1
    <3>. QED BY <1>4, <2>7, <2>11, <3>1, <3>2, <3>3 DEF FileGivesBack
  <2>13. PointWriter'
    <3>1. (IsRecoded' <=> IsRecoded) /\ before' = before /\ job' = job
      BY <1>1, <2>10 DEF IsRecoded
    <3>2. FileStart(disk'.las.header) = FileStart(las.header)
      BY <2>10
    <3>3. dll'.writer.items = disk'.las.items
      BY <1>4, <2>6, <2>10 DEF PointWriter
    <3>4. IsRecoded => HasRoom(dll'.point.extra_bytes, Existing(b), nir)
      BY <1>9, <2>6, <2>9
    <3>. QED BY <1>4, <2>6, <3>1, <3>2, <3>3, <3>4 DEF PointWriter
  <2>14. DOMAIN dll'.point = PointFields /\ last' = 0
    BY <1>1, <1>4, <2>6, <2>9
  <2>. QED BY <1>11, <2>12, <2>13, <2>14 DEF PointInv
<1>. QED BY <1>1, <1>10, <1>11 DEF WritePoint

\* What laszip_read_header() makes of a file's header tells points as the file's.
LEMMA HeaderTellsPoints ==
  ASSUME NEW d, NEW las, IsHeader(las.header), CompatibilityHasExtraBytes(las.header)
  PROVE  LET h == HeaderOf(d, las) IN
         /\ h.format = las.header.format /\ h.length = las.header.length
         /\ h.minor = las.header.minor
         /\ \A id : HasVlr(h, id) => HasVlr(las.header, id)
         /\ \A id : id # LASzipVLR /\ HasVlr(las.header, id) =>
              HasVlr(h, id) /\ Vlr(h, id) = Vlr(las.header, id)
<1> DEFINE file == las.header
           f == [file EXCEPT
                   !.extended = IF file.minor >= 4 THEN @ ELSE d.header.extended,
                   !.gps = IF file.minor >= 5 THEN @ ELSE d.header.gps]
           h == HeaderOf(d, las)
<1>1. h = ReadBack(f)
  BY DEF HeaderOf
<1>2. /\ DOMAIN f = HeaderFields /\ f.vlrs = file.vlrs /\ f.minor = file.minor
      /\ f.format = file.format /\ f.length = file.length /\ f.size = file.size + 0
      /\ f.offset = file.offset + 0 /\ f.after = file.after
      /\ f.minor \in 0..5 /\ f.format \in 0..10 /\ f.length \in Int
  BY DEF IsHeader, HeaderFields
<1> HIDE DEF f, h
<1>3. IsHeader(f)
  BY <1>2, HeaderWithSameVlrs
<1>4. \A id : (HasVlr(f, id) <=> HasVlr(file, id)) /\ Vlr(f, id) = Vlr(file, id)
  BY <1>2 DEF HasVlr, Vlr, Where
<1>5. /\ h.format = f.format /\ h.length = f.length
      /\ \A id : id # LASzipVLR /\ HasVlr(f, id) => HasVlr(h, id) /\ Vlr(h, id) = Vlr(f, id)
  BY <1>1, <1>3, ReadBackHasNoSlack
<1>6. h.minor = f.minor
  BY <1>1, <1>3, ReadBackIsAboutVlrs DEF HeaderFields, VlrFields
<1>7. \A id : HasVlr(h, id) => HasVlr(f, id)
  BY <1>1, <1>3, NoVlrIsReadBack
<1>. QED BY <1>2, <1>4, <1>5, <1>6, <1>7 DEF h

\* What the object e is after the object c has read the header h.
HasOpened(e, c, h, start, items) ==
  /\ DOMAIN e.point = PointFields /\ e.compat = c.compat
  /\ DOMAIN e.reader = {"items", "at"} /\ e.reader.items = items /\ e.reader.at = 0
  /\ e.p_count = 0 /\ IsIndex(e.lax)
  /\ c.compat /\ IsCompatible(h) /\ HasAllStarts(start) =>
       e.compatibility_mode = TRUE /\ e.start = start
  /\ ~(c.compat /\ IsCompatible(h)) => e.compatibility_mode = FALSE

\* Reader and mode of an object that has read a header.
LEMMA ReaderOfHeader ==
  ASSUME NEW c, DOMAIN c = DllFields, DOMAIN c.point = PointFields, NEW h, NEW start, NEW items,
         NEW lax
  PROVE  HasOpened(WithReader(WithHeader(c, h, start), items, lax), c, h, start, items)
<1> DEFINE d == WithHeader(c, h, start)
           e == WithReader(d, items, lax)
<1>1. /\ DOMAIN d = DllFields /\ DOMAIN d.point = PointFields /\ d.compat = c.compat
      /\ c.compat /\ IsCompatible(h) /\ HasAllStarts(start) =>
           d.compatibility_mode = TRUE /\ d.start = start
      /\ ~(c.compat /\ IsCompatible(h)) => d.compatibility_mode = FALSE
  <2>1. CASE ~(c.compat /\ IsCompatible(h))
    BY <2>1 DEF WithHeader, DllFields, PointFields, NewPoint
  <2>2. CASE c.compat /\ IsCompatible(h) /\ ~HasAllStarts(start)
    BY <2>2 DEF WithHeader, DllFields
  <2>3. CASE c.compat /\ IsCompatible(h) /\ HasAllStarts(start)
    <3> DEFINE g == Upgraded(h, start)
    <3>1. d = [c EXCEPT !.header = g, !.start = start, !.compatibility_mode = TRUE,
                        !.point.extended_point_type = 1]
      BY <2>3 DEF WithHeader
    <3> HIDE DEF g, d
    <3>. QED BY <2>3, <3>1 DEF DllFields, PointFields, NewPoint
  <2>. QED BY <2>1, <2>2, <2>3
<1> HIDE DEF d
<1>2. /\ e.point = d.point /\ e.compat = d.compat /\ e.start = d.start
      /\ e.compatibility_mode = d.compatibility_mode
      /\ e.reader = [items |-> items, at |-> 0] /\ e.p_count = 0
      /\ e.lax = IF d.lax_exploit /\ lax # None THEN Restored(lax) ELSE None
  BY <1>1 DEF WithReader, DllFields
<1> HIDE DEF e
<1>3. IsIndex(e.lax)
  <2>1. IsIndex(None) /\ IsIndex(Restored(lax))
    BY DEF IsIndex, Restored
  <2>. QED BY <1>2, <2>1
<1>4. HasOpened(e, c, h, start, items)
  BY <1>1, <1>2, <1>3 DEF HasOpened
<1>. QED BY <1>4 DEF d, e

\* laszip_open_reader() takes the points for what the file says they are.
LEMMA OpenReaderPoints ==
  ASSUME IInv, CountInv, PointInv, OpenReader PROVE PointInv'
<1> DEFINE las == disk.las
           file == las.header
           b == before
           h == HeaderOf(dll, las)
           start == StartsIn(dll, h)
           items == ReaderItems(h, las)
           c == SetupItems(Accepted(dll), items)
<1>1. /\ phase = "reopen" /\ UNCHANGED <<disk, job, before, given, last>>
      /\ DOMAIN dll = DllFields /\ DOMAIN dll.point = PointFields /\ last = 0
      /\ IsHeader(file) /\ CompatibilityHasExtraBytes(file) /\ FileGivesBack
      /\ b.format \in 0..10
  BY DEF OpenReader, IInv, HeaderInv, FileInv, Opened, IsDll, PointInv, CountInv
<1>2. \/ phase' = "refused"
      \/ dll' = WithReader(WithHeader(c, h, start), items, disk.lax) /\ phase' = "read"
  BY DEF OpenReader
<1>3. CASE phase' = "refused"
  BY <1>1, <1>3 DEF PointInv, Opened
<1>4. CASE dll' = WithReader(WithHeader(c, h, start), items, disk.lax) /\ phase' = "read"
  <2>1. /\ h.format = file.format /\ h.length = file.length /\ h.minor = file.minor
        /\ \A id : HasVlr(h, id) => HasVlr(file, id)
        /\ \A id : id # LASzipVLR /\ HasVlr(file, id) => HasVlr(h, id) /\ Vlr(h, id) = Vlr(file, id)
    BY <1>1, HeaderTellsPoints
  <2> HIDE DEF h
  <2>2. Types(items) = Types(las.items)
    <3>1. CASE las.compressed
      BY <3>1 DEF ReaderItems
    <3>2. CASE ~las.compressed
      BY <1>1, <2>1, <3>2 DEF ReaderItems, IInv, FileInv, FileDescribesItself, Opened
    <3>. QED BY <3>1, <3>2
  <2> HIDE DEF items
  <2>3. DOMAIN c = DllFields /\ DOMAIN c.point = PointFields /\ c.compat = dll.compat
    <3>1. DOMAIN c.point = PointFields /\ c.compat = dll.compat
      BY <1>1, PointOfItems DEF DllFields
    <3>2. DOMAIN c = DllFields
      BY <1>1 DEF SetupItems, Accepted
    <3>. QED BY <3>1, <3>2
  <2> HIDE DEF c, start
  <2>4. /\ DOMAIN dll'.point = PointFields /\ dll'.compat = dll.compat
        /\ DOMAIN dll'.reader = {"items", "at"} /\ dll'.reader.items = items
        /\ dll'.reader.at = 0 /\ dll'.p_count = 0 /\ IsIndex(dll'.lax)
        /\ dll.compat /\ IsCompatible(h) /\ HasAllStarts(start) =>
             dll'.compatibility_mode = TRUE /\ dll'.start = start
        /\ ~(dll.compat /\ IsCompatible(h)) => dll'.compatibility_mode = FALSE
    <3>1. HasOpened(dll', c, h, start, items)
      BY <1>4, <2>3, ReaderOfHeader
    <3>. QED BY <2>3, <3>1 DEF HasOpened
  <2>5. IsReadable(las, b) /\ (RecodedFrom(file, b) <=> IsRecoded)
    BY <1>1 DEF FileGivesBack, RecodedFrom, IsRecoded
  <2>6. ASSUME IsRecoded
        PROVE  IsCompatible(h) /\ HasAllStarts(start) /\ start = FileStart(file)
    <3>1. Existing(b) \in Nat /\ IsRecodedHeader(file, Existing(b), b.format \in {8, 10})
      BY <2>5, <2>6 DEF IsReadable
    <3>2. ExtraBytesVLR # LASzipVLR /\ CompatibilityVLR # LASzipVLR
      BY DEF ExtraBytesVLR, LASzipVLR, CompatibilityVLR
    <3>3. IsCompatible(h)
      BY <2>1, <3>1, <3>2 DEF IsRecodedHeader, IsCompatible
    <3>4. start = FileStart(file)
      BY <2>1, <3>1, <3>2 DEF IsRecodedHeader, FileStart, StartsIn, start
    <3>5. IsLayout(start, Existing(b), b.format \in {8, 10})
      BY <3>1, <3>4 DEF IsRecodedHeader, FileStart
    <3>6. HasAllStarts(start)
      BY <3>1, <3>5 DEF IsLayout, HasAllStarts
    <3>. QED BY <3>3, <3>4, <3>6
  <2>7. ASSUME ~IsRecoded PROVE ~IsCompatible(h)
    <3>1. file.format <= 5 => ~HasVlr(file, CompatibilityVLR)
      BY <2>5, <2>7 DEF IsReadable
    <3>. QED BY <2>1, <3>1 DEF IsCompatible
  <2>8. ReadsItems'
    <3>1. (IsRecoded' <=> IsRecoded) /\ disk' = disk
      BY <1>1 DEF IsRecoded
    <3>2. IsRecoded /\ dll.compat =>
            dll'.compatibility_mode = TRUE /\ dll'.start = FileStart(file)
      BY <2>4, <2>6
    <3>3. ~(IsRecoded /\ dll.compat) => dll'.compatibility_mode = FALSE
      BY <2>4, <2>7
    <3>. QED BY <2>2, <2>4, <3>1, <3>2, <3>3 DEF ReadsItems
  <2>9. FileGivesBack' /\ last' = 0
    BY <1>1 DEF FileGivesBack
  <2>. QED BY <1>4, <2>4, <2>8, <2>9 DEF PointInv, HasReadLast
<1>. QED BY <1>2, <1>3, <1>4

\* What a point that is read or sought leaves as it was.
StillReads(e, d) ==
  /\ DOMAIN e = DllFields /\ DOMAIN e.point = PointFields
  /\ DOMAIN e.reader = {"items", "at"} /\ e.reader.items = d.reader.items
  /\ e.reader.at \in Nat /\ e.p_count \in Nat /\ IsIndex(e.lax)
  /\ e.compat = d.compat /\ e.compatibility_mode = d.compatibility_mode /\ e.start = d.start

\* So do the steps that reading and seeking are made of.
LEMMA StepsStillRead ==
  ASSUME NEW d, StillReads(d, d)
  PROVE  /\ StillReads(Refused(d), d) /\ StillReads(Accepted(d), d)
         /\ \A place : StillReads(PastTheEnd(d, place), d)
         /\ StillReads(NextRead(d), d)
         /\ StillReads(WithExtended(d), d)
         /\ \A target \in Nat : StillReads(SeekTo(d, target), d)
         /\ \A error : StillReads([d EXCEPT !.error = error], d)
         /\ \A lax, error : IsIndex(lax) =>
              /\ StillReads([d EXCEPT !.lax = lax], d)
              /\ StillReads([d EXCEPT !.lax = lax, !.error = error], d)
<1>1. /\ DOMAIN d = DllFields /\ DOMAIN d.point = PointFields
      /\ DOMAIN d.reader = {"items", "at"} /\ d.reader.at \in Nat /\ d.p_count \in Nat
      /\ IsIndex(d.lax)
  BY DEF StillReads
<1>2. StillReads(Refused(d), d) /\ StillReads(Accepted(d), d)
  BY <1>1 DEF StillReads, Refused, Accepted, DllFields
<1>3. ASSUME NEW place PROVE StillReads(PastTheEnd(d, place), d)
  BY <1>1 DEF StillReads, PastTheEnd, DllFields
<1>4. StillReads(NextRead(d), d)
  <2> DEFINE p == Loaded(d.reader.items, d.point, Points[d.reader.at + 1])
  <2>1. NextRead(d) = [d EXCEPT !.point = p, !.reader.at = @ + 1, !.p_count = @ + 1,
                                !.error = FALSE]
    BY DEF NextRead
  <2>2. DOMAIN p = PointFields
    BY <1>1, ReadingKeepsFields
  <2> HIDE DEF p
  <2>. QED BY <1>1, <2>1, <2>2 DEF StillReads, DllFields
<1>5. StillReads(WithExtended(d), d)
  <2> DEFINE p == IF d.compatibility_mode THEN Instilled(d.point, d.start) ELSE d.point
  <2>1. WithExtended(d) = [d EXCEPT !.point = p]
    BY DEF WithExtended
  <2>2. DOMAIN p = PointFields
    BY <1>1, ReadingKeepsFields
  <2> HIDE DEF p
  <2>. QED BY <1>1, <2>1, <2>2 DEF StillReads, DllFields
<1>6. ASSUME NEW target \in Nat PROVE StillReads(SeekTo(d, target), d)
  BY <1>1 DEF StillReads, SeekTo, DllFields
<1>7. ASSUME NEW lax, NEW error, IsIndex(lax)
      PROVE  /\ StillReads([d EXCEPT !.lax = lax], d)
             /\ StillReads([d EXCEPT !.lax = lax, !.error = error], d)
  BY <1>1, <1>7 DEF StillReads, DllFields
<1>8. ASSUME NEW error PROVE StillReads([d EXCEPT !.error = error], d)
  BY <1>1 DEF StillReads, DllFields
<1>. QED BY <1>2, <1>3, <1>4, <1>5, <1>6, <1>7, <1>8

\* Reading intervals leaves an index what it is.
LEMMA IndexStays ==
  ASSUME NEW lax, "at" \in DOMAIN lax
  PROVE  /\ \A p_count : IsIndex(LeaveAt(lax, p_count))
         /\ "at" \in DOMAIN TakeNext(lax)
         /\ \A r : IsIndex(Query(lax, r))
<1>1. \A p_count : "at" \in DOMAIN LeaveAt(lax, p_count)
  BY DEF LeaveAt
<1>2. "at" \in DOMAIN TakeNext(lax)
  BY DEF TakeNext
<1>3. \A r : "at" \in DOMAIN Query(lax, r)
  BY DEF Query
<1>. QED BY <1>1, <1>2, <1>3 DEF IsIndex

\* One after the other.
LEMMA StillReadsOn ==
  ASSUME NEW d, StillReads(d, d), NEW e, StillReads(e, d)
  PROVE  StillReads(e, e) /\ \A f : StillReads(f, e) => StillReads(f, d)
BY DEF StillReads

\* While the reader is open it takes the points for what the file says they are.
LEMMA OpenReaderReads ==
  ASSUME IInv, PointInv, phase \in {"read", "inside"}
  PROVE  /\ StillReads(dll, dll) /\ FileGivesBack /\ ReadsItems /\ HasReadLast
         /\ IsReadable(disk.las, before)
<1>1. DOMAIN dll = DllFields
  BY DEF IInv, HeaderInv, IsDll
<1>. QED BY <1>1 DEF PointInv, Opened, ReadsItems, StillReads, FileGivesBack

\* A step to another point, or to none, leaves the file and what it is taken for.
LEMMA ReadingOn ==
  ASSUME IInv, PointInv, phase \in {"read", "inside"}, phase' \in {"read", "inside"},
         UNCHANGED <<disk, before, given>>, StillReads(dll', dll), HasReadLast'
  PROVE  PointInv'
<1>1. FileGivesBack /\ ReadsItems
  BY OpenReaderReads
<1>2. FileGivesBack'
  BY <1>1 DEF FileGivesBack
<1>3. IsRecoded' <=> IsRecoded
  BY DEF IsRecoded
<1>4. ReadsItems'
  BY <1>1, <1>3 DEF ReadsItems, StillReads
<1>. QED BY <1>2, <1>4 DEF PointInv, StillReads

\* laszip_read_point() returns the point that was given, if there is one.
LEMMA ReadPointPoints == ASSUME IInv, CountInv, PointInv, ReadPoint PROVE PointInv'
<1>1. /\ phase = "read" /\ phase' = "read" /\ UNCHANGED <<disk, before, given>>
  BY DEF ReadPoint
<1>2. /\ StillReads(dll, dll) /\ FileGivesBack /\ ReadsItems /\ HasReadLast
      /\ IsReadable(disk.las, before)
  BY <1>1, OpenReaderReads
<1>3. IsRecoded' <=> IsRecoded
  BY <1>1 DEF IsRecoded
<1>4. CASE AtPoint(dll) /\ dll' = WithExtended(NextRead(dll)) /\ last' = dll.reader.at + 1
  <2> DEFINE n == NextRead(dll)
             i == dll.reader.at + 1
             item == Points[i]
             p == Loaded(dll.reader.items, dll.point, item)
  <2>1. StillReads(n, dll) /\ StillReads(WithExtended(n), n)
    BY <1>2, StepsStillRead, StillReadsOn
  <2>2. StillReads(dll', dll)
    BY <1>2, <1>4, <2>1, StillReadsOn
  <2>3. i \in 1..Len(given) /\ GivesBack(disk.las, before, item, given[i])
    <3>1. Len(Points) = Len(given) /\ dll.reader.at \in Nat /\ dll.reader.at < Len(Points)
      BY <1>2, <1>4 DEF FileGivesBack, ReadsItems, AtPoint, Points
    <3>2. Len(given) \in Nat
      BY DEF CountInv, ArePoints
    <3>3. i \in 1..Len(given)
      BY <3>1, <3>2
    <3>. QED BY <1>2, <3>3 DEF FileGivesBack, Points
  <2>4. n.point = p /\ n.compatibility_mode = dll.compatibility_mode /\ n.start = dll.start
        /\ DOMAIN n = DllFields
    <3>1. DOMAIN dll = DllFields
      BY <1>2 DEF StillReads
    <3> HIDE DEF p
    <3>2. n = [dll EXCEPT !.point = p, !.reader.at = @ + 1, !.p_count = @ + 1, !.error = FALSE]
      BY DEF NextRead, p
    <3> HIDE DEF n
    <3>. QED BY <3>1, <3>2 DEF DllFields
  <2>5. p = Loaded(disk.las.items, dll.point, item)
    BY <1>2 DEF Loaded, ReadsItems
  <2>6. DOMAIN dll.point = PointFields
    BY <1>2 DEF StillReads
  <2> DEFINE back == ReadFrom(disk.las, before, dll.point, item)
  <2> HIDE DEF n, p, item
  <2>7. (IsRecoded => dll.compat) => dll'.point = back
    <3>1. dll'.point = IF dll.compatibility_mode THEN Instilled(p, dll.start) ELSE p
      BY <1>4, <2>4 DEF WithExtended, DllFields, n
    <3>2. CASE IsRecoded /\ dll.compat
      <4>1. dll.compatibility_mode = TRUE /\ dll.start = FileStart(disk.las.header)
        BY <1>2, <3>2 DEF ReadsItems
      <4>2. RecodedFrom(disk.las.header, before)
        BY <3>2 DEF RecodedFrom, IsRecoded
      <4>. QED BY <2>5, <3>1, <4>1, <4>2 DEF ReadFrom
    <3>3. CASE ~IsRecoded
      <4>1. dll.compatibility_mode = FALSE
        BY <1>2, <3>3 DEF ReadsItems
      <4>2. ~RecodedFrom(disk.las.header, before)
        BY <3>3 DEF RecodedFrom, IsRecoded
      <4>. QED BY <2>5, <3>1, <4>1, <4>2 DEF ReadFrom
    <3>. QED BY <3>2, <3>3
  <2>8. IsSamePoint(given[i], back, before)
    BY <2>3, <2>6 DEF GivesBack
  <2>9. dll'.compat = dll.compat
    BY <2>2 DEF StillReads
  <2> HIDE DEF i, back
  <2>10. last' = i
    BY <1>4 DEF i
  <2>11. HasReadLast'
    BY <1>1, <1>3, <2>7, <2>8, <2>9, <2>10 DEF HasReadLast
  <2>. QED BY <1>1, <2>2, <2>11, ReadingOn
<1>5. CASE dll' = Refused(dll) /\ last' = last
  <2>1. StillReads(dll', dll)
    BY <1>2, <1>5, StepsStillRead
  <2>2. dll'.point = dll.point /\ dll'.compat = dll.compat
    BY <1>2, <1>5 DEF Refused, StillReads, DllFields
  <2>3. HasReadLast'
    BY <1>1, <1>2, <1>3, <1>5, <2>2 DEF HasReadLast
  <2>. QED BY <1>1, <2>1, <2>3, ReadingOn
<1>6. CASE (\E place \in Strange : dll' = PastTheEnd(dll, place)) /\ last' = 0
  <2>1. StillReads(dll', dll)
    BY <1>2, <1>6, StepsStillRead
  <2>2. HasReadLast'
    BY <1>6 DEF HasReadLast
  <2>. QED BY <1>1, <2>1, <2>2, ReadingOn
<1>. QED BY <1>4, <1>5, <1>6 DEF ReadPoint

\* laszip_read_inside_point() goes from point to point, by numbers of points.
LEMMA ReadInsidePoints ==
  ASSUME IInv, PointInv, IndexGivesNumbers, ReadInsidePoint PROVE PointInv'
<1>1. /\ phase = "inside" /\ phase' \in {"read", "inside"} /\ UNCHANGED <<disk, before, given>>
      /\ last' = 0
  BY DEF ReadInsidePoint, ReadIndexed, ReadOn, NoMorePoints
<1>2. StillReads(dll, dll) /\ IsIndex(dll.lax)
  BY <1>1, OpenReaderReads DEF StillReads
<1>3. SUFFICES StillReads(dll', dll)
  BY <1>1, ReadingOn DEF HasReadLast
<1>4. CASE ReadIndexed
  <2>1. PICK d : d = Sought(dll) /\ dll' = IF AtPoint(d) THEN NextRead(d) ELSE d
    BY <1>4 DEF ReadIndexed
  <2>0. dll.lax # None /\ "at" \in DOMAIN dll.lax
    BY <1>2, <1>4 DEF ReadIndexed, IsIndex
  <2>2. StillReads(d, dll)
    <3>1. CASE dll.lax.at.have
      <4> DEFINE lax == LeaveAt(dll.lax, dll.p_count)
      <4>1. d = [dll EXCEPT !.lax = lax]
        BY <2>1, <3>1 DEF Sought
      <4>2. IsIndex(lax)
        BY <2>0, IndexStays
      <4> HIDE DEF lax
      <4>. QED BY <1>2, <4>1, <4>2, StepsStillRead
    <3>2. CASE ~dll.lax.at.have
      <4> DEFINE next == TakeNext(dll.lax)
                 target == next.at.start
                 s == SeekTo(dll, target)
                 lax == LeaveAt(next, target)
      <4>1. target \in Nat
        <5> DEFINE queue == dll.lax.queue
        <5>1. queue \in Seq(Nat \X Nat) /\ queue # <<>>
          BY <1>4, <3>2 DEF ReadIndexed, IndexGivesNumbers, HasNext
        <5>2. Head(queue) \in Nat \X Nat
          <6> DEFINE S == Nat \X Nat
          <6>1. queue \in Seq(S) /\ queue # <<>>
            BY <5>1
          <6> HIDE DEF S, queue
          <6>2. Head(queue) \in S
            BY <6>1
          <6>. QED BY <6>2 DEF S, queue
        <5>3. target = Head(queue)[1]
          <6>1. next = [dll.lax EXCEPT !.queue = Tail(@),
                          !.at = [have |-> TRUE, start |-> Head(queue)[1], end |-> Head(queue)[2]]]
            BY <3>2 DEF TakeNext
          <6>. QED BY <2>0, <6>1
        <5> HIDE DEF queue, target
        <5>. QED BY <5>2, <5>3
      <4>2. d = [s EXCEPT !.lax = lax]
        BY <2>1, <3>2 DEF Sought
      <4>6. IsIndex(lax)
        <5>1. "at" \in DOMAIN next
          BY <2>0, IndexStays
        <5> HIDE DEF next, target
        <5>. QED BY <5>1, IndexStays
      <4> HIDE DEF target
      <4>3. StillReads(s, dll)
        BY <1>2, <4>1, StepsStillRead
      <4> HIDE DEF s, lax
      <4>4. StillReads(s, s)
        BY <1>2, <4>3, StillReadsOn
      <4>5. StillReads(d, s)
        BY <4>2, <4>4, <4>6, StepsStillRead
      <4>. QED BY <1>2, <4>3, <4>5, StillReadsOn
    <3>. QED BY <3>1, <3>2
  <2>3. StillReads(d, d)
    BY <1>2, <2>2, StillReadsOn
  <2>4. StillReads(NextRead(d), d)
    BY <2>3, StepsStillRead
  <2>5. StillReads(NextRead(d), dll)
    BY <1>2, <2>2, <2>4, StillReadsOn
  <2>. QED BY <2>1, <2>2, <2>5
<1>5. CASE ReadOn
  <2>1. dll' = NextRead(dll) \/ \E place \in Strange : dll' = PastTheEnd(dll, place)
    BY <1>5 DEF ReadOn, NextReads
  <2>. QED BY <1>2, <2>1, StepsStillRead
<1>6. CASE NoMorePoints
  <2>1. \E error : dll' = [dll EXCEPT !.error = error]
    BY <1>6 DEF NoMorePoints
  <2>. QED BY <1>2, <2>1, StepsStillRead
<1>. QED BY <1>4, <1>5, <1>6 DEF ReadInsidePoint

\* The other calls of a reader go to another point, or to none.
LEMMA SeekPoints ==
  ASSUME IInv, CountInv, PointInv, NEW target \in job.targets, SeekPoint(target) PROVE PointInv'
<1>1. /\ phase = "read" /\ phase' = "read" /\ UNCHANGED <<disk, before, given>>
      /\ last' = 0 /\ dll' = Accepted(SeekTo(dll, target))
  BY DEF SeekPoint
<1>2. StillReads(dll, dll)
  BY <1>1, OpenReaderReads
<1>3. target \in Nat
  <2>1. job \in Jobs
    BY DEF IInv, HeaderInv
  <2>. QED BY <2>1, JobsAssumption
<1> DEFINE s == SeekTo(dll, target)
<1>4. StillReads(s, dll)
  BY <1>2, <1>3, StepsStillRead
<1>5. dll' = Accepted(s)
  BY <1>1
<1> HIDE DEF s
<1>6. StillReads(s, s)
  BY <1>2, <1>4, StillReadsOn
<1>7. StillReads(dll', s)
  BY <1>5, <1>6, StepsStillRead
<1>8. StillReads(dll', dll)
  BY <1>2, <1>4, <1>7, StillReadsOn
<1>. QED BY <1>1, <1>8, ReadingOn DEF HasReadLast

\* laszip_inside_rectangle() asks the index and leaves the point alone.
LEMMA InsideRectanglePoints ==
  ASSUME IInv, PointInv, NEW r, InsideRectangle(r) PROVE PointInv'
<1> DEFINE lax == IF dll.lax = None THEN dll.lax ELSE Query(dll.lax, r)
<1>1. /\ phase = "read" /\ phase' = "inside" /\ UNCHANGED <<disk, before, given, last>>
      /\ dll' = [dll EXCEPT !.lax = lax, !.error = FALSE]
  BY DEF InsideRectangle
<1>2. StillReads(dll, dll) /\ HasReadLast /\ IsIndex(dll.lax)
  BY <1>1, OpenReaderReads DEF StillReads
<1>3. IsIndex(lax)
  BY <1>2, IndexStays DEF IsIndex
<1> HIDE DEF lax
<1>4. StillReads(dll', dll)
  BY <1>1, <1>2, <1>3, StepsStillRead
<1>5. dll'.point = dll.point /\ dll'.compat = dll.compat
  BY <1>1, <1>2 DEF StillReads, DllFields
<1>6. HasReadLast'
  BY <1>1, <1>2, <1>5 DEF HasReadLast, IsRecoded
<1>. QED BY <1>1, <1>4, <1>6, ReadingOn

\* So does a caller who reads on as before.
LEMMA StopReadingPoints == ASSUME IInv, PointInv, StopReadingInside PROVE PointInv'
<1>1. /\ phase = "inside" /\ phase' = "read" /\ UNCHANGED <<dll, disk, before, given, last>>
  BY DEF StopReadingInside
<1>2. StillReads(dll, dll) /\ HasReadLast
  BY <1>1, OpenReaderReads
<1>3. HasReadLast'
  BY <1>1, <1>2 DEF HasReadLast, IsRecoded
<1>. QED BY <1>1, <1>2, <1>3, ReadingOn

\* laszip_close_reader() leaves the file what it is.
LEMMA CloseReaderPoints == ASSUME IInv, PointInv, CloseReader PROVE PointInv'
<1>1. /\ phase = "read" /\ phase' = "closed" /\ UNCHANGED <<disk, before, given>> /\ last' = 0
  BY DEF CloseReader
<1>2. StillReads(dll, dll) /\ FileGivesBack
  BY <1>1, OpenReaderReads
<1>3. DOMAIN dll'.point = PointFields
  BY <1>2 DEF CloseReader, StillReads, DllFields
<1>4. FileGivesBack'
  BY <1>1, <1>2 DEF FileGivesBack
<1>. QED BY <1>1, <1>3, <1>4 DEF PointInv

\* Every step of a careful caller keeps the invariant of the points.
LEMMA NextPoints ==
  ASSUME IInv, CountInv, PointInv, IndexGivesNumbers, [Next]_vars, [CarefulCaller]_vars
  PROVE  PointInv'
<1>1. CASE UNCHANGED vars
  BY <1>1 DEF vars, PointInv, FileGivesBack, PointWriter, ReadsItems, HasReadLast, IsRecoded
<1>2. CASE CarefulCaller
  <2>1. CASE Start
    BY <2>1, StartPoints
  <2>2. CASE WriteNext
    BY <1>2, <2>2, WriteNextPoints
  <2>3. CASE job.inventory /\ UpdateInventory
    BY <2>3, UpdateInventoryPoints
  <2>4. CASE AllWritten /\ CloseWriter
    BY <2>4, CloseWriterPoints
  <2>5. CASE \E call \in job.calls : Call(call)
    BY <2>5, CallPoints
  <2>6. CASE \E compress \in BOOLEAN : OpenWriter(compress)
    BY <1>2, <2>6, OpenWriterPoints
  <2>7. CASE \E clean, compat \in BOOLEAN, exploit \in {FALSE, job.rectangles # {}} :
               BetweenFiles(clean, compat, exploit)
    BY <2>7, BetweenFilesPoints
  <2>8. CASE OpenReader
    BY <2>8, OpenReaderPoints
  <2>9. CASE ReadPoint
    BY <2>9, ReadPointPoints
  <2>10. CASE ReadInsidePoint
    BY <2>10, ReadInsidePoints
  <2>11. CASE StopReadingInside
    BY <2>11, StopReadingPoints
  <2>12. CASE CloseReader
    BY <2>12, CloseReaderPoints
  <2>13. CASE \E target \in job.targets : SeekPoint(target)
    BY <2>13, SeekPoints
  <2>14. CASE \E r \in job.rectangles : InsideRectangle(r)
    BY <2>14, InsideRectanglePoints
  <2>15. CASE UNCHANGED vars
    BY <1>1, <2>15
  <2>. QED BY <2>1, <2>2, <2>3, <2>4, <2>5, <2>6, <2>7, <2>8, <2>9, <2>10, <2>11, <2>12, <2>13,
              <2>14, <2>15 DEF Next, Stopped
<1>. QED BY <1>1, <1>2

-----------------------------------------------------------------------------
(* Theorems *)

\* The invariant that the theorems below rest on.
THEOREM Invariant == Spec => []IInv
<1>1. Init => IInv
  BY InitIInv
<1>2. IInv /\ [Next]_vars => IInv'
  BY NextIInv
<1>. QED BY <1>1, <1>2, PTL DEF Spec

\* For all jobs: whatever the caller adds, replaces or removes, and whichever
\* way compatibility mode converts the header, its offset is that of the points,
\* but for the 54 bytes of each VLR without data that was removed.
THEOREM OffsetIsThatOfThePoints == Spec => []OffsetFollowsTheRecords
<1>1. IInv => OffsetFollowsTheRecords
  <2>1. SUFFICES ASSUME IInv PROVE OffsetFollowsTheRecords
    OBVIOUS
  <2>2. /\ Slack(dll.header) = 54 * lost /\ lost \in Nat
        /\ dll.header.size \in Int /\ dll.header.offset \in Int /\ dll.header.after \in Int
        /\ VlrBytes(dll.header.vlrs) \in Int
    BY <2>1, FieldsOfHeader DEF IInv, HeaderInv, IsDll, IsHeader
  <2>. QED BY <2>2 DEF Slack, OffsetFollowsTheRecords
<1>. QED BY <1>1, Invariant, PTL

\* For all jobs: the header in the file says where the points are, and of what
\* length and items, also if they were recoded for compatibility mode.
THEOREM FilesDescribeThemselves == Spec => []FileDescribesItself
<1>1. IInv => FileDescribesItself
  BY DEF IInv, FileInv, FileDescribesItself
<1>. QED BY <1>1, Invariant, PTL

\* For all jobs: the inventory has counted the points that were written but for
\* the last one, and what it has counted of all of them is what the file and then
\* the reader's header say.
THEOREM CountsOfTheInventory == Spec => []CountInv
<1>1. Init => CountInv
  BY InitCounts
<1>2. IInv /\ CountInv /\ [Next]_vars => CountInv'
  BY NextCounts
<1>. QED BY <1>1, <1>2, Invariant, PTL DEF Spec

\* For all jobs and all points: the number of points, their returns and their box,
\* that laszip_update_inventory() counted point by point, laszip_close_writer() put
\* into the file and laszip_open_reader() took out of it, are those of the points
\* that were given to laszip_write_point().
THEOREM InventoryComesBack == Spec => []CountsComeBack
<1>1. CountInv => CountsComeBack
  <2>1. SUFFICES ASSUME CountInv, phase = "read", job.inventory, given # <<>>
                 PROVE  CountsComeBack
    BY DEF CountsComeBack
  <2>2. ReaderCounts /\ ArePoints(given)
    BY <2>1 DEF CountInv
  <2>3. \A r : With(r) = Counts(given, Len(given), r)
    <3>1. DOMAIN given = 1..Len(given)
      BY <2>2 DEF ArePoints
    <3>. QED BY <3>1 DEF With, Counts
  <2>4. /\ dll.header.box.min_x = Min({given[i].x : i \in DOMAIN given})
        /\ dll.header.box.max_x = Max({given[i].x : i \in DOMAIN given})
    BY <2>2, ExtentIs DEF ReaderCounts
  <2>. QED BY <2>2, <2>3, <2>4 DEF ReaderCounts, CountsComeBack
<1>. QED BY <1>1, CountsOfTheInventory, PTL

\* For all jobs and all points of a caller who keeps to CarefulCaller: the file
\* holds of every point what laszip_read_point() gives back, and a reader that asks
\* for compatibility mode if it is needed takes the point for what it was.
THEOREM FileHoldsThePoints ==
  Spec /\ [][CarefulCaller]_vars /\ []IndexGivesNumbers => []PointInv
<1>1. Init => PointInv
  BY InitPoints
<1>2. IInv /\ CountInv /\ PointInv /\ IndexGivesNumbers /\ [Next]_vars /\ [CarefulCaller]_vars
        => PointInv'
  BY NextPoints
<1>. QED BY <1>1, <1>2, Invariant, CountsOfTheInventory, PTL DEF Spec

\* For all jobs and all points of such a caller: what laszip_read_point() returns
\* is what was given to laszip_write_point(), of all point types, compressed or
\* not, native or recoded for compatibility mode and back.
THEOREM PointsAreGivenBack ==
  Spec /\ [][CarefulCaller]_vars /\ []IndexGivesNumbers => []PointsComeBack
<1>1. PointInv => PointsComeBack
  BY DEF PointInv, HasReadLast, PointsComeBack
<1>. QED BY <1>1, FileHoldsThePoints, PTL
=============================================================================
