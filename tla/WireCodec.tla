----------------------------- MODULE WireCodec -----------------------------
(***************************************************************************)
(* The tag-driven wire codec of internal/serialize and the record layouts  *)
(* of src/protocol that go through it.                                     *)
(*                                                                         *)
(* A Go struct type is a layout: a sequence of field descriptors taken     *)
(* from its struct tags (offset, length, step) and its field types.  A     *)
(* struct value is a record from field names to values; a string or an    *)
(* array value is a sequence.  A byte buffer is a function from the        *)
(* positions written so far to bytes: make([]byte, n) is the empty         *)
(* function of length n, and every position outside its domain reads 0.    *)
(*                                                                         *)
(* Serialize and Deserialize are the recursive field walks of              *)
(* serialize.go and deserialize.go, with their early returns, their bounds *)
(* checks and the index panics of the Go runtime.  A walk returns its      *)
(* status ("ok", "err" for a returned error, "panic") with the buffer or   *)
(* the value it reached.                                                   *)
(***************************************************************************)
EXTENDS Integers, Sequences, Functions

\* GetTagValue when the tag is absent.
NoTag == -1

\* The sizes of the fixed-width integer kinds.
Width == [u8 |-> 1, u16 |-> 2, u32 |-> 4, u64 |-> 8]
ScalarKinds == DOMAIN Width

\* A field descriptor.  kind is a scalar kind, "str", "arr" (a fixed array
\* when cnt > 0, a slice when cnt = 0) or "rec" (a nested struct); elem,
\* esize and sub describe an array's elements and a struct's fields.
Field(name, kind, off) ==
  [name |-> name, kind |-> kind, off |-> off, len |-> 0, step |-> 0,
   exp |-> TRUE, elem |-> "u8", esize |-> 1, cnt |-> 0, sub |-> <<>>]
StrField(name, off, len) == [Field(name, "str", off) EXCEPT !.len = len]
ArrField(name, elem, off, len, cnt) ==
  [Field(name, "arr", off) EXCEPT !.elem = elem, !.esize = Width[elem],
                                  !.len = len, !.cnt = cnt]
RecSliceField(name, off, step, sub) ==
  [Field(name, "arr", off) EXCEPT !.elem = "rec", !.step = step, !.sub = sub]
Unexported(f) == [f EXCEPT !.exp = FALSE]

\* The shape serialize and deserialize give one element of an array.
ElemShape(f) == [f EXCEPT !.kind = f.elem, !.len = 0, !.step = 0]

----------------------------------------------------------------------------
(* Bytes and buffers. *)

ByteAt(buf, p) == IF p \in DOMAIN buf THEN buf[p] ELSE 0

EmptyBuf == [p \in {} |-> 0]

\* buf with the bytes bs (indexed from 0) copied in at position at.
Write(buf, at, bs) ==
  [p \in DOMAIN buf \cup {at + i : i \in DOMAIN bs} |->
     IF p - at \in DOMAIN bs THEN bs[p - at] ELSE buf[p]]

\* binary.LittleEndian.PutUintN: the w bytes of v, least significant first.
\* Model values stay below 2^31 (TLC's integers), so bytes 4 to 7 are 0.
LittleEndian(v, w) ==
  [i \in 0..w-1 |-> IF i >= 4 THEN 0 ELSE (v \div (2^(8*i))) % 256]

\* binary.LittleEndian.UintN: the value of the w bytes at position at.
RECURSIVE Uint(_, _, _)
Uint(buf, at, w) ==
  IF w = 0 THEN 0 ELSE ByteAt(buf, at) + 256 * Uint(buf, at + 1, w - 1)

\* The bytes of a string, indexed from 0.
StrBytes(s) == [i \in 0..Len(s)-1 |-> s[i+1]]

\* marshalString: the string cut to the field's length.
Truncate(s, length) ==
  IF length # 0 /\ Len(s) > length THEN SubSeq(s, 1, length) ELSE s

\* unmarshalString over the k bytes at position at: up to the first 0.
CString(buf, at, k) ==
  LET zeros == {i \in 0..k-1 : ByteAt(buf, at + i) = 0}
      stop == IF zeros = {} THEN k ELSE CHOOSE i \in zeros : \A j \in zeros : i <= j
  IN [i \in 1..stop |-> ByteAt(buf, at + i - 1)]

\* MarshalPaddedString into an n-byte buffer: spaces, then at most n bytes
\* of s.
MarshalPaddedString(n, s) ==
  [p \in 0..n-1 |-> IF p < Len(s) THEN s[p+1] ELSE 32]

----------------------------------------------------------------------------
(* Serializer.  The walk works on the view data[base:n] of an n-byte       *)
(* buffer, as New(w.data[offset:]) does for a nested struct.               *)

Ok(buf) == [st |-> "ok", buf |-> buf]
Err(buf) == [st |-> "err", buf |-> buf]
Panic(buf) == [st |-> "panic", buf |-> buf]

\* serialize.go: Serialize's field loop returns at the first unexported
\* field, fails on a missing offset tag or on an offset or offset+length
\* past the view, and stops at the first field that fails.
OutsideView(f, base, n) ==
  f.off = NoTag \/ f.off >= n - base \/ f.off + f.len > n - base

RECURSIVE SerializeFields(_, _, _, _, _, _),
          SerializeValue(_, _, _, _, _, _, _, _),
          SerializeElems(_, _, _, _, _, _, _, _)

SerializeFields(layout, v, buf, base, n, i) ==
  IF i > Len(layout) \/ ~layout[i].exp THEN Ok(buf)
  ELSE LET f == layout[i] IN
       IF OutsideView(f, base, n) THEN Err(buf)
       ELSE LET r == SerializeValue(f, f.off, f.len, f.step, v[f.name],
                                    buf, base, n)
            IN IF r.st = "ok" THEN SerializeFields(layout, v, r.buf, base, n, i + 1)
               ELSE r

\* serialize: one value at offset off of the view.  PutUintN and the
\* string copy index past the view only through the Go runtime (a panic);
\* an empty array writes nothing; a nested struct is a new view.
SerializeValue(f, off, length, step, v, buf, base, n) ==
  CASE f.kind \in ScalarKinds ->
         IF base + off + Width[f.kind] > n THEN Panic(buf)
         ELSE Ok(Write(buf, base + off, LittleEndian(v, Width[f.kind])))
    [] f.kind = "str" ->
         IF length = 0 THEN Err(buf)
         ELSE LET b == Truncate(v, length) IN
              IF base + off + Len(b) > n THEN Panic(buf)
              ELSE Ok(Write(buf, base + off, StrBytes(b)))
    [] f.kind = "arr" ->
         IF Len(v) = 0 THEN Ok(buf)
         ELSE SerializeElems(f, off, IF step = 0 THEN f.esize ELSE step,
                             v, 1, buf, base, n)
    [] f.kind = "rec" ->
         IF base + off > n THEN Panic(buf)
         ELSE SerializeFields(f.sub, v, buf, base + off, n, 1)

\* The array loop: element i at off + step*i, stopping at the first error.
SerializeElems(f, off, step, v, i, buf, base, n) ==
  IF i > Len(v) THEN Ok(buf)
  ELSE LET r == SerializeValue(ElemShape(f), off + step * (i - 1), 0, 0,
                               v[i], buf, base, n)
       IN IF r.st = "ok" THEN SerializeElems(f, off, step, v, i + 1, r.buf, base, n)
          ELSE r

\* New(make([]byte, n)).Serialize(&v) for a struct of the given layout.
Serialize(layout, v, n) == SerializeFields(layout, v, EmptyBuf, 0, n, 1)

----------------------------------------------------------------------------
(* Deserializer.  The target starts as the Go zero value of its type: a    *)
(* fixed array has its length, a slice is empty.                           *)

RECURSIVE ZeroRecord(_)
ZeroRecord(layout) ==
  LET ZeroOf(f) ==
        CASE f.kind \in ScalarKinds -> 0
          [] f.kind = "str" -> <<>>
          [] f.kind = "arr" ->
               [i \in 1..f.cnt |-> IF f.elem = "rec" THEN ZeroRecord(f.sub) ELSE 0]
          [] f.kind = "rec" -> ZeroRecord(f.sub)
  IN [nm \in {layout[i].name : i \in DOMAIN layout} |->
        ZeroOf(layout[CHOOSE i \in DOMAIN layout : layout[i].name = nm])]

OkV(v) == [st |-> "ok", val |-> v]
ErrV(v) == [st |-> "err", val |-> v]
PanicV(v) == [st |-> "panic", val |-> v]

RECURSIVE DeserializeFields(_, _, _, _, _, _),
          DeserializeValue(_, _, _, _, _, _, _, _),
          DeserializeElems(_, _, _, _, _, _, _, _)

\* deserialize.go: Deserialize's field loop mirrors Serialize's, but an
\* error of a field is log.Panicf.
DeserializeFields(layout, v, data, base, n, i) ==
  IF i > Len(layout) \/ ~layout[i].exp THEN OkV(v)
  ELSE LET f == layout[i] IN
       IF OutsideView(f, base, n) THEN ErrV(v)
       ELSE LET r == DeserializeValue(f, f.off, f.len, f.step, v[f.name],
                                      data, base, n)
            IN IF r.st = "ok"
               THEN DeserializeFields(layout, [v EXCEPT ![f.name] = r.val],
                                      data, base, n, i + 1)
               ELSE PanicV(v)

\* deserialize: one value at offset off of the view; cur is the value the
\* target holds, whose length bounds an array's loop.
DeserializeValue(f, off, length, step, cur, data, base, n) ==
  CASE f.kind \in ScalarKinds ->
         IF base + off + Width[f.kind] > n THEN PanicV(cur)
         ELSE OkV(Uint(data, base + off, Width[f.kind]))
    [] f.kind = "str" ->
         IF length = 0 THEN ErrV(cur)
         ELSE IF base + off + length > n THEN PanicV(cur)
         ELSE OkV(CString(data, base + off, length))
    [] f.kind = "arr" ->
         IF Len(cur) = 0 THEN OkV(cur)
         ELSE DeserializeElems(f, off, IF step = 0 THEN f.esize ELSE step,
                               cur, 1, data, base, n)
    [] f.kind = "rec" ->
         IF base + off > n THEN PanicV(cur)
         ELSE DeserializeFields(f.sub, cur, data, base + off, n, 1)

DeserializeElems(f, off, step, cur, i, data, base, n) ==
  IF i > Len(cur) THEN OkV(cur)
  ELSE LET r == DeserializeValue(ElemShape(f), off + step * (i - 1), 0, 0,
                                 cur[i], data, base, n)
       IN IF r.st = "ok"
          THEN DeserializeElems(f, off, step, [cur EXCEPT ![i] = r.val],
                                i + 1, data, base, n)
          ELSE r

\* NewDeserializer(data[0:n]).Deserialize(&v) into a zero struct.
Deserialize(layout, data, n) ==
  DeserializeFields(layout, ZeroRecord(layout), data, 0, n, 1)

----------------------------------------------------------------------------
(* Record layouts of src/protocol, from their struct tags. *)

ConnectDataLayout ==
  << ArrField("HostIdentifier", "u8", 0, 16, 16),
     Field("CNTLID", "u16", 16),
     StrField("SubNQN", 256, 256),
     StrField("HostNQN", 512, 256) >>

ConnectCommandLayout ==
  << Field("OpCode", "u8", 0), Field("PRP", "u8", 1), Field("CID", "u16", 2),
     Field("FCType", "u8", 4), Field("RECFM", "u16", 40),
     Field("QueueID", "u16", 42), Field("QueueSize", "u16", 44),
     Field("CATTR", "u8", 46), Field("KATO", "u32", 48),
     Unexported([ArrField("data", "u8", NoTag, 0, 1024) EXCEPT !.esize = 1]) >>

CapsuleCommandLayout ==
  << Field("OpCode", "u8", 0), Field("PRP", "u8", 1), Field("CID", "u16", 2),
     Field("FCType", "u8", 4), ArrField("DPTR", "u8", 24, 16, 16),
     Field("D10", "u32", 40), Field("D11", "u32", 44), Field("D12", "u32", 48),
     Field("D13", "u32", 52), Field("D14", "u32", 56), Field("D15", "u32", 60) >>

DiscoveryLogPageEntryLayout ==
  << Field("TransportType", "u8", 0), Field("AddressFamily", "u8", 1),
     Field("SubsystemType", "u8", 2), Field("TransportRequirements", "u8", 3),
     Field("PortId", "u16", 4), Field("ControllerId", "u16", 6),
     Field("AdminMaxQueueSize", "u16", 8),
     StrField("TransportServiceId", 32, 32), StrField("SubNQN", 256, 256),
     StrField("TransportAddress", 512, 256), StrField("TSAS", 768, 256) >>

DiscoveryLogPageLayout ==
  << Field("GenerationCounter", "u64", 0), Field("NumberOfRecords", "u64", 8),
     Field("RecordFormat", "u64", 16),
     RecSliceField("DiscoveryLofEntries", 1024, 1024, DiscoveryLogPageEntryLayout) >>

DiscoveryLogPageDataLayout ==
  << RecSliceField("DiscoveryLofEntries", 0, 1024, DiscoveryLogPageEntryLayout) >>

----------------------------------------------------------------------------
(* The hand-written codecs of the Connect path. *)

\* ConnectCommand.Marshal: the client writes its Connect command into the
\* submission queue entry that follows the 8-byte PDU header.
ConnectMarshal(cc) ==
  Write(Write(Write(Write(Write(Write(Write(Write(Write(EmptyBuf,
    0, LittleEndian(cc.OpCode, 1)), 1, LittleEndian(cc.PRP, 1)),
    2, LittleEndian(cc.CID, 2)), 4, LittleEndian(cc.FCType, 1)),
    40, LittleEndian(cc.RECFM, 2)), 42, LittleEndian(cc.QueueID, 2)),
    44, LittleEndian(cc.QueueSize, 2)), 46, LittleEndian(cc.CATTR, 1)),
    48, LittleEndian(cc.KATO, 4))

\* Mutant of CapsuleUnmarshal: D10 read as two bytes, not four.
CapsuleUnmarshalShortD10(sqe) ==
  [OpCode |-> Uint(sqe, 0, 1), PRP |-> Uint(sqe, 1, 1), CID |-> Uint(sqe, 2, 2),
   FCType |-> Uint(sqe, 4, 1), DPTR |-> [i \in 1..16 |-> ByteAt(sqe, 23 + i)],
   D10 |-> Uint(sqe, 40, 2), D11 |-> Uint(sqe, 44, 4), D12 |-> Uint(sqe, 48, 4),
   D13 |-> Uint(sqe, 52, 4), D14 |-> Uint(sqe, 56, 4), D15 |-> Uint(sqe, 60, 4)]

\* CapsuleCommand.Unmarshal: the controller's receive loop decodes every
\* capsule as a CapsuleCommand.
CapsuleUnmarshal(sqe) ==
  [OpCode |-> Uint(sqe, 0, 1), PRP |-> Uint(sqe, 1, 1), CID |-> Uint(sqe, 2, 2),
   FCType |-> Uint(sqe, 4, 1), DPTR |-> [i \in 1..16 |-> ByteAt(sqe, 23 + i)],
   D10 |-> Uint(sqe, 40, 4), D11 |-> Uint(sqe, 44, 4), D12 |-> Uint(sqe, 48, 4),
   D13 |-> Uint(sqe, 52, 4), D14 |-> Uint(sqe, 56, 4), D15 |-> Uint(sqe, 60, 4)]

\* NVMERequest.ReinterpretCapsule: serialize the CapsuleCommand into a
\* MaxHeaderSize buffer, ignoring the error, and deserialize it as another
\* record type.
MaxHeaderSize == 128
ReinterpretCapsule(capsule, layout) ==
  Deserialize(layout, Serialize(CapsuleCommandLayout, capsule, MaxHeaderSize).buf,
              MaxHeaderSize)

\* The Connect command and data Client.openQueue builds for queue id; the
\* transmitter sets the CID.
ClientConnect(id, cid) ==
  [OpCode |-> 127, PRP |-> 0, CID |-> cid, FCType |-> 1, RECFM |-> 0,
   QueueID |-> id, QueueSize |-> 32, CATTR |-> 4, KATO |-> 0,
   data |-> [i \in 1..1024 |-> 0]]
ClientConnectData(sub, host) ==
  [HostIdentifier |-> [i \in 1..16 |-> 0], CNTLID |-> 65535,
   SubNQN |-> sub, HostNQN |-> host]

\* The exported fields of a record of the given layout.
Exported(v, layout) ==
  Restrict(v, {layout[i].name : i \in {j \in DOMAIN layout : layout[j].exp}})

\* One Connect from client to controller.  The client marshals the command
\* into the capsule and SetConnectData serializes the data into the
\* ConnectCommand's 1024-byte data, which it sends as the payload; the
\* controller unmarshals the capsule, reinterprets it as a ConnectCommand
\* and deserializes the payload.  The two decoded results.
ReceiveConnect(fc, fcd) ==
  [cmd  |-> ReinterpretCapsule(CapsuleUnmarshal(ConnectMarshal(fc)),
                               ConnectCommandLayout),
   data |-> Deserialize(ConnectDataLayout,
                        Serialize(ConnectDataLayout, fcd, 1024).buf, 1024)]

====
