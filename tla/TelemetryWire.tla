---------------------------- MODULE TelemetryWire ----------------------------
(***************************************************************************)
(* The binary form of a telemetry, byte by byte: what the edge serializer  *)
(* (protobuf_serializer.c) writes and what DecodeTelemetryProtobuf of the  *)
(* Go server reads.  The two were written by hand, apart from each other   *)
(* and from docs/schemas/iot_message.proto.                                *)
(*                                                                         *)
(* A byte is a number below 256, a string the sequence of its bytes, and a *)
(* float the four bytes of its representation, least significant first.    *)
(* An integer is the Word of its 64 bits: ten groups of seven bits, least  *)
(* significant first, the last with one bit only.                          *)
(***************************************************************************)
EXTENDS Integers, Sequences, SequencesExt, FiniteSetsExt

CONSTANT Null \* the C pointer

Bytes == 0 .. 255
Words == {w \in Seq(0 .. 127) : Len(w) = 10 /\ w[10] < 2}

Weights == <<1, 128, 16384, 2097152, 268435456>>

(* Conversion to 64 bits: two's complement for a negative number.          *)
Word(n) ==
  LET m == IF n < 0 THEN -(n + 1) ELSE n
      group(k) == IF k > 5 THEN 0 ELSE (m \div Weights[k]) % 128
  IN [k \in 1 .. 10 |-> IF n >= 0 THEN group(k) ELSE IF k = 10 THEN 1 ELSE 127 - group(k)]

Zero == Word(0)

-----------------------------------------------------------------------------
(* telemetry_data_t.  Nothing limits the length of its strings; MaxString  *)
(* keeps every message below the MaxSize that is told apart here.          *)

MaxString == 1000
MaxSize == 16384

Strings == {s \in Seq(Bytes) : Len(s) <= MaxString}
Floats == {f \in Seq(Bytes) : Len(f) = 4}
Uint32Words == {w \in Words : w[5] < 16 /\ \A k \in 6 .. 10 : w[k] = 0}
Int32s == {n \in Int : -2147483647 - 1 <= n /\ n <= 2147483647}
FieldNumbers == {n \in Nat : 1 <= n /\ n <= 536870911}

TelemetryData ==
  [device_id: {Null} \cup Strings, timestamp: Uint32Words, seq_no: Uint32Words,
   firmware_version: {Null} \cup Strings, boot_count: Uint32Words,
   temperature: Floats, humidity: Floats, battery_voltage: Floats,
   battery_level_pct: Uint32Words, rssi: Int32s, interval_sec: Uint32Words,
   state: {Null} \cup STRING, uptime_sec: Uint32Words, free_heap_bytes: Uint32Words]

-----------------------------------------------------------------------------
(* The serializer.                                                         *)

EncodeVarint(w) ==
  LET n == Max({1} \cup {k \in 1 .. 10 : w[k] # 0})
  IN [k \in 1 .. n |-> IF k < n THEN w[k] + 128 ELSE w[k]]

Tag(field, wire) == EncodeVarint(Word((8 * field) + wire))

(* Also the form of a nested message.                                      *)
StringField(field, s) == Tag(field, 2) \o EncodeVarint(Word(Len(s))) \o s

VarintField(field, w) == Tag(field, 0) \o EncodeVarint(w)

FloatField(field, float) == Tag(field, 5) \o float

Unknown == <<85, 78, 75, 78, 79, 87, 78>>
FirstFirmware == <<49, 46, 48, 46, 48>>

OrElse(pointer, s) == IF pointer = Null THEN s ELSE pointer

(* Mutant: boot_count is widened as a signed number.                       *)
HeaderFieldsSigned(d) ==
  << StringField(1, OrElse(d.device_id, Unknown)),
     VarintField(2, d.timestamp),
     VarintField(3, d.seq_no),
     StringField(4, OrElse(d.firmware_version, FirstFirmware)),
     VarintField(5, IF d.boot_count[5] < 8 THEN d.boot_count ELSE Word(-1)) >>

HeaderFields(d) ==
  << StringField(1, OrElse(d.device_id, Unknown)),
     VarintField(2, d.timestamp),
     VarintField(3, d.seq_no),
     StringField(4, OrElse(d.firmware_version, FirstFirmware)),
     VarintField(5, d.boot_count) >>

MetricsFields(d) ==
  << FloatField(1, d.temperature),
     FloatField(2, d.humidity),
     FloatField(3, d.battery_voltage),
     VarintField(4, d.battery_level_pct),
     VarintField(5, Word(d.rssi)),
     VarintField(6, d.interval_sec) >>

States == <<"NORMAL", "LOW_POWER", "WARNING", "ERROR">>

ASSUME NullIsNoState == \A i \in DOMAIN States : States[i] # Null

StateEnum(state) ==
  IF \E i \in DOMAIN States : States[i] = state
  THEN Word((CHOOSE i \in DOMAIN States : States[i] = state) - 1) ELSE Zero

StatusFields(d) ==
  << VarintField(1, StateEnum(d.state)),
     VarintField(2, d.uptime_sec),
     VarintField(3, d.free_heap_bytes) >>

Sections(d) == <<HeaderFields(d), MetricsFields(d), StatusFields(d)>>

(* The root message of three nested ones.                                  *)
Assemble(sections) ==
  FlattenSeq([i \in DOMAIN sections |-> StringField(i, FlattenSeq(sections[i]))])

Encode(d) == Assemble(Sections(d))

-----------------------------------------------------------------------------
(* The decoder.  A read yields the value and the position behind it.       *)

Failed == [ok |-> FALSE, value |-> <<>>, next |-> 0]

Got(v, p) == [ok |-> TRUE, value |-> v, next |-> p]

(* binary.ReadUvarint: at most ten bytes, and one bit of the tenth.        *)
ReadUvarint(b, p) ==
  LET ends == {k \in p .. Len(b) : b[k] < 128}
      e == Min(ends)
  IN IF ends = {} \/ e - p > 9 \/ (e - p = 9 /\ b[e] > 1) THEN Failed
     ELSE Got([k \in 1 .. 10 |-> IF p + k - 1 > e THEN 0 ELSE b[p + k - 1] % 128], e + 1)

(* A length or a tag as a number; whatever needs more than 14 bits is      *)
(* longer than any message here, and reading so much fails.  (The slice    *)
(* for it is made first: that a length is too large for one is left out.)  *)
Size(w) == IF \E k \in 3 .. 10 : w[k] # 0 THEN MaxSize ELSE w[1] + (128 * w[2])

(* Mutant: Read instead of ReadFull.                                       *)
ReadSome(b, p, n) ==
  IF p > Len(b) + 1 THEN Failed
  ELSE Got([k \in 1 .. n |-> IF p + k - 1 > Len(b) THEN 0 ELSE b[p + k - 1]],
           Min({p + n, Len(b) + 1}))

(* io.ReadFull and binary.Read: all of the n bytes or an error.            *)
ReadBytes(b, p, n) ==
  IF p + n - 1 > Len(b) THEN Failed ELSE Got(SubSeq(b, p, p + n - 1), p + n)

ReadString(b, p) ==
  LET length == ReadUvarint(b, p)
  IN IF length.ok THEN ReadBytes(b, length.next, Size(length.value)) ELSE Failed

(* The conversions uint32(v) and int32(v), as words.                       *)
Uint32(w) == [k \in 1 .. 10 |-> CASE k < 5 -> w[k] [] k = 5 -> w[k] % 16 [] k > 5 -> 0]

(* Mutant: the conversion of an unsigned field.                            *)
Int32Unsigned(w) == Uint32(w)

Int32(w) ==
  IF w[5] % 16 < 8 THEN Uint32(w)
  ELSE [k \in 1 .. 10 |-> CASE k < 5 -> w[k] [] k = 5 -> (w[k] % 16) + 112
                            [] k \in 6 .. 9 -> 127 [] k = 10 -> 1]

StateOf(w) ==
  IF \E i \in DOMAIN States : Word(i - 1) = w THEN States[Size(w) + 1] ELSE "NORMAL"

Convert(kind, w) ==
  CASE kind = "int64" -> w
    [] kind = "uint32" -> Uint32(w)
    [] kind = "int32" -> Int32(w)
    [] kind = "enum" -> StateOf(w)

(* A field of the schema is read as its kind, whatever its wire type says. *)
ReadField(kind, b, p) ==
  CASE kind \in {"string", "message"} -> ReadString(b, p)
    [] kind = "float" -> ReadBytes(b, p, 4)
    [] OTHER -> LET v == ReadUvarint(b, p)
                IN IF v.ok THEN Got(Convert(kind, v.value), v.next) ELSE Failed

(* Mutant: of an unknown string only the length is skipped.                *)
SkipLength(wire, b, p) ==
  CASE wire \in {0, 2} -> ReadUvarint(b, p)
    [] wire = 1 -> ReadBytes(b, p, 8)
    [] wire = 5 -> ReadBytes(b, p, 4)
    [] OTHER -> Failed

(* skipField: Seek may go beyond the end, which ends the message.          *)
SkipField(wire, b, p) ==
  CASE wire = 0 -> ReadUvarint(b, p)
    [] wire = 1 -> ReadBytes(b, p, 8)
    [] wire = 2 -> LET length == ReadUvarint(b, p)
                   IN IF length.ok
                      THEN Got(<<>>, Min({Len(b) + 1, length.next + Size(length.value)}))
                      ELSE Failed
    [] wire = 5 -> ReadBytes(b, p, 4)
    [] OTHER -> Failed

F(name, kind) == [name |-> name, kind |-> kind]

(* The switch statements: the fields of each message by number.            *)
Schema ==
  [root |-> <<F("header", "message"), F("metrics", "message"), F("status", "message")>>,
   header |-> <<F("device_id", "string"), F("timestamp", "int64"), F("seq_no", "uint32"),
                F("firmware_version", "string"), F("boot_count", "uint32")>>,
   metrics |-> <<F("temperature", "float"), F("humidity", "float"),
                 F("battery_voltage", "float"), F("battery_level_pct", "uint32"),
                 F("rssi", "int32"), F("interval_sec", "uint32")>>,
   status |-> <<F("state", "enum"), F("uptime_sec", "uint32"), F("free_heap_bytes", "uint32")>>]

Bad == [name |-> "error", value |-> <<>>]

(* What a read adds to the fields of the message; 0 ends the message.      *)
Found(fields, p) == [fields |-> fields, next |-> p]

Stop(fields) == Found(fields, 0)

FieldRead(name, r) ==
  IF r.ok THEN Found(<<[name |-> name, value |-> r.value]>>, r.next) ELSE Stop(<<Bad>>)

FieldSkipped(r) == IF r.ok THEN Found(<<>>, r.next) ELSE Stop(<<Bad>>)

(* A tag that cannot be read is an error of the root and the end of a      *)
(* nested message.                                                         *)
ReadTagged(message, b, tag) ==
  LET n == Size(tag.value) \div 8
  IN IF ~ tag.ok THEN Stop(IF message = "root" THEN <<Bad>> ELSE <<>>)
     ELSE IF n \in DOMAIN Schema[message]
     THEN FieldRead(Schema[message][n].name, ReadField(Schema[message][n].kind, b, tag.next))
     ELSE FieldSkipped(SkipField(tag.value[1] % 8, b, tag.next))

(* The fields that are read from a position on, up to an error.            *)
Rest(message, b) ==
  LET from[p \in 1 .. Len(b) + 1] ==
        LET r == ReadTagged(message, b, ReadUvarint(b, p))
        IN IF p > Len(b) THEN <<>>
           ELSE r.fields \o (IF r.next = 0 THEN <<>> ELSE from[r.next])
  IN from

Parse(message, b) == Rest(message, b)[1]

Fields == Schema.header \o Schema.metrics \o Schema.status

Absent(kind) ==
  CASE kind = "string" -> <<>>
    [] kind = "float" -> <<0, 0, 0, 0>>
    [] kind = "enum" -> ""
    [] OTHER -> Zero

Invalid == [name |-> "invalid"]

(* The last value of every field, or the zero value of its Go type.        *)
Collect(fields) ==
  LET at(name) == {i \in DOMAIN fields : fields[i].name = name}
      kind(name) == (CHOOSE i \in DOMAIN Fields : Fields[i].name = name)
  IN IF at("error") # {} THEN Invalid
     ELSE [name \in {Fields[i].name : i \in DOMAIN Fields} |->
             IF at(name) = {} THEN Absent(Fields[kind(name)].kind)
             ELSE fields[Max(at(name))].value]

Nested(root) ==
  FlattenSeq([i \in DOMAIN root |->
    IF root[i] = Bad THEN <<Bad>> ELSE Parse(root[i].name, root[i].value)])

(* DecodeTelemetryProtobuf.                                                *)
Decode(b) == Collect(Nested(Parse("root", b)))
=============================================================================
