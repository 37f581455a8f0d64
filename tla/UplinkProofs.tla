---------------------------- MODULE UplinkProofs ----------------------------
(***************************************************************************)
(* What becomes of the requests of any devices and any senders: every      *)
(* complete telemetry is read as it was meant, a cut one section by        *)
(* section, and what is stored belongs to the owner of the connection.     *)
(*                                                                         *)
(* The first parts are about the senders that TelemetryWireProofs does not *)
(* know: the fields that they leave out, other orders, unknown fields.     *)
(* OwnInv is about the connection alone, for any payloads; UplinkInv adds  *)
(* what the request of the connection comes to.                            *)
(***************************************************************************)
EXTENDS Uplink, TelemetryWireProofs

-----------------------------------------------------------------------------
(* What proto3 libraries leave out.                                        *)

AllZero(s) == \A i \in 1 .. Len(s) : s[i] = 0

LEMMA DefaultContent ==
  ASSUME NEW n \in 1 .. 6, NEW wire \in 0 .. 7, NEW s, s \in Seq(Bytes)
  PROVE  IsDefault(Tag(n, wire) \o s) <=> AllZero(s)
<1> DEFINE tag == Tag(n, wire)
           field == tag \o s
           l == Len(s)
<1>1. n \in FieldNumbers /\ n < 16
  BY SMT DEF FieldNumbers
<1>2. tag \in Seq(Bytes) /\ Len(tag) = 1
  BY ONLY <1>1, wire \in 0 .. 7, TagType
<1>3. l \in Nat
  BY LenProperties
<1> HIDE DEF tag
<1>4. /\ Len(field) = Len(tag) + Len(s)
      /\ \A i \in 1 .. Len(tag) + Len(s) :
           field[i] = IF i <= Len(tag) THEN tag[i] ELSE s[i - Len(tag)]
  <2>1. tag \in Seq(Bytes) /\ s \in Seq(Bytes)
    BY ONLY <1>2, s \in Seq(Bytes)
  <2>2. QED
    BY ONLY <2>1, ConcatProperties
<1> HIDE DEF l, field
<1>5. Len(field) = 1 + l /\ \A i \in 1 .. 1 + l : field[i] = IF i <= 1 THEN tag[i] ELSE s[i - 1]
  BY ONLY <1>2, <1>4 DEF l
<1>6. ASSUME NEW i \in 1 .. l PROVE 1 + i \in 2 .. 1 + l /\ field[1 + i] = s[i]
  <2>1. 1 + i \in 1 .. 1 + l /\ 1 + i \in 2 .. 1 + l /\ ~ (1 + i <= 1) /\ (1 + i) - 1 = i
    BY ONLY <1>3, i \in 1 .. l
  <2>2. QED
    BY ONLY <1>5, <2>1
<1>7. ASSUME NEW k \in 2 .. 1 + l PROVE k - 1 \in 1 .. l /\ field[k] = s[k - 1]
  <2>1. k \in 1 .. 1 + l /\ ~ (k <= 1) /\ k - 1 \in 1 .. l
    BY ONLY <1>3, k \in 2 .. 1 + l
  <2>2. QED
    BY ONLY <1>5, <2>1
<1>8. (\A k \in 2 .. 1 + l : field[k] = 0) <=> (\A i \in 1 .. l : s[i] = 0)
  BY ONLY <1>6, <1>7
<1>9. QED
  BY ONLY <1>5, <1>8 DEF IsDefault, AllZero, field, tag, l

LEMMA ZeroVarint ==
  ASSUME NEW w, w \in Words
  PROVE  AllZero(EncodeVarint(w)) <=> w = Zero
<1>1. PICK n \in 1 .. 10 :
           /\ EncodeVarint(w) \in Seq(Bytes) /\ Len(EncodeVarint(w)) = n
           /\ \A k \in 1 .. n : EncodeVarint(w)[k] = IF k < n THEN w[k] + 128 ELSE w[k]
           /\ n = 1 \/ w[n] # 0
           /\ \A k \in n + 1 .. 10 : w[k] = 0
  BY VarintForm
<1>2. w \in [1 .. 10 -> 0 .. 127]
  BY WordType
<1>3. Zero \in [1 .. 10 -> 0 .. 127] /\ \A k \in 1 .. 10 : Zero[k] = 0
  BY ZeroWord, WordType, Uint32IsKept
<1>4. ASSUME AllZero(EncodeVarint(w)) PROVE w = Zero
  <2>1. \A k \in 1 .. n : EncodeVarint(w)[k] = 0
    BY ONLY <1>1, <1>4 DEF AllZero
  <2>2. n = 1
    <3> DEFINE x == w[1]
    <3>1. x \in 0 .. 127 /\ 1 \in 1 .. n
      BY ONLY <1>2, n \in 1 .. 10
    <3>2. 1 < n => x + 128 = 0
      BY ONLY <1>1, <2>1, <3>1
    <3> HIDE DEF x
    <3>3. QED
      BY ONLY <3>1, <3>2, n \in 1 .. 10
  <2>3. w[1] = 0
    BY ONLY <1>1, <2>1, <2>2
  <2>4. \A k \in 1 .. 10 : w[k] = 0
    BY ONLY <1>1, <2>2, <2>3
  <2>5. QED
    BY ONLY <1>2, <1>3, <2>4
<1>5. ASSUME w = Zero PROVE AllZero(EncodeVarint(w))
  <2>1. n = 1
    BY ONLY <1>1, <1>3, <1>5
  <2>2. EncodeVarint(w)[1] = 0
    BY ONLY <1>1, <1>3, <1>5, <2>1
  <2>3. QED
    BY ONLY <1>1, <2>1, <2>2 DEF AllZero
<1>6. QED
  BY ONLY <1>4, <1>5

LEMMA DefaultVarint ==
  ASSUME NEW n \in 1 .. 6, NEW w, w \in Words
  PROVE  IsDefault(VarintField(n, w)) <=> w = Zero
<1>1. EncodeVarint(w) \in Seq(Bytes) /\ 0 \in 0 .. 7
  BY VarintType
<1>2. IsDefault(Tag(n, 0) \o EncodeVarint(w)) <=> AllZero(EncodeVarint(w))
  BY ONLY <1>1, n \in 1 .. 6, DefaultContent
<1>3. QED
  BY ONLY <1>2, w \in Words, ZeroVarint DEF VarintField

LEMMA DefaultString ==
  ASSUME NEW n \in 1 .. 6, NEW s, s \in Strings, IsDefault(StringField(n, s))
  PROVE  s = <<>>
<1>1. s \in Seq(Bytes) /\ Len(s) \in Nat /\ Len(s) < MaxSize
  BY StringSize
<1>2. n \in FieldNumbers /\ 2 \in 0 .. 7
  BY SMT DEF FieldNumbers
<1>3. Counted(s) \in Seq(Bytes)
  BY ONLY <1>1, CountedType
<1>4. StringField(n, s) = Tag(n, 2) \o Counted(s)
  BY ONLY <1>1, <1>2, StringFieldForm
<1>5. AllZero(Counted(s))
  BY ONLY <1>2, <1>3, <1>4, n \in 1 .. 6, DefaultContent, IsDefault(StringField(n, s))
<1>6. Word(Len(s)) \in Words /\ Size(Word(Len(s))) = Len(s)
  BY ONLY <1>1, LengthIsNat35
<1> DEFINE count == EncodeVarint(Word(Len(s)))
<1>7. count \in Seq(Bytes) /\ Len(count) \in Nat
  BY ONLY <1>6, VarintType
<1>8. Counted(s) = count \o s
  BY ONLY DEF Counted
<1> HIDE DEF count
<1>9. AllZero(count)
  <2>1. /\ Len(count \o s) = Len(count) + Len(s)
        /\ \A i \in 1 .. Len(count) + Len(s) :
             (count \o s)[i] = IF i <= Len(count) THEN count[i] ELSE s[i - Len(count)]
    BY ONLY <1>1, <1>7, ConcatProperties
  <2> DEFINE k == Len(count)
             l == Len(s)
             both == count \o s
  <2>2. k \in Nat /\ l \in Nat
    BY ONLY <1>1, <1>7
  <2>3. \A i \in 1 .. k + l : both[i] = 0
    BY ONLY <1>5, <1>8, <2>1 DEF AllZero
  <2> HIDE DEF k, l, both
  <2>4. \A i \in 1 .. k : both[i] = count[i] /\ i \in 1 .. k + l
    BY ONLY <2>1, <2>2 DEF k, l, both
  <2>5. QED
    BY ONLY <2>3, <2>4 DEF AllZero, k
<1>10. Word(Len(s)) = Zero
  BY ONLY <1>6, <1>9, ZeroVarint DEF count
<1>11. Size(Zero) = 0
  BY ONLY ZeroWord, SMT DEF Size
<1>12. Len(s) = 0
  BY ONLY <1>6, <1>10, <1>11
<1>13. QED
  BY ONLY <1>1, <1>12, EmptySeq

LEMMA DefaultFloat ==
  ASSUME NEW n \in 1 .. 6, NEW s, s \in Floats, IsDefault(FloatField(n, s))
  PROVE  s = <<0, 0, 0, 0>>
<1>1. s \in Seq(Bytes) /\ Len(s) = 4
  BY DEF Floats
<1>2. AllZero(s)
  <2>1. 5 \in 0 .. 7
    OBVIOUS
  <2>2. QED
    BY ONLY <1>1, <2>1, n \in 1 .. 6, DefaultContent, IsDefault(FloatField(n, s)) DEF FloatField
<1>3. s[1] = 0 /\ s[2] = 0 /\ s[3] = 0 /\ s[4] = 0
  BY ONLY <1>1, <1>2 DEF AllZero
<1>4. QED
  BY ONLY <1>1, <1>3

(* The j-th field of a message can be left out when it is zero.            *)
MayMiss(message, j, c, v) ==
  IsDefault(c) => v[NameAt(message, j)] = ZeroOf(NameAt(message, j))

MayAllMiss(message, cs, v) == \A j \in DOMAIN cs : MayMiss(message, j, cs[j], v)

LEMMA FieldAt ==
  ASSUME NEW message, NEW n, NEW name, NEW kind, HasField(message, n, name, kind)
  PROVE  n \in 1 .. 6 /\ NameAt(message, n) = name
BY DEF HasField, NameAt, F

LEMMA StringMayMiss ==
  ASSUME NEW message, NEW n, NEW name, HasField(message, n, name, "string"), NEW v,
         v[name] \in Strings, ZeroOf(name) = <<>>
  PROVE  MayMiss(message, n, StringField(n, v[name]), v)
<1>1. n \in 1 .. 6 /\ NameAt(message, n) = name
  BY FieldAt
<1>2. IsDefault(StringField(n, v[name])) => v[name] = <<>>
  BY ONLY <1>1, v[name] \in Strings, DefaultString
<1>3. QED
  BY ONLY <1>1, <1>2, ZeroOf(name) = <<>> DEF MayMiss

LEMMA FloatMayMiss ==
  ASSUME NEW message, NEW n, NEW name, HasField(message, n, name, "float"), NEW v,
         v[name] \in Floats, ZeroOf(name) = <<0, 0, 0, 0>>
  PROVE  MayMiss(message, n, FloatField(n, v[name]), v)
<1>1. n \in 1 .. 6 /\ NameAt(message, n) = name
  BY FieldAt
<1>2. IsDefault(FloatField(n, v[name])) => v[name] = <<0, 0, 0, 0>>
  BY ONLY <1>1, v[name] \in Floats, DefaultFloat
<1>3. QED
  BY ONLY <1>1, <1>2, ZeroOf(name) = <<0, 0, 0, 0>> DEF MayMiss

LEMMA VarintMayMiss ==
  ASSUME NEW message, NEW n, NEW name, NEW kind, HasField(message, n, name, kind), NEW v,
         NEW w, w \in Words, w = Zero => v[name] = ZeroOf(name)
  PROVE  MayMiss(message, n, VarintField(n, w), v)
<1>1. n \in 1 .. 6 /\ NameAt(message, n) = name
  BY FieldAt
<1>2. IsDefault(VarintField(n, w)) => w = Zero
  BY ONLY <1>1, w \in Words, DefaultVarint
<1>3. QED
  BY ONLY <1>1, <1>2, w = Zero => v[name] = ZeroOf(name) DEF MayMiss

LEMMA HeaderMayMiss ==
  ASSUME NEW d, DataOK(d), NEW v, Measured(v, d)
  PROVE  MayAllMiss("header", HeaderFields(d), v)
<1> DEFINE cs == HeaderFields(d)
           id == v["device_id"]
           fw == v["firmware_version"]
           time == v["timestamp"]
           no == v["seq_no"]
           boots == v["boot_count"]
<1>1. /\ id = OrElse(d.device_id, Unknown) /\ fw = OrElse(d.firmware_version, FirstFirmware)
      /\ time = d.timestamp /\ no = d.seq_no /\ boots = d.boot_count
  BY ONLY Measured(v, d) DEF Measured
<1>2. id \in Strings /\ fw \in Strings /\ time \in Words /\ no \in Words /\ boots \in Words
  BY ONLY <1>1, DataOK(d), Uint32IsKept DEF DataOK
<1>3. cs = <<StringField(1, id), VarintField(2, time), VarintField(3, no),
             StringField(4, fw), VarintField(5, boots)>>
  BY ONLY <1>1 DEF HeaderFields
<1>4. DOMAIN cs = 1 .. 5
  BY DEF HeaderFields
<1> HIDE DEF cs
<1>5. /\ cs[1] = StringField(1, id) /\ cs[2] = VarintField(2, time)
      /\ cs[3] = VarintField(3, no) /\ cs[4] = StringField(4, fw)
      /\ cs[5] = VarintField(5, boots)
  BY ONLY <1>3
<1>6. MayMiss("header", 1, cs[1], v)
  BY ONLY <1>2, <1>5, SchemaFields, ZeroValues, StringMayMiss
<1>7. MayMiss("header", 4, cs[4], v)
  BY ONLY <1>2, <1>5, SchemaFields, ZeroValues, StringMayMiss
<1>8. MayMiss("header", 2, cs[2], v)
  BY ONLY <1>2, <1>5, SchemaFields, ZeroValues, VarintMayMiss
<1>9. MayMiss("header", 3, cs[3], v)
  BY ONLY <1>2, <1>5, SchemaFields, ZeroValues, VarintMayMiss
<1>10. MayMiss("header", 5, cs[5], v)
  BY ONLY <1>2, <1>5, SchemaFields, ZeroValues, VarintMayMiss
<1>11. QED
  BY ONLY <1>4, <1>6, <1>7, <1>8, <1>9, <1>10 DEF MayAllMiss, cs

LEMMA MetricsMayMiss ==
  ASSUME NEW d, DataOK(d), NEW v, Measured(v, d)
  PROVE  MayAllMiss("metrics", MetricsFields(d), v)
<1> DEFINE cs == MetricsFields(d)
           temp == v["temperature"]
           hum == v["humidity"]
           volt == v["battery_voltage"]
           level == v["battery_level_pct"]
           rssi == v["rssi"]
           sec == v["interval_sec"]
<1>1. /\ temp = d.temperature /\ hum = d.humidity /\ volt = d.battery_voltage
      /\ level = d.battery_level_pct /\ rssi = Word(d.rssi) /\ sec = d.interval_sec
  BY ONLY Measured(v, d) DEF Measured
<1>2. /\ temp \in Floats /\ hum \in Floats /\ volt \in Floats
      /\ level \in Words /\ rssi \in Words /\ sec \in Words
  BY ONLY <1>1, DataOK(d), Uint32IsKept, WordOfInt DEF DataOK
<1>3. cs = <<FloatField(1, temp), FloatField(2, hum), FloatField(3, volt),
             VarintField(4, level), VarintField(5, rssi), VarintField(6, sec)>>
  BY ONLY <1>1 DEF MetricsFields
<1>4. DOMAIN cs = 1 .. 6
  BY DEF MetricsFields
<1> HIDE DEF cs
<1>5. /\ cs[1] = FloatField(1, temp) /\ cs[2] = FloatField(2, hum)
      /\ cs[3] = FloatField(3, volt) /\ cs[4] = VarintField(4, level)
      /\ cs[5] = VarintField(5, rssi) /\ cs[6] = VarintField(6, sec)
  BY ONLY <1>3
<1>6. MayMiss("metrics", 1, cs[1], v)
  BY ONLY <1>2, <1>5, SchemaFields, ZeroValues, FloatMayMiss
<1>7. MayMiss("metrics", 2, cs[2], v)
  BY ONLY <1>2, <1>5, SchemaFields, ZeroValues, FloatMayMiss
<1>8. MayMiss("metrics", 3, cs[3], v)
  BY ONLY <1>2, <1>5, SchemaFields, ZeroValues, FloatMayMiss
<1>9. MayMiss("metrics", 4, cs[4], v)
  BY ONLY <1>2, <1>5, SchemaFields, ZeroValues, VarintMayMiss
<1>10. MayMiss("metrics", 5, cs[5], v)
  BY ONLY <1>2, <1>5, SchemaFields, ZeroValues, VarintMayMiss
<1>11. MayMiss("metrics", 6, cs[6], v)
  BY ONLY <1>2, <1>5, SchemaFields, ZeroValues, VarintMayMiss
<1>12. QED
  BY ONLY <1>4, <1>6, <1>7, <1>8, <1>9, <1>10, <1>11 DEF MayAllMiss, cs

(* What the server makes of the state of a sparse message.                 *)
StateLeft(d) == IF StateEnum(d.state) = Zero THEN "" ELSE StateRead(d)

LEMMA StatusMayMiss ==
  ASSUME NEW d, DataOK(d), NEW v, Measured(v, d), v["state"] = StateLeft(d)
  PROVE  MayAllMiss("status", StatusFields(d), v)
<1> DEFINE cs == StatusFields(d)
           state == StateEnum(d.state)
           up == v["uptime_sec"]
           heap == v["free_heap_bytes"]
<1>1. up = d.uptime_sec /\ heap = d.free_heap_bytes
  BY ONLY Measured(v, d) DEF Measured
<1>2. up \in Words /\ heap \in Words /\ state \in Words
  BY ONLY <1>1, DataOK(d), Uint32IsKept, StateIsRead DEF DataOK
<1>3. cs = <<VarintField(1, state), VarintField(2, up), VarintField(3, heap)>>
  BY ONLY <1>1 DEF StatusFields
<1>4. DOMAIN cs = 1 .. 3
  BY DEF StatusFields
<1> HIDE DEF cs
<1>5. /\ cs[1] = VarintField(1, state) /\ cs[2] = VarintField(2, up)
      /\ cs[3] = VarintField(3, heap)
  BY ONLY <1>3
<1>6. state = Zero => v["state"] = ZeroOf("state")
  BY ONLY v["state"] = StateLeft(d), ZeroValues DEF StateLeft
<1> HIDE DEF state
<1>7. MayMiss("status", 1, cs[1], v)
  BY ONLY <1>2, <1>5, <1>6, SchemaFields, VarintMayMiss
<1>8. MayMiss("status", 2, cs[2], v)
  BY ONLY <1>2, <1>5, SchemaFields, ZeroValues, VarintMayMiss
<1>9. MayMiss("status", 3, cs[3], v)
  BY ONLY <1>2, <1>5, SchemaFields, ZeroValues, VarintMayMiss
<1>10. QED
  BY ONLY <1>4, <1>7, <1>8, <1>9 DEF MayAllMiss, cs

Dense(cs) == [j \in DOMAIN cs |-> IF IsDefault(cs[j]) THEN <<>> ELSE cs[j]]

LEMMA SparseForm ==
  ASSUME NEW d
  PROVE  Sparse(d) = Assemble([i \in 1 .. 3 |-> Dense(Sections(d)[i])])
BY Zenon DEF Sparse, Dense

LEMMA DenseFaithful ==
  ASSUME NEW message, NEW cs, NEW u, Holds(message, cs, u), ShortFields(cs),
         Len(cs) # 0, Len(cs) <= 6, NEW v, MayAllMiss(message, cs, v),
         \A j \in DOMAIN cs : IsDefault(cs[j]) \/ v[NameAt(message, j)] = u[NameAt(message, j)]
  PROVE  /\ FlattenSeq(Dense(cs)) \in Seq(Bytes) /\ Len(FlattenSeq(Dense(cs))) < MaxSize
         /\ Faithful(message, FlattenSeq(Dense(cs)), v)
<1> DEFINE T == Seq(Bytes)
           n == Len(cs)
           xs == Dense(cs)
<1>0. PICK P : P = {j \in DOMAIN cs : IsDefault(cs[j])}
  OBVIOUS
<1>1. cs \in Seq(T) /\ DOMAIN cs = 1 .. n
  BY DEF Holds
<1>2. n \in Nat
  BY <1>1, LenProperties
<1>3. xs = [j \in DOMAIN cs |-> IF j \in P THEN <<>> ELSE cs[j]]
  BY <1>0 DEF Dense
<1>4. \A j \in DOMAIN cs : IF j \in P THEN v[NameAt(message, j)] = ZeroOf(NameAt(message, j))
                           ELSE v[NameAt(message, j)] = u[NameAt(message, j)]
  BY <1>0 DEF MayAllMiss, MayMiss
<1> HIDE DEF n, T
<1>5. Faithful(message, FlattenSeq(xs), v)
  <2> HIDE DEF xs
  <2>1. QED
    BY ONLY <1>3, <1>4, Holds(message, cs, u), LeftOut
<1>6. ASSUME NEW j \in 1 .. n
      PROVE  cs[j] \in T /\ ShortField(cs[j])
  BY ONLY <1>1, ShortFields(cs), j \in 1 .. n, ElementIn DEF ShortFields
<1>7. <<>> \in T /\ ShortField(<<>>)
  BY SMT DEF ShortField, T
<1>8. \A j \in 1 .. n : xs[j] \in T /\ ShortField(xs[j])
  BY ONLY <1>1, <1>3, <1>6, <1>7
<1>9. xs \in Seq(T) /\ Len(xs) = n
  <2>1. xs \in [1 .. n -> T]
    <3>1. xs = [j \in 1 .. n |-> xs[j]]
      BY ONLY <1>1, <1>3
    <3> HIDE DEF xs
    <3>2. QED
      BY ONLY <1>8, <3>1
  <2> HIDE DEF xs
  <2>2. QED
    BY ONLY <1>2, <2>1, SeqOfFunction
<1> HIDE DEF xs
<1>10. FlattenSeq(xs) \in Seq(Bytes) /\ Len(FlattenSeq(xs)) < MaxSize
  <2>1. Len(xs) # 0 /\ Len(xs) <= 7
    <3>1. n # 0 /\ n <= 6
      BY DEF n
    <3>2. n <= 7
      BY ONLY <1>2, <3>1
    <3>3. QED
      BY ONLY <1>9, <3>1, <3>2
  <2>2. \A i \in 1 .. Len(xs) : Len(xs[i]) <= 2000
    BY ONLY <1>8, <1>9 DEF ShortField
  <2>3. QED
    BY ONLY <1>9, <2>1, <2>2, SectionIsShort DEF T
<1>11. QED
  BY ONLY <1>5, <1>10 DEF xs

(* Three bodies, one by one.                                               *)
LEMMA BodiesAreRead ==
  ASSUME NEW sections, DOMAIN sections = 1 .. 3, NEW v,
         \A i \in 1 .. 3 : /\ FlattenSeq(sections[i]) \in Seq(Bytes)
                           /\ Len(FlattenSeq(sections[i])) < MaxSize,
         Faithful("header", FlattenSeq(sections[1]), v),
         Faithful("metrics", FlattenSeq(sections[2]), v),
         Faithful("status", FlattenSeq(sections[3]), v)
  PROVE  /\ ShortBodies(Bodies(sections))
         /\ \A m \in RootNames : Faithful(m, Bodies(sections)[m], v)
<1> DEFINE bodies == Bodies(sections)
<1>1. /\ bodies["header"] = FlattenSeq(sections[1])
      /\ bodies["metrics"] = FlattenSeq(sections[2])
      /\ bodies["status"] = FlattenSeq(sections[3])
  BY DEF Bodies
<1> HIDE DEF bodies
<1>2. ASSUME NEW m \in RootNames
      PROVE  /\ bodies[m] \in Seq(Bytes) /\ Len(bodies[m]) < MaxSize
             /\ Faithful(m, bodies[m], v)
  <2>1. m = "header" \/ m = "metrics" \/ m = "status"
    BY DEF RootNames
  <2>2. 1 \in 1 .. 3 /\ 2 \in 1 .. 3 /\ 3 \in 1 .. 3
    OBVIOUS
  <2>3. CASE m = "header"
    BY <1>1, <2>2, <2>3
  <2>4. CASE m = "metrics"
    BY <1>1, <2>2, <2>4
  <2>5. CASE m = "status"
    BY <1>1, <2>2, <2>5
  <2>6. QED
    BY ONLY <2>1, <2>3, <2>4, <2>5
<1>3. ShortBodies(bodies)
  BY ONLY <1>2 DEF ShortBodies
<1>4. QED
  BY ONLY <1>2, <1>3 DEF bodies

LEMMA WithState ==
  ASSUME NEW d, NEW v, Measured(v, d)
  PROVE  \E u : /\ Measured(u, d) /\ u["state"] = StateRead(d)
                /\ \A n \in Names : n # "state" => u[n] = v[n]
<1> DEFINE u == [n \in Names |-> IF n = "state" THEN StateRead(d) ELSE v[n]]
<1>1. \A n \in Names : n # "state" => u[n] = v[n]
  OBVIOUS
<1>2. u["state"] = StateRead(d)
  BY DEF Names, StatusNames
<1>3. u = [n \in Names |-> u[n]]
  OBVIOUS
<1> HIDE DEF u
<1>4. \A n \in HeaderNames \cup MetricsNames \cup {"uptime_sec", "free_heap_bytes"} : u[n] = v[n]
  BY ONLY <1>1 DEF Names, HeaderNames, MetricsNames, StatusNames
<1>5. Measured(u, d)
  BY ONLY <1>3, <1>4, Measured(v, d) DEF Measured, HeaderNames, MetricsNames
<1>6. QED
  BY ONLY <1>1, <1>2, <1>5

(* Fields that are left out are zero for the server, a state of NORMAL is  *)
(* no state.                                                               *)
LEMMA SparseIsRead ==
  ASSUME NEW d, DataOK(d), NEW v, Measured(v, d), v["state"] = StateLeft(d)
  PROVE  Decode(Sparse(d)) = v
<1> DEFINE ss == Sections(d)
           xs == [i \in 1 .. 3 |-> Dense(ss[i])]
<1>1. PICK u : /\ Measured(u, d) /\ u["state"] = StateRead(d)
               /\ \A n \in Names : n # "state" => u[n] = v[n]
  BY WithState
<1>2. HoldsAll(ss, u)
  BY <1>1, SectionsHold
<1>3. /\ ss[1] = HeaderFields(d) /\ ss[2] = MetricsFields(d) /\ ss[3] = StatusFields(d)
  BY DEF Sections
<1>4. /\ MayAllMiss("header", ss[1], v) /\ MayAllMiss("metrics", ss[2], v)
      /\ MayAllMiss("status", ss[3], v)
  BY <1>3, HeaderMayMiss, MetricsMayMiss, StatusMayMiss
<1> DEFINE Same(m, cs) ==
             \A j \in DOMAIN cs : IsDefault(cs[j]) \/ v[NameAt(m, j)] = u[NameAt(m, j)]
<1> HIDE DEF ss
<1>5. /\ Holds("header", ss[1], u) /\ Holds("metrics", ss[2], u) /\ Holds("status", ss[3], u)
      /\ \A i \in 1 .. 3 : /\ ShortFields(ss[i])
                           /\ Len(ss[i]) # 0 /\ Len(ss[i]) <= 6
  BY ONLY <1>2 DEF HoldsAll
<1>6. ASSUME NEW m \in {"header", "metrics"}, NEW cs, Holds(m, cs, u)
      PROVE  Same(m, cs)
  <2>1. SUFFICES ASSUME NEW j \in DOMAIN cs
                 PROVE  v[NameAt(m, j)] = u[NameAt(m, j)]
    OBVIOUS
  <2>2. NameAt(m, j) \in NamesIn(m)
    BY <1>6 DEF Holds, NamesIn
  <2>3. NameAt(m, j) \in HeaderNames \cup MetricsNames
    BY <2>2, NamesInAre
  <2>4. NameAt(m, j) \in Names /\ NameAt(m, j) # "state"
    BY ONLY <2>3 DEF Names, HeaderNames, MetricsNames
  <2>5. QED
    BY ONLY <1>1, <2>4
<1>7. Same("status", ss[3])
  <2>1. SUFFICES ASSUME NEW j \in DOMAIN ss[3], ~ IsDefault(ss[3][j])
                 PROVE  v[NameAt("status", j)] = u[NameAt("status", j)]
    OBVIOUS
  <2>2. NameAt("status", j) \in Names
    <3>1. NameAt("status", j) \in NamesIn("status")
      BY <1>5 DEF Holds, NamesIn
    <3>2. QED
      BY ONLY <3>1, NamesInAre DEF Names
  <2>3. CASE NameAt("status", j) # "state"
    BY ONLY <1>1, <2>2, <2>3
  <2>4. CASE NameAt("status", j) = "state"
    <3>1. j = 1
      <4>1. j \in 1 .. 3
        BY <1>5, SchemaDomains DEF Holds
      <4>2. NameAt("status", 2) = "uptime_sec" /\ NameAt("status", 3) = "free_heap_bytes"
        BY SchemaFields, FieldAt
      <4>3. QED
        BY ONLY <2>4, <4>1, <4>2
    <3>2. ss[3][1] = VarintField(1, StateEnum(d.state))
      BY <1>3 DEF StatusFields
    <3>3. StateEnum(d.state) \in Words /\ 1 \in 1 .. 6
      BY StateIsRead
    <3>4. StateEnum(d.state) # Zero
      BY ONLY <2>1, <3>1, <3>2, <3>3, DefaultVarint
    <3>5. v["state"] = u["state"]
      BY ONLY <1>1, <3>4, v["state"] = StateLeft(d) DEF StateLeft
    <3>6. QED
      BY ONLY <2>4, <3>5
  <2>5. QED
    BY ONLY <2>3, <2>4
<1>8. Same("header", ss[1]) /\ Same("metrics", ss[2])
  BY ONLY <1>5, <1>6
<1>9. ASSUME NEW i \in 1 .. 3, NEW m, Holds(m, ss[i], u), MayAllMiss(m, ss[i], v), Same(m, ss[i])
      PROVE  /\ FlattenSeq(xs[i]) \in Seq(Bytes) /\ Len(FlattenSeq(xs[i])) < MaxSize
             /\ Faithful(m, FlattenSeq(xs[i]), v)
  <2>1. xs[i] = Dense(ss[i])
    OBVIOUS
  <2>2. ShortFields(ss[i]) /\ Len(ss[i]) # 0 /\ Len(ss[i]) <= 6
    BY ONLY <1>5, i \in 1 .. 3
  <2>3. \A j \in DOMAIN ss[i] : IsDefault(ss[i][j]) \/ v[NameAt(m, j)] = u[NameAt(m, j)]
    BY <1>9
  <2> HIDE DEF xs
  <2>4. QED
    BY ONLY <1>9, <2>1, <2>2, <2>3, DenseFaithful
<1>10. DOMAIN xs = 1 .. 3
  OBVIOUS
<1> HIDE DEF xs, Same
<1>11. /\ \A i \in 1 .. 3 : /\ FlattenSeq(xs[i]) \in Seq(Bytes)
                            /\ Len(FlattenSeq(xs[i])) < MaxSize
       /\ Faithful("header", FlattenSeq(xs[1]), v) /\ Faithful("metrics", FlattenSeq(xs[2]), v)
       /\ Faithful("status", FlattenSeq(xs[3]), v)
  <2>1. 1 \in 1 .. 3 /\ 2 \in 1 .. 3 /\ 3 \in 1 .. 3
    OBVIOUS
  <2>2. /\ FlattenSeq(xs[1]) \in Seq(Bytes) /\ Len(FlattenSeq(xs[1])) < MaxSize
        /\ Faithful("header", FlattenSeq(xs[1]), v)
    BY ONLY <1>4, <1>5, <1>8, <1>9, <2>1
  <2>3. /\ FlattenSeq(xs[2]) \in Seq(Bytes) /\ Len(FlattenSeq(xs[2])) < MaxSize
        /\ Faithful("metrics", FlattenSeq(xs[2]), v)
    BY ONLY <1>4, <1>5, <1>8, <1>9, <2>1
  <2>4. /\ FlattenSeq(xs[3]) \in Seq(Bytes) /\ Len(FlattenSeq(xs[3])) < MaxSize
        /\ Faithful("status", FlattenSeq(xs[3]), v)
    BY ONLY <1>4, <1>5, <1>7, <1>9, <2>1
  <2>5. ASSUME NEW i \in 1 .. 3
        PROVE  FlattenSeq(xs[i]) \in Seq(Bytes) /\ Len(FlattenSeq(xs[i])) < MaxSize
    <3>1. i = 1 \/ i = 2 \/ i = 3
      OBVIOUS
    <3>2. QED
      BY ONLY <2>2, <2>3, <2>4, <3>1
  <2>6. QED
    BY ONLY <2>2, <2>3, <2>4, <2>5
<1>12. /\ ShortBodies(Bodies(xs))
       /\ \A m \in RootNames : Faithful(m, Bodies(xs)[m], v)
  BY ONLY <1>10, <1>11, BodiesAreRead
<1>13. Decode(Assemble(xs)) = v
  <2>1. v = [n \in Names |-> v[n]]
    BY DEF Measured
  <2>2. QED
    BY ONLY <1>10, <1>12, <2>1, AssembleIsRead
<1>14. Sparse(d) = Assemble(xs)
  BY ONLY SparseForm DEF xs, ss
<1>15. QED
  BY ONLY <1>13, <1>14

-----------------------------------------------------------------------------
(* Other orders, and fields that the decoder does not know.                *)

ShortRow(cs) ==
  /\ cs \in Seq(Seq(Bytes)) /\ Len(cs) # 0 /\ Len(cs) <= 7
  /\ \A i \in 1 .. Len(cs) : ShortField(cs[i])

(* A section as it stands in a message.                                    *)
SectionIsRead(m, cs, v) ==
  /\ FlattenSeq(cs) \in Seq(Bytes) /\ Len(FlattenSeq(cs)) < MaxSize
  /\ Faithful(m, FlattenSeq(cs), v)

LEMMA RowIsRead ==
  ASSUME NEW m, NEW cs, NEW v, ShortRow(cs), Carries(m, FlattenSeq(cs), v, NamesIn(m))
  PROVE  SectionIsRead(m, cs, v)
<1>1. \A i \in 1 .. Len(cs) : Len(cs[i]) <= 2000
  BY ONLY ShortRow(cs) DEF ShortRow, ShortField
<1>2. FlattenSeq(cs) \in Seq(Bytes) /\ Len(FlattenSeq(cs)) < MaxSize
  BY ONLY <1>1, ShortRow(cs), SectionIsShort DEF ShortRow
<1>3. Faithful(m, FlattenSeq(cs), v)
  BY ONLY Carries(m, FlattenSeq(cs), v, NamesIn(m)), WhollyFaithful
<1>4. QED
  BY ONLY <1>2, <1>3 DEF SectionIsRead

(* The fields of a section, as the serializer writes them.                 *)
Written(m, cs, v) == Holds(m, cs, v) /\ ShortFields(cs) /\ Len(cs) # 0 /\ Len(cs) <= 6

LEMMA WrittenIs ==
  ASSUME NEW m, NEW cs, NEW v, Written(m, cs, v)
  PROVE  /\ cs \in Seq(Seq(Bytes)) /\ DOMAIN cs = 1 .. Len(cs) /\ Len(cs) \in 1 .. 6
         /\ \A i \in 1 .. Len(cs) : ShortField(cs[i]) /\ cs[i] \in Seq(Bytes)
<1> DEFINE T == Seq(Bytes)
           n == Len(cs)
<1>1. cs \in Seq(T) /\ DOMAIN cs = 1 .. n
  BY DEF Written, Holds
<1> HIDE DEF T
<1>2. n \in Nat
  BY ONLY <1>1, LenProperties
<1>3. n # 0 /\ n <= 6
  BY ONLY Written(m, cs, v) DEF Written
<1> HIDE DEF n
<1>4. n \in 1 .. 6
  BY ONLY <1>2, <1>3
<1>5. \A i \in 1 .. n : ShortField(cs[i])
  BY ONLY <1>1, Written(m, cs, v) DEF Written, ShortFields
<1>6. \A i \in 1 .. n : cs[i] \in T
  BY ONLY <1>1, ElementIn
<1>7. QED
  BY ONLY <1>1, <1>4, <1>5, <1>6 DEF n, T

LEMMA WrittenIsRead ==
  ASSUME NEW m, NEW cs, NEW v, Written(m, cs, v)
  PROVE  SectionIsRead(m, cs, v)
<1>1. ShortRow(cs)
  <2> DEFINE n == Len(cs)
  <2>1. n \in 1 .. 6
    BY WrittenIs
  <2> HIDE DEF n
  <2>2. n # 0 /\ n <= 7
    BY ONLY <2>1
  <2>3. QED
    BY <2>2, WrittenIs DEF ShortRow, n
<1>2. QED
  BY <1>1, InOrder, RowIsRead DEF Written

LEMMA ReverseIsRead ==
  ASSUME NEW m, NEW cs, NEW v, Written(m, cs, v)
  PROVE  SectionIsRead(m, Reverse(cs), v)
<1> DEFINE T == Seq(Bytes)
           n == Len(cs)
           rs == Reverse(cs)
<1>1. rs = [i \in 1 .. n |-> cs[(n - i) + 1]]
  BY DEF Reverse
<1>2. cs \in Seq(T) /\ n \in 1 .. 6 /\ \A i \in 1 .. n : ShortField(cs[i]) /\ cs[i] \in T
  BY WrittenIs
<1> HIDE DEF n, T, rs
<1>3. ASSUME NEW i \in 1 .. n PROVE rs[i] \in T /\ ShortField(rs[i])
  <2>1. (n - i) + 1 \in 1 .. n
    BY ONLY <1>2, i \in 1 .. n
  <2>2. QED
    BY ONLY <1>1, <1>2, <2>1, i \in 1 .. n
<1>4. rs \in [1 .. n -> T]
  BY ONLY <1>1, <1>3
<1>5. rs \in Seq(T) /\ Len(rs) = n
  <2>1. n \in Nat
    BY ONLY <1>2
  <2>2. QED
    BY ONLY <1>4, <2>1, SeqOfFunction
<1>6. n # 0 /\ n <= 7
  BY ONLY <1>2
<1>7. ShortRow(rs)
  BY ONLY <1>3, <1>5, <1>6 DEF ShortRow, T
<1>8. Carries(m, FlattenSeq(rs), v, NamesIn(m))
  BY ONLY Written(m, cs, v), InReverse DEF Written, rs
<1>9. QED
  BY ONLY <1>7, <1>8, RowIsRead DEF rs

(* A field that is skipped, before the others or behind them.              *)
LEMMA SkippedIsRead ==
  ASSUME NEW m, NEW cs, NEW v, Written(m, cs, v),
         NEW x, Yields(m, x, <<>>), ShortField(x)
  PROVE  SectionIsRead(m, <<x>> \o cs, v) /\ SectionIsRead(m, cs \o <<x>>, v)
<1> DEFINE T == Seq(Bytes)
           n == Len(cs)
           one == <<x>>
           first == one \o cs
           last == cs \o one
<1>1. cs \in Seq(T) /\ n \in 1 .. 6 /\ \A i \in 1 .. n : ShortField(cs[i])
  BY WrittenIs
<1>2. x \in T
  BY DEF Yields
<1> HIDE DEF T
<1>3. one \in Seq(T) /\ Len(one) = 1 /\ one[1] = x
  BY <1>2
<1>4. n \in Nat /\ 1 \in Nat /\ 1 + n # 0 /\ 1 + n <= 7 /\ n + 1 # 0 /\ n + 1 <= 7
  BY ONLY <1>1
<1> HIDE DEF n, one
<1>5. first \in Seq(T) /\ Joined(first, one, 1, cs, n)
  BY ONLY <1>1, <1>3, <1>4, ConcatElements DEF n
<1>6. last \in Seq(T) /\ Joined(last, cs, n, one, 1)
  BY ONLY <1>1, <1>3, <1>4, ConcatElements DEF n
<1> HIDE DEF first, last
<1>7. \A i \in 1 .. 1 + n : ShortField(first[i])
  <2>1. ASSUME NEW i \in 1 .. 1 + n PROVE i = 1 \/ (i \in 1 + 1 .. 1 + n /\ i - 1 \in 1 .. n)
    BY ONLY <1>4, i \in 1 .. 1 + n
  <2>2. first[1] = x /\ \A i \in 1 + 1 .. 1 + n : first[i] = cs[i - 1]
    BY ONLY <1>3, <1>5 DEF Joined
  <2>3. QED
    BY ONLY <1>1, <2>1, <2>2, ShortField(x)
<1>8. \A i \in 1 .. n + 1 : ShortField(last[i])
  <2>1. ASSUME NEW i \in 1 .. n + 1 PROVE i \in 1 .. n \/ (i \in n + 1 .. n + 1 /\ i - n = 1)
    BY ONLY <1>4, i \in 1 .. n + 1
  <2>2. /\ \A i \in 1 .. n : last[i] = cs[i]
        /\ \A i \in n + 1 .. n + 1 : last[i] = one[i - n]
    BY ONLY <1>6 DEF Joined
  <2>3. QED
    BY ONLY <1>1, <1>3, <2>1, <2>2, ShortField(x)
<1>9. ShortRow(first) /\ ShortRow(last)
  BY ONLY <1>4, <1>5, <1>6, <1>7, <1>8 DEF ShortRow, Joined, T
<1>10. /\ Carries(m, FlattenSeq(first), v, NamesIn(m))
       /\ Carries(m, FlattenSeq(last), v, NamesIn(m))
  <2>1. Holds(m, cs, v)
    BY DEF Written
  <2>2. /\ Carries(m, FlattenSeq(<<x>> \o cs), v, NamesIn(m))
        /\ Carries(m, FlattenSeq(cs \o <<x>>), v, NamesIn(m))
    BY ONLY <2>1, Yields(m, x, <<>>), BehindUnknown, BeforeUnknown
  <2>3. QED
    BY ONLY <2>2 DEF first, last, one
<1>11. SectionIsRead(m, first, v) /\ SectionIsRead(m, last, v)
  BY ONLY <1>9, <1>10, RowIsRead
<1>12. QED
  BY ONLY <1>11 DEF first, last, one

LEMMA SectionsAreWritten ==
  ASSUME NEW d, DataOK(d), NEW v, Measured(v, d), v["state"] = StateRead(d)
  PROVE  /\ DOMAIN Sections(d) = 1 .. 3
         /\ Written("header", Sections(d)[1], v) /\ Written("metrics", Sections(d)[2], v)
         /\ Written("status", Sections(d)[3], v)
<1> DEFINE ss == Sections(d)
<1>1. HoldsAll(ss, v)
  BY SectionsHold
<1> HIDE DEF ss
<1>2. 1 \in 1 .. 3 /\ 2 \in 1 .. 3 /\ 3 \in 1 .. 3
  OBVIOUS
<1>3. /\ DOMAIN ss = 1 .. 3
      /\ Written("header", ss[1], v) /\ Written("metrics", ss[2], v)
      /\ Written("status", ss[3], v)
  BY ONLY <1>1, <1>2 DEF HoldsAll, Written
<1>4. QED
  BY ONLY <1>3 DEF ss

(* Sections that are read make a message that is read.                     *)
LEMMA MessageIsRead ==
  ASSUME NEW sections, DOMAIN sections = 1 .. 3, NEW v, v = [n \in Names |-> v[n]],
         SectionIsRead("header", sections[1], v), SectionIsRead("metrics", sections[2], v),
         SectionIsRead("status", sections[3], v)
  PROVE  /\ ShortBodies(Bodies(sections))
         /\ \A m \in RootNames : Faithful(m, Bodies(sections)[m], v)
         /\ Decode(Assemble(sections)) = v
<1>1. ASSUME NEW i \in 1 .. 3
      PROVE  FlattenSeq(sections[i]) \in Seq(Bytes) /\ Len(FlattenSeq(sections[i])) < MaxSize
  <2>1. i = 1 \/ i = 2 \/ i = 3
    OBVIOUS
  <2>2. CASE i = 1
    BY <2>2 DEF SectionIsRead
  <2>3. CASE i = 2
    BY <2>3 DEF SectionIsRead
  <2>4. CASE i = 3
    BY <2>4 DEF SectionIsRead
  <2>5. QED
    BY ONLY <2>1, <2>2, <2>3, <2>4
<1>2. /\ Faithful("header", FlattenSeq(sections[1]), v)
      /\ Faithful("metrics", FlattenSeq(sections[2]), v)
      /\ Faithful("status", FlattenSeq(sections[3]), v)
  BY DEF SectionIsRead
<1>3. /\ ShortBodies(Bodies(sections))
      /\ \A m \in RootNames : Faithful(m, Bodies(sections)[m], v)
  BY ONLY <1>1, <1>2, DOMAIN sections = 1 .. 3, BodiesAreRead
<1>4. QED
  BY ONLY <1>3, DOMAIN sections = 1 .. 3, v = [n \in Names |-> v[n]], AssembleIsRead

LEMMA ReversedIsRead ==
  ASSUME NEW d, DataOK(d), NEW v, Measured(v, d), v["state"] = StateRead(d)
  PROVE  Decode(Reversed(d)) = v
<1> DEFINE ss == Sections(d)
           xs == [i \in 1 .. 3 |-> Reverse(ss[i])]
           bodies == Bodies(xs)
           parts == RootRow(bodies)
           rs == [i \in 1 .. 3 |-> StringField(4 - i, FlattenSeq(Reverse(ss[4 - i])))]
<1>1. v = [n \in Names |-> v[n]]
  BY DEF Measured
<1>2. /\ Written("header", ss[1], v) /\ Written("metrics", ss[2], v)
      /\ Written("status", ss[3], v)
  BY SectionsAreWritten
<1>3. Reversed(d) = FlattenSeq(rs)
  BY Zenon DEF Reversed
<1> HIDE DEF ss
<1>4. xs[1] = Reverse(ss[1]) /\ xs[2] = Reverse(ss[2]) /\ xs[3] = Reverse(ss[3])
      /\ DOMAIN xs = 1 .. 3
  OBVIOUS
<1>5. /\ rs[1] = StringField(3, FlattenSeq(xs[3])) /\ rs[2] = StringField(2, FlattenSeq(xs[2]))
      /\ rs[3] = StringField(1, FlattenSeq(xs[1])) /\ rs = [i \in 1 .. 3 |-> rs[i]]
  <2>1. 4 - 1 = 3 /\ 4 - 2 = 2 /\ 4 - 3 = 1 /\ 1 \in 1 .. 3 /\ 2 \in 1 .. 3 /\ 3 \in 1 .. 3
    OBVIOUS
  <2>2. \A i \in 1 .. 3 : rs[i] = StringField(4 - i, FlattenSeq(Reverse(ss[4 - i])))
    OBVIOUS
  <2>3. rs = [i \in 1 .. 3 |-> rs[i]]
    OBVIOUS
  <2> HIDE DEF rs, xs
  <2>4. QED
    BY ONLY <1>4, <2>1, <2>2, <2>3
<1> HIDE DEF xs, rs
<1>6. /\ SectionIsRead("header", xs[1], v) /\ SectionIsRead("metrics", xs[2], v)
      /\ SectionIsRead("status", xs[3], v)
  BY ONLY <1>2, <1>4, ReverseIsRead
<1>7. ShortBodies(bodies) /\ \A m \in RootNames : Faithful(m, bodies[m], v)
  BY ONLY <1>1, <1>4, <1>6, MessageIsRead
<1>8. /\ bodies["header"] = FlattenSeq(xs[1]) /\ bodies["metrics"] = FlattenSeq(xs[2])
      /\ bodies["status"] = FlattenSeq(xs[3])
  BY DEF Bodies
<1> HIDE DEF bodies
<1>9. /\ Len(parts) = 3 /\ parts[1] = StringField(1, FlattenSeq(xs[1]))
      /\ parts[2] = StringField(2, FlattenSeq(xs[2])) /\ parts[3] = StringField(3, FlattenSeq(xs[3]))
  BY <1>8 DEF RootRow
<1> HIDE DEF parts
<1>10. rs = Reverse(parts)
  <2>1. Reverse(parts) = [i \in 1 .. 3 |-> parts[(3 - i) + 1]]
    BY <1>9 DEF Reverse
  <2>2. ASSUME NEW i \in 1 .. 3 PROVE rs[i] = parts[(3 - i) + 1]
    <3>1. (i = 1 /\ (3 - i) + 1 = 3) \/ (i = 2 /\ (3 - i) + 1 = 2) \/ (i = 3 /\ (3 - i) + 1 = 1)
      OBVIOUS
    <3>2. QED
      BY ONLY <1>5, <1>9, <3>1
  <2>3. QED
    BY ONLY <1>5, <2>1, <2>2
<1>11. Carries("root", FlattenSeq(rs), bodies, RootNames)
  <2>1. Holds("root", parts, bodies)
    BY ONLY <1>7, RootHolds DEF parts
  <2>2. QED
    BY ONLY <1>10, <2>1, InReverse, NamesInAre
<1>12. QED
  BY ONLY <1>1, <1>3, <1>7, <1>11, DecodeFaithful

LEMMA ExtraIsSkipped ==
  ASSUME NEW e \in Extras
  PROVE  /\ ShortField(ExtraField(e))
         /\ \A m \in Messages : Yields(m, ExtraField(e), <<>>)
<1> DEFINE n == e.field
           s == e.content
           x == ExtraField(e)
<1>1. n \in FieldNumbers /\ n > 6 /\ e.wire \in {0, 1, 2, 5} /\ s \in Contents(e.wire)
  BY UplinkAssumption
<1> HIDE DEF n, s
<1>2. CASE e.wire = 0
  <2>1. s \in Words /\ x = VarintField(n, s)
    BY <1>1, <1>2 DEF Contents, ExtraField, n, s
  <2> HIDE DEF x
  <2>2. ShortField(x)
    BY ONLY <1>1, <2>1, FieldIsShort
  <2>3. \A m \in Messages : Yields(m, x, <<>>)
    BY ONLY <1>1, <2>1, UnknownVarint
  <2>4. QED
    BY ONLY <2>2, <2>3 DEF x
<1>3. CASE e.wire = 2
  <2>1. s \in Strings /\ x = StringField(n, s)
    BY <1>1, <1>3 DEF Contents, ExtraField, n, s
  <2> HIDE DEF x
  <2>2. s \in Seq(Bytes) /\ Len(s) <= 1000 /\ Len(s) < MaxSize
    BY ONLY <2>1, StringSize
  <2>3. ShortField(x)
    BY ONLY <1>1, <2>1, <2>2, FieldIsShort
  <2>4. \A m \in Messages : Yields(m, x, <<>>)
    BY ONLY <1>1, <2>1, <2>2, UnknownString
  <2>5. QED
    BY ONLY <2>3, <2>4 DEF x
<1>4. CASE e.wire = 1 \/ e.wire = 5
  <2> DEFINE wire == e.wire
  <2>1. s \in Seq(Bytes) /\ ((wire = 1 /\ Len(s) = 8) \/ (wire = 5 /\ Len(s) = 4))
    BY <1>1, <1>4 DEF Contents, Floats, n, s
  <2>2. x = Tag(n, wire) \o s
    <3>1. e.wire # 0 /\ e.wire # 2
      BY ONLY <1>4
    <3>2. ExtraField(e) = Tag(e.field, e.wire) \o e.content
      BY ONLY <3>1 DEF ExtraField
    <3>3. QED
      BY ONLY <3>2 DEF n, s
  <2> HIDE DEF x, wire
  <2>3. wire \in 0 .. 7 /\ Len(s) <= 8
    <3> DEFINE l == Len(s)
    <3>1. (wire = 1 /\ l = 8) \/ (wire = 5 /\ l = 4)
      BY ONLY <2>1
    <3> HIDE DEF l
    <3>2. wire \in 0 .. 7 /\ l <= 8
      BY ONLY <3>1
    <3>3. QED
      BY ONLY <3>2 DEF l
  <2>4. ShortField(x)
    BY ONLY <1>1, <2>1, <2>2, <2>3, FieldIsShort
  <2>5. \A m \in Messages : Yields(m, x, <<>>)
    BY ONLY <1>1, <2>1, <2>2, UnknownBytes
  <2>6. QED
    BY ONLY <2>4, <2>5 DEF x
<1>5. QED
  BY ONLY <1>1, <1>2, <1>3, <1>4

(* A field that is skipped, in one of the sections.                        *)
LEMMA ExtraInSection ==
  ASSUME NEW d, DataOK(d), NEW v, Measured(v, d), v["state"] = StateRead(d),
         NEW x, ShortField(x), \A m \in Messages : Yields(m, x, <<>>), NEW i \in 1 .. 3
  PROVE  /\ Decode(Assemble([Sections(d) EXCEPT ![i] = <<x>> \o @])) = v
         /\ Decode(Assemble([Sections(d) EXCEPT ![i] = @ \o <<x>>])) = v
<1> DEFINE ss == Sections(d)
<1>1. /\ DOMAIN ss = 1 .. 3
      /\ Written("header", ss[1], v) /\ Written("metrics", ss[2], v)
      /\ Written("status", ss[3], v)
  BY SectionsAreWritten
<1>2. v = [n \in Names |-> v[n]]
  BY DEF Measured
<1> HIDE DEF ss
<1>3. "header" \in Messages /\ "metrics" \in Messages /\ "status" \in Messages
  BY DEF Messages
<1>4. ASSUME NEW m \in Messages, NEW j \in 1 .. 3, Written(m, ss[j], v)
      PROVE  /\ SectionIsRead(m, ss[j], v)
             /\ SectionIsRead(m, <<x>> \o ss[j], v)
             /\ SectionIsRead(m, ss[j] \o <<x>>, v)
  <2>1. Yields(m, x, <<>>)
    OBVIOUS
  <2>2. QED
    BY ONLY <1>4, <2>1, ShortField(x), WrittenIsRead, SkippedIsRead
<1>5. ASSUME NEW y, \A j \in 1 .. 3 : y[j] \in {ss[j], <<x>> \o ss[j], ss[j] \o <<x>>},
             DOMAIN y = 1 .. 3
      PROVE  Decode(Assemble(y)) = v
  <2>1. ASSUME NEW m \in Messages, NEW j \in 1 .. 3, Written(m, ss[j], v)
        PROVE  SectionIsRead(m, y[j], v)
    BY ONLY <1>4, <1>5, <2>1
  <2>2. 1 \in 1 .. 3 /\ 2 \in 1 .. 3 /\ 3 \in 1 .. 3
    OBVIOUS
  <2>3. /\ SectionIsRead("header", y[1], v) /\ SectionIsRead("metrics", y[2], v)
        /\ SectionIsRead("status", y[3], v)
    BY ONLY <1>1, <1>3, <2>1, <2>2
  <2>4. QED
    BY ONLY <1>2, <1>5, <2>3, MessageIsRead
<1>6. Decode(Assemble([ss EXCEPT ![i] = <<x>> \o @])) = v
  <2> DEFINE y == [ss EXCEPT ![i] = <<x>> \o @]
  <2>1. DOMAIN y = 1 .. 3 /\ \A j \in 1 .. 3 : y[j] = IF j = i THEN <<x>> \o ss[j] ELSE ss[j]
    BY ONLY <1>1, i \in 1 .. 3
  <2> HIDE DEF y
  <2>2. Decode(Assemble(y)) = v
    BY ONLY <1>5, <2>1
  <2>3. QED
    BY ONLY <2>2 DEF y
<1>7. Decode(Assemble([ss EXCEPT ![i] = @ \o <<x>>])) = v
  <2> DEFINE y == [ss EXCEPT ![i] = @ \o <<x>>]
  <2>1. DOMAIN y = 1 .. 3 /\ \A j \in 1 .. 3 : y[j] = IF j = i THEN ss[j] \o <<x>> ELSE ss[j]
    BY ONLY <1>1, i \in 1 .. 3
  <2> HIDE DEF y
  <2>2. Decode(Assemble(y)) = v
    BY ONLY <1>5, <2>1
  <2>3. QED
    BY ONLY <2>2 DEF y
<1>8. QED
  BY ONLY <1>6, <1>7 DEF ss

LEMMA ExtraInRoot ==
  ASSUME NEW d, DataOK(d), NEW v, Measured(v, d), v["state"] = StateRead(d),
         NEW x, Yields("root", x, <<>>)
  PROVE  Decode(x \o Encode(d)) = v /\ Decode(Encode(d) \o x) = v
<1> DEFINE ss == Sections(d)
           bodies == Bodies(ss)
           c == Encode(d)
<1>1. /\ DOMAIN ss = 1 .. 3
      /\ Written("header", ss[1], v) /\ Written("metrics", ss[2], v)
      /\ Written("status", ss[3], v)
  BY SectionsAreWritten
<1>2. v = [n \in Names |-> v[n]]
  BY DEF Measured
<1>3. Carries("root", c, bodies, RootNames)
  BY EncodeIsRead
<1> HIDE DEF ss, c
<1>4. /\ SectionIsRead("header", ss[1], v) /\ SectionIsRead("metrics", ss[2], v)
      /\ SectionIsRead("status", ss[3], v)
  BY ONLY <1>1, WrittenIsRead
<1>5. \A m \in RootNames : Faithful(m, bodies[m], v)
  BY ONLY <1>1, <1>2, <1>4, MessageIsRead
<1> HIDE DEF bodies
<1>6. Carries("root", x, bodies, {})
  BY ONLY Yields("root", x, <<>>), YieldsNone
<1>7. Carries("root", x \o c, bodies, RootNames)
  <2>1. Carries("root", x \o c, bodies, {} \cup RootNames)
    BY ONLY <1>3, <1>6, CarriesBoth
  <2>2. {} \cup RootNames = RootNames
    OBVIOUS
  <2>3. QED
    BY ONLY <2>1, <2>2
<1>8. Carries("root", c \o x, bodies, RootNames)
  <2>1. Carries("root", c \o x, bodies, RootNames \cup {})
    BY ONLY <1>3, <1>6, CarriesBoth
  <2>2. RootNames \cup {} = RootNames
    OBVIOUS
  <2>3. QED
    BY ONLY <2>1, <2>2
<1>9. Decode(x \o c) = v
  BY ONLY <1>2, <1>5, <1>7, DecodeFaithful
<1>10. Decode(c \o x) = v
  BY ONLY <1>2, <1>5, <1>8, DecodeFaithful
<1>11. QED
  BY ONLY <1>9, <1>10 DEF c

(* What later versions of the schema add changes nothing.                  *)
LEMMA NewerIsRead ==
  ASSUME NEW d, DataOK(d), NEW v, Measured(v, d), v["state"] = StateRead(d),
         NEW b \in Newer(d)
  PROVE  Decode(b) = v
<1>1. ASSUME NEW e \in Extras, NEW i \in 1 .. 3
      PROVE  /\ Decode(Assemble(ExtraBefore(d, e, i))) = v
             /\ Decode(Assemble(ExtraBehind(d, e, i))) = v
  <2> DEFINE x == ExtraField(e)
  <2>1. ShortField(x) /\ \A m \in Messages : Yields(m, x, <<>>)
    BY ONLY e \in Extras, ExtraIsSkipped
  <2> HIDE DEF x
  <2>2. /\ Decode(Assemble([Sections(d) EXCEPT ![i] = <<x>> \o @])) = v
        /\ Decode(Assemble([Sections(d) EXCEPT ![i] = @ \o <<x>>])) = v
    BY ONLY <2>1, DataOK(d), Measured(v, d), v["state"] = StateRead(d), i \in 1 .. 3,
            ExtraInSection
  <2>3. QED
    BY ONLY <2>2, Zenon DEF x, ExtraBefore, ExtraBehind
<1>2. ASSUME NEW e \in Extras
      PROVE  Decode(ExtraField(e) \o Encode(d)) = v /\ Decode(Encode(d) \o ExtraField(e)) = v
  <2>1. Yields("root", ExtraField(e), <<>>)
    BY ONLY e \in Extras, ExtraIsSkipped DEF Messages
  <2>2. QED
    BY ONLY <2>1, DataOK(d), Measured(v, d), v["state"] = StateRead(d), ExtraInRoot
<1>3. \/ \E e \in Extras, i \in 1 .. 3 : b = Assemble(ExtraBefore(d, e, i))
      \/ \E e \in Extras, i \in 1 .. 3 : b = Assemble(ExtraBehind(d, e, i))
      \/ \E e \in Extras : b = ExtraField(e) \o Encode(d)
      \/ \E e \in Extras : b = Encode(d) \o ExtraField(e)
  BY ONLY b \in Newer(d), SMTT(40) DEF Newer
<1>4. QED
  BY ONLY <1>1, <1>2, <1>3

-----------------------------------------------------------------------------
(* What a sender means is what the server makes of it.                     *)

LEMMA DataFields ==
  ASSUME NEW d \in TelemetryData
  PROVE  DOMAIN d = Names /\ d = [n \in Names |-> d[n]]
<1>1. DOMAIN d = Names /\ d = [n \in DOMAIN d |-> d[n]]
  BY DEF TelemetryData, Names, HeaderNames, MetricsNames, StatusNames
<1>2. QED
  BY ONLY <1>1

LEMMA NamesAre ==
  /\ \A n \in {"device_id", "timestamp", "seq_no", "firmware_version", "boot_count",
               "temperature", "humidity", "battery_voltage", "battery_level_pct", "rssi",
               "interval_sec", "state", "uptime_sec", "free_heap_bytes"} : n \in Names
BY DEF Names, HeaderNames, MetricsNames, StatusNames

-----------------------------------------------------------------------------
(* Two decimals.                                                           *)

LEMMA PowerIsPositive ==
  ASSUME NEW n \in 0 .. 30
  PROVE  PowerOf2(n) \in Nat /\ PowerOf2(n) > 0
<1> DEFINE small == <<1, 2, 4, 8, 16, 32, 64>>
           i == (n \div 7) + 1
           k == (n % 7) + 1
<1>1. i \in 1 .. 5 /\ k \in 1 .. 7
  OBVIOUS
<1>2. \A j \in 1 .. 5 : Weights[j] \in {1, 128, 16384, 2097152, 268435456}
  BY DEF Weights
<1>3. \A j \in 1 .. 7 : small[j] \in {1, 2, 4, 8, 16, 32, 64}
  OBVIOUS
<1>4. PowerOf2(n) = Weights[i] * small[k]
  BY DEF PowerOf2
<1> HIDE DEF small, i, k
<1> DEFINE x == Weights[i]
           y == small[k]
<1>5. x \in Nat /\ x > 0 /\ y \in Nat /\ y > 0
  BY ONLY <1>1, <1>2, <1>3
<1> HIDE DEF x, y
<1>6. x * y \in Nat /\ x * y > 0
  BY ONLY <1>5, SMT
<1> QED
  BY ONLY <1>4, <1>6 DEF x, y

(* Half a unit at most lies between a number and the one it is rounded to. *)
LEMMA RoundedIsNear ==
  ASSUME NEW a \in Nat, NEW h \in Nat, h > 0
  PROVE  /\ Rounded(a, h) \in Nat
         /\ -h <= (a - (h * Rounded(a, h))) - (h * Rounded(a, h))
         /\ (a - (h * Rounded(a, h))) - (h * Rounded(a, h)) <= h
<1> DEFINE u == a \div h
           r == a % h
           q == u \div 2
           n == Rounded(a, h)
<1>1. u \in Nat /\ r \in 0 .. h - 1 /\ a = (h * u) + r
  OBVIOUS
<1>2. n = IF u % 2 = 1 /\ (r > 0 \/ q % 2 = 1) THEN q + 1 ELSE q
  BY DEF Rounded
<1> HIDE DEF u, r, n
<1>3. q \in Nat /\ (u = 2 * q \/ u = (2 * q) + 1)
  BY ONLY <1>1
<1>4. u = 2 * q => u % 2 = 0
  BY ONLY <1>3
<1>5. u = (2 * q) + 1 => u % 2 = 1
  BY ONLY <1>3
<1> HIDE DEF q
<1> DEFINE w == h * q
<1>6. w \in Nat
  BY <1>3
<1>7. h * (q + 1) = w + h /\ h * (2 * q) = w + w /\ h * ((2 * q) + 1) = (w + w) + h
  BY <1>3
<1>8. h * q = w
  OBVIOUS
<1> HIDE DEF w
<1>9. CASE u = 2 * q
  <2>1. n = q /\ a = (w + w) + r
    BY ONLY <1>1, <1>2, <1>3, <1>4, <1>7, <1>9
  <2> QED
    BY ONLY <1>1, <1>3, <1>6, <1>8, <2>1, h \in Nat DEF n
<1>10. CASE u = (2 * q) + 1 /\ (r > 0 \/ q % 2 = 1)
  <2>1. n = q + 1 /\ a = ((w + w) + h) + r
    BY ONLY <1>1, <1>2, <1>5, <1>7, <1>10
  <2> DEFINE z == h * (q + 1)
  <2>2. z = w + h
    BY ONLY <1>7
  <2> HIDE DEF z
  <2>3. -h <= (a - z) - z /\ (a - z) - z <= h
    BY ONLY <1>1, <1>6, <2>1, <2>2, h \in Nat
  <2> QED
    BY ONLY <1>3, <2>1, <2>3 DEF n, z
<1>11. CASE u = (2 * q) + 1 /\ ~ (r > 0 \/ q % 2 = 1)
  <2>1. n = q /\ a = (w + w) + h /\ r = 0
    BY ONLY <1>1, <1>2, <1>7, <1>11
  <2> QED
    BY ONLY <1>3, <1>6, <1>8, <2>1, h \in Nat DEF n
<1> QED
  BY ONLY <1>3, <1>9, <1>10, <1>11

LEMMA FloatParts ==
  ASSUME NEW f \in Floats
  PROVE  /\ Scaled(f) \in Nat
         /\ ~ IsWhole(f) /\ ~ IsTiny(f) => Half(f) \in Nat /\ Half(f) > 0
<1>0. f \in Seq(Bytes) /\ Len(f) = 4
  BY DEF Floats
<1>1. f[1] \in Nat /\ f[2] \in Nat /\ f[3] \in Nat /\ f[4] \in Nat
  <2>1. \A i \in 1 .. 4 : f[i] \in Bytes
    BY ONLY <1>0
  <2>2. \A i \in 1 .. 4 : f[i] \in Nat
    BY ONLY <2>1 DEF Bytes
  <2> QED
    BY ONLY <2>2
<1>2. Exponent(f) \in Nat
  BY ONLY <1>1 DEF Exponent
<1>3. Significand(f) \in Nat
  <2> DEFINE a == f[1]
             b == f[2]
             c == f[3] % 128
             e == IF Exponent(f) = 0 THEN 0 ELSE 8388608
  <2>1. a \in Nat /\ b \in Nat /\ c \in Nat /\ e \in Nat
    BY ONLY <1>1
  <2>2. Significand(f) = a + (256 * b) + (65536 * c) + e
    BY ONLY DEF Significand
  <2> HIDE DEF a, b, c, e
  <2> QED
    BY ONLY <2>1, <2>2
<1>4. ASSUME ~ IsWhole(f), ~ IsTiny(f) PROVE 149 - Exponent(f) \in 0 .. 30
  BY ONLY <1>2, <1>4 DEF IsWhole, IsTiny
<1> QED
  BY <1>3, <1>4, PowerIsPositive DEF Scaled, Half

(* What is printed is the nearest number of hundredths, or all of a float. *)
LEMMA PrintedIsNear ==
  ASSUME NEW f \in Floats
  PROVE  Near(Printed(f), f)
<1>1. CASE IsWhole(f)
  BY <1>1 DEF Printed, Near
<1>2. CASE ~ IsWhole(f)
  <2> DEFINE m == IF IsTiny(f) THEN 0 ELSE Rounded(Scaled(f), Half(f))
             v == Printed(f)
             n == IF Negative(f) THEN -v[1] ELSE v[1]
             h == Half(f)
             a == Scaled(f)
  <2>1. m \in Nat
    BY <1>2, FloatParts, RoundedIsNear
  <2>2. v = <<IF Negative(f) THEN -m ELSE m>>
    BY <1>2 DEF Printed, Hundredths
  <2> HIDE DEF m, v
  <2>3. Len(v) = 1 /\ n = m
    BY ONLY <2>1, <2>2
  <2> HIDE DEF n
  <2>4. CASE IsTiny(f)
    <3>1. n = 0
      BY ONLY <2>3, <2>4 DEF m
    <3> QED
      BY ONLY <1>2, <2>3, <2>4, <3>1 DEF Near, n, v
  <2>5. CASE ~ IsTiny(f)
    <3>1. a \in Nat /\ h \in Nat /\ h > 0
      BY <1>2, <2>5, FloatParts
    <3>2. n = Rounded(a, h)
      BY ONLY <2>3, <2>5 DEF m, a, h
    <3> HIDE DEF a, h
    <3>3. -h <= (a - (h * n)) - (h * n) /\ (a - (h * n)) - (h * n) <= h
      BY ONLY <3>1, <3>2, RoundedIsNear
    <3> QED
      BY ONLY <1>2, <2>3, <2>5, <3>3 DEF Near, n, v, a, h
  <2> QED
    BY ONLY <2>4, <2>5
<1> QED
  BY <1>1, <1>2

LEMMA JsonIs ==
  ASSUME NEW d \in TelemetryData, IsSayable(d)
  PROVE  /\ Json(d) = [n \in Names |-> Json(d)[n]]
         /\ Json(d)["device_id"] = OrElse(d.device_id, Unknown)
         /\ Json(d)["firmware_version"] = OrElse(d.firmware_version, FirstFirmware)
         /\ Json(d)["rssi"] = Word(d.rssi) /\ Json(d)["state"] = OrElse(d.state, "NORMAL")
         /\ Json(d)["interval_sec"] = Zero
         /\ \A n \in Measurements : Json(d)[n] = Printed(d[n])
         /\ \A n \in Names \ (Measurements \cup {"device_id", "firmware_version", "rssi",
                                                "interval_sec", "state"}) : Json(d)[n] = d[n]
<1>1. DOMAIN d = Names /\ d = [n \in Names |-> d[n]]
  BY DataFields
<1> DEFINE a == OrElse(d.device_id, Unknown)
           b == OrElse(d.firmware_version, FirstFirmware)
           c == Word(d.rssi)
           e == OrElse(d.state, "NORMAL")
           x == Printed(d.temperature)
           y == Printed(d.humidity)
           z == Printed(d.battery_voltage)
           i == Zero
           j == Json(d)
<1>2. j = [d EXCEPT !.device_id = a, !.firmware_version = b, !.temperature = x, !.humidity = y,
                    !.battery_voltage = z, !.rssi = c, !.interval_sec = i, !.state = e]
  BY DEF Json
<1>3. d["temperature"] = d.temperature /\ d["humidity"] = d.humidity
      /\ d["battery_voltage"] = d.battery_voltage
  OBVIOUS
<1>4. \A n \in Measurements : n \in {"temperature", "humidity", "battery_voltage"}
  BY DEF Measurements
<1> HIDE DEF a, b, c, e, i, j, x, y, z
<1>5. /\ DOMAIN j = Names /\ j = [n \in Names |-> j[n]]
      /\ j["device_id"] = a /\ j["firmware_version"] = b /\ j["rssi"] = c /\ j["state"] = e
      /\ j["interval_sec"] = i
      /\ j["temperature"] = x /\ j["humidity"] = y /\ j["battery_voltage"] = z
      /\ \A n \in Names \ {"temperature", "humidity", "battery_voltage", "device_id",
                           "firmware_version", "rssi", "interval_sec", "state"} : j[n] = d[n]
  BY ONLY <1>1, <1>2, NamesAre
<1>6. \A n \in Measurements : j[n] = Printed(d[n])
  BY ONLY <1>3, <1>4, <1>5 DEF x, y, z
<1>7. \A n \in Names \ (Measurements \cup {"device_id", "firmware_version", "rssi",
                                         "interval_sec", "state"}) : j[n] = d[n]
  BY ONLY <1>5 DEF Measurements
<1>8. QED
  BY ONLY <1>5, <1>6, <1>7 DEF a, b, c, e, i, j

LEMMA MeantIs ==
  ASSUME NEW d \in TelemetryData
  PROVE  /\ Meant(d) = [n \in Names |-> Meant(d)[n]] /\ DOMAIN Meant(d) = Names
         /\ Meant(d)["device_id"] = OrElse(d.device_id, Unknown)
         /\ Meant(d)["firmware_version"] = OrElse(d.firmware_version, FirstFirmware)
         /\ Meant(d)["rssi"] = Word(d.rssi) /\ Meant(d)["state"] = StateRead(d)
         /\ \A n \in Names \ {"device_id", "firmware_version", "rssi", "state"} :
              Meant(d)[n] = d[n]
<1>1. DOMAIN d = Names /\ d = [n \in Names |-> d[n]]
  BY DataFields
<1> DEFINE a == OrElse(d.device_id, Unknown)
           b == OrElse(d.firmware_version, FirstFirmware)
           c == Word(d.rssi)
           e == StateRead(d)
           j == Meant(d)
<1>2. j = [d EXCEPT !.device_id = a, !.firmware_version = b, !.rssi = c, !.state = e]
  BY Zenon DEF Meant, StateRead, KnownState
<1> HIDE DEF a, b, c, e, j
<1>3. /\ DOMAIN j = Names /\ j = [n \in Names |-> j[n]]
      /\ j["device_id"] = a /\ j["firmware_version"] = b /\ j["rssi"] = c /\ j["state"] = e
      /\ \A n \in Names \ {"device_id", "firmware_version", "rssi", "state"} : j[n] = d[n]
  BY ONLY <1>1, <1>2, NamesAre
<1>4. QED
  BY ONLY <1>3 DEF a, b, c, e, j

(* What the binary senders' telemetries are read as: they may leave the    *)
(* state out.                                                              *)
StateOfRequest(type, d) == IF type = "sparse" THEN StateLeft(d) ELSE StateRead(d)

AsRead(d, type) == [Meant(d) EXCEPT !.state = StateOfRequest(type, d)]

LEMMA BinaryIs ==
  ASSUME NEW d \in TelemetryData, NEW type
  PROVE  /\ Measured(AsRead(d, type), d)
         /\ AsRead(d, type)["state"] = StateOfRequest(type, d)
         /\ \A n \in Names \ {"state"} : AsRead(d, type)[n] = Meant(d)[n]
<1> DEFINE j == Meant(d)
           state == StateOfRequest(type, d)
           v == [j EXCEPT !.state = state]
<1>1. /\ j = [n \in Names |-> j[n]] /\ DOMAIN j = Names
      /\ j["device_id"] = OrElse(d.device_id, Unknown)
      /\ j["firmware_version"] = OrElse(d.firmware_version, FirstFirmware)
      /\ j["rssi"] = Word(d.rssi)
      /\ \A n \in Names \ {"device_id", "firmware_version", "rssi", "state"} : j[n] = d[n]
  BY MeantIs
<1> HIDE DEF j, state
<1>2. /\ DOMAIN v = Names /\ v = [n \in Names |-> v[n]] /\ v["state"] = state
      /\ \A n \in Names \ {"state"} : v[n] = j[n]
  BY ONLY <1>1, NamesAre
<1> HIDE DEF v
<1>3. /\ v["device_id"] = OrElse(d.device_id, Unknown)
      /\ v["firmware_version"] = OrElse(d.firmware_version, FirstFirmware)
      /\ v["rssi"] = Word(d.rssi)
  BY ONLY <1>1, <1>2, NamesAre
<1>4. ASSUME NEW n \in {"timestamp", "seq_no", "boot_count", "temperature", "humidity",
                        "battery_voltage", "battery_level_pct", "interval_sec", "uptime_sec",
                        "free_heap_bytes"}
      PROVE  v[n] = d[n]
  <2>1. n \in Names \ {"state"}
        /\ n \in Names \ {"device_id", "firmware_version", "rssi", "state"}
    BY ONLY <1>4, NamesAre
  <2>2. QED
    BY ONLY <1>1, <1>2, <2>1
<1>5. Measured(v, d)
  BY ONLY <1>2, <1>3, <1>4 DEF Measured
<1>6. AsRead(d, type) = v
  BY ONLY DEF AsRead, v, j, state
<1>7. QED
  BY ONLY <1>2, <1>5, <1>6 DEF j, state

LEMMA MeantIsMeasured ==
  ASSUME NEW d \in TelemetryData
  PROVE  Measured(Meant(d), d) /\ Meant(d)["state"] = StateRead(d)
<1> DEFINE j == Meant(d)
<1>1. /\ j = [n \in Names |-> j[n]]
      /\ j["device_id"] = OrElse(d.device_id, Unknown)
      /\ j["firmware_version"] = OrElse(d.firmware_version, FirstFirmware)
      /\ j["rssi"] = Word(d.rssi) /\ j["state"] = StateRead(d)
      /\ \A n \in Names \ {"device_id", "firmware_version", "rssi", "state"} : j[n] = d[n]
  BY MeantIs
<1> HIDE DEF j
<1>2. ASSUME NEW n \in {"timestamp", "seq_no", "boot_count", "temperature", "humidity",
                        "battery_voltage", "battery_level_pct", "interval_sec", "uptime_sec",
                        "free_heap_bytes"}
      PROVE  j[n] = d[n]
  <2>1. n \in Names \ {"device_id", "firmware_version", "rssi", "state"}
    BY ONLY <1>2, NamesAre
  <2>2. QED
    BY ONLY <1>1, <2>1
<1>3. Measured(j, d)
  BY ONLY <1>1, <1>2 DEF Measured
<1>4. QED
  BY ONLY <1>1, <1>3 DEF j

(* Measured telemetries have the fields of one, errors have not.           *)
LEMMA MeantIsValid ==
  ASSUME NEW v, v = [n \in Names |-> v[n]]
  PROVE  v # Invalid
<1>1. "state" \in DOMAIN v
  BY DEF Names, StatusNames
<1>2. "state" \notin DOMAIN Invalid
  BY DEF Invalid
<1>3. QED
  BY ONLY <1>1, <1>2

-----------------------------------------------------------------------------
(* What every request comes to.                                            *)

LEMMA RequestIs ==
  ASSUME NEW d, NEW r \in RequestsOf(d)
  PROVE  /\ r.data = d
         /\ \/ r.type = "edge" /\ r.body = Encode(d)
            \/ r.type = "sparse" /\ r.body = Sparse(d)
            \/ r.type = "reversed" /\ r.body = Reversed(d)
            \/ r.type = "json" /\ r.body = Json(d)
            \/ r.type = "json cut" /\ r.body = Invalid
            \/ r.type = "newer" /\ r.body \in Newer(d)
            \/ r.type = "cut" /\ r.body \in Cut(d)
<1>1. ASSUME NEW type, NEW b
      PROVE  Request(type, d, b).type = type /\ Request(type, d, b).data = d
             /\ Request(type, d, b).body = b
  BY DEF Request
<1>2. \/ r = Request("edge", d, Encode(d))
      \/ r = Request("sparse", d, Sparse(d))
      \/ r = Request("reversed", d, Reversed(d))
      \/ r \in JsonRequests(d)
      \/ \E b \in Newer(d) : r = Request("newer", d, b)
      \/ \E b \in Cut(d) : r = Request("cut", d, b)
  BY ONLY r \in RequestsOf(d) DEF RequestsOf
<1>12. r \in JsonRequests(d) => r \in {Request("json", d, Json(d)), Request("json cut", d, Invalid)}
  BY ONLY DEF JsonRequests
<1>3. CASE \E b \in Newer(d) : r = Request("newer", d, b)
  <2>1. PICK b \in Newer(d) : r = Request("newer", d, b)
    BY ONLY <1>3
  <2>2. r.data = d /\ r.type = "newer" /\ r.body = b
    BY ONLY <1>1, <2>1
  <2>3. QED
    BY ONLY <2>1, <2>2
<1>4. CASE \E b \in Cut(d) : r = Request("cut", d, b)
  <2>1. PICK b \in Cut(d) : r = Request("cut", d, b)
    BY ONLY <1>4
  <2>2. r.data = d /\ r.type = "cut" /\ r.body = b
    BY ONLY <1>1, <2>1
  <2>3. QED
    BY ONLY <2>1, <2>2
<1>5. CASE r = Request("edge", d, Encode(d))
  <2>1. r.data = d /\ r.type = "edge" /\ r.body = Encode(d)
    BY ONLY <1>1, <1>5
  <2>2. QED
    BY ONLY <2>1
<1>6. CASE r = Request("sparse", d, Sparse(d))
  <2>1. r.data = d /\ r.type = "sparse" /\ r.body = Sparse(d)
    BY ONLY <1>1, <1>6
  <2>2. QED
    BY ONLY <2>1
<1>7. CASE r = Request("reversed", d, Reversed(d))
  <2>1. r.data = d /\ r.type = "reversed" /\ r.body = Reversed(d)
    BY ONLY <1>1, <1>7
  <2>2. QED
    BY ONLY <2>1
<1>8. CASE r = Request("json", d, Json(d))
  <2>1. r.data = d /\ r.type = "json" /\ r.body = Json(d)
    BY ONLY <1>1, <1>8
  <2>2. QED
    BY ONLY <2>1
<1>9. CASE r = Request("json cut", d, Invalid)
  <2>1. r.data = d /\ r.type = "json cut" /\ r.body = Invalid
    BY ONLY <1>1, <1>9
  <2>2. QED
    BY ONLY <2>1
<1>10. QED
  BY ONLY <1>2, <1>3, <1>4, <1>5, <1>6, <1>7, <1>8, <1>9, <1>12

(* A complete request is read as its sender meant it, a text with two      *)
(* decimals if it is JSON.                                                 *)
LEMMA WholePayload ==
  ASSUME NEW d \in TelemetryData, NEW r \in RequestsOf(d), Whole(r)
  PROVE  /\ r.data = d
         /\ r.type # "json" => Payload(r) = AsRead(d, r.type) /\ Payload(r) # Invalid
         /\ r.type = "json" => Payload(r) = Json(d) /\ (Payload(r) = Invalid <=> ~ IsSayable(d))
<1>1. /\ r.data = d
      /\ \/ r.type = "edge" /\ r.body = Encode(d)
         \/ r.type = "sparse" /\ r.body = Sparse(d)
         \/ r.type = "reversed" /\ r.body = Reversed(d)
         \/ r.type = "json" /\ r.body = Json(d)
         \/ r.type = "newer" /\ r.body \in Newer(d)
  BY RequestIs DEF Whole
<1>2. CASE r.type = "json"
  <2>1. Payload(r) = Json(d)
    BY ONLY <1>1, <1>2 DEF Payload, IsJson
  <2>2. IsSayable(d) => Json(d) # Invalid
    BY ONLY d \in TelemetryData, JsonIs, MeantIsValid
  <2>3. ~ IsSayable(d) => Json(d) = Invalid
    BY ONLY DEF Json
  <2>4. QED
    BY ONLY <1>1, <1>2, <2>1, <2>2, <2>3
<1>3. CASE r.type # "json"
  <2> DEFINE v == AsRead(d, r.type)
  <2>1. Measured(v, d) /\ v["state"] = StateOfRequest(r.type, d)
    BY ONLY d \in TelemetryData, BinaryIs
  <2>2. DataOK(d)
    BY ONLY d \in TelemetryData, DataIsOK
  <2> HIDE DEF v
  <2>3. Payload(r) = Decode(r.body)
    BY ONLY <1>1, <1>3 DEF Payload, IsJson
  <2>4. ASSUME r.type = "sparse" PROVE Decode(r.body) = v
    BY ONLY <1>1, <2>1, <2>2, <2>4, SparseIsRead DEF StateOfRequest
  <2>5. ASSUME r.type # "sparse" PROVE Decode(r.body) = v
    <3>1. v["state"] = StateRead(d)
      BY ONLY <2>1, <2>5 DEF StateOfRequest
    <3>2. QED
      BY ONLY <1>1, <1>3, <2>1, <2>2, <2>5, <3>1, EncodeIsRead, ReversedIsRead, NewerIsRead
  <2>6. Decode(r.body) = v
    BY ONLY <2>4, <2>5
  <2>7. v # Invalid
    BY ONLY <2>1, MeantIsValid DEF Measured
  <2>8. QED
    BY ONLY <1>1, <1>3, <2>3, <2>6, <2>7 DEF v
<1>4. QED
  BY ONLY <1>2, <1>3

(* Of a telemetry that was cut, the sections that are not read are zero.   *)
SectionsAreMeant(stored, meant) ==
  \A section \in RootNames :
    \/ \A f \in NamesIn(section) : stored[f] = meant[f]
    \/ \A f \in NamesIn(section) : stored[f] = Decode(<<>>)[f]

LEMMA NothingIsZero ==
  ASSUME NEW m \in RootNames, NEW f \in NamesIn(m)
  PROVE  Decode(<<>>)[f] = ZeroOf(f)
<1> DEFINE v == [n \in Names |-> ZeroOf(n)]
           bodies == [k \in RootNames |-> <<>>]
<1>1. Carries("root", <<>>, bodies, {})
  BY CarriesNothing
<1> HIDE DEF v, bodies
<1>2. {} \in SUBSET RootNames /\ \A k \in {} : Carries(k, bodies[k], v, NamesIn(k))
  OBVIOUS
<1>3. Decode(<<>>) = Part(v, {})
  BY ONLY <1>1, <1>2, PartIsRead
<1>4. m \in RootNames \ {}
  OBVIOUS
<1>5. Part(v, {})[f] = ZeroOf(f)
  BY ONLY <1>2, <1>4, f \in NamesIn(m), PartIs
<1>6. QED
  BY ONLY <1>3, <1>5

LEMMA CutPayload ==
  ASSUME NEW d \in TelemetryData, NEW r \in RequestsOf(d), ~ Whole(r), Payload(r) # Invalid
  PROVE  SectionsAreMeant(Payload(r), Meant(r.data))
<1>1. r.data = d /\ r.type = "cut" /\ r.body \in Cut(d)
  <2>1. /\ r.data = d
        /\ \/ r.type = "json cut" /\ r.body = Invalid
           \/ r.type = "cut" /\ r.body \in Cut(d)
    BY RequestIs DEF Whole
  <2>2. r.type = "json cut" => Payload(r) = r.body
    BY DEF Payload, IsJson
  <2>3. QED
    BY ONLY <2>1, <2>2, Payload(r) # Invalid
<1> DEFINE v == Meant(r.data)
           l == Len(Encode(d))
<1>2. Measured(v, d) /\ v["state"] = StateRead(d)
  BY ONLY <1>1, d \in TelemetryData, MeantIsMeasured
<1>3. DataOK(d)
  BY ONLY d \in TelemetryData, DataIsOK
<1> HIDE DEF v
<1>4. PICK n \in 0 .. l - 1 : r.body = SubSeq(Encode(d), 1, n)
  BY ONLY <1>1 DEF Cut
<1>5. l \in Nat
  <2>1. Encode(d) \in Seq(Bytes)
    BY ONLY <1>2, <1>3, EncodeIsRead DEF Carries
  <2>2. QED
    BY ONLY <2>1, LenProperties
<1> HIDE DEF l
<1>6. n \in Nat /\ n < l
  BY ONLY <1>5, n \in 0 .. l - 1
<1>7. Payload(r) = Decode(SubSeq(Encode(d), 1, n))
  BY ONLY <1>1, <1>4 DEF Payload, IsJson
<1>8. PICK R \in SUBSET RootNames : Decode(SubSeq(Encode(d), 1, n)) \in {Invalid, Part(v, R)}
  BY ONLY <1>2, <1>3, <1>6, CutIsRead DEF l
<1>9. Payload(r) = Part(v, R)
  BY ONLY <1>7, <1>8, Payload(r) # Invalid
<1>10. ASSUME NEW m \in RootNames
       PROVE  \/ \A f \in NamesIn(m) : Part(v, R)[f] = v[f]
              \/ \A f \in NamesIn(m) : Part(v, R)[f] = Decode(<<>>)[f]
  <2>1. \A f \in NamesIn(m) : Decode(<<>>)[f] = ZeroOf(f)
    BY ONLY m \in RootNames, NothingIsZero
  <2>2. m \in R \/ m \in RootNames \ R
    OBVIOUS
  <2>3. QED
    BY ONLY <2>1, <2>2, R \in SUBSET RootNames, PartIs
<1>11. QED
  BY ONLY <1>9, <1>10 DEF SectionsAreMeant, v

-----------------------------------------------------------------------------
(* The arrays of the serializer.                                           *)

LEMMA StateIsShort ==
  ASSUME NEW state
  PROVE  \A k \in 2 .. 10 : StateEnum(state)[k] = 0
<1>1. DOMAIN States = 1 .. 4
  BY DEF States
<1>2. ASSUME NEW j \in 0 .. 3 PROVE \A k \in 2 .. 10 : Word(j)[k] = 0
  <2>1. j \in Nat /\ j < MaxSize /\ j < 16384
    BY SMT DEF MaxSize
  <2>2. j \in Nat35
    BY ONLY <2>1, LengthIsNat35
  <2>3. Word(j)[2] = (j \div 128) % 128 /\ \A k \in 3 .. 10 : Word(j)[k] = 0
    BY ONLY <2>1, <2>2, WordOfNat
  <2>4. (j \div 128) % 128 = 0
    BY ONLY j \in 0 .. 3
  <2>5. \A k \in 2 .. 10 : k = 2 \/ k \in 3 .. 10
    OBVIOUS
  <2>6. QED
    BY ONLY <2>3, <2>4, <2>5
<1>3. CASE KnownState(state)
  <2> DEFINE i == CHOOSE i \in DOMAIN States : States[i] = state
  <2>1. i \in 1 .. 4
    BY ONLY <1>1, <1>3 DEF KnownState
  <2>2. StateEnum(state) = Word(i - 1)
    BY <1>3 DEF StateEnum, KnownState
  <2> HIDE DEF i
  <2>3. i - 1 \in 0 .. 3
    BY ONLY <2>1
  <2>4. QED
    BY ONLY <1>2, <2>2, <2>3
<1>4. CASE ~ KnownState(state)
  <2>1. StateEnum(state) = Word(0)
    BY <1>4 DEF StateEnum, KnownState, Zero
  <2>2. 0 \in 0 .. 3
    OBVIOUS
  <2>3. QED
    BY ONLY <1>2, <2>1, <2>2
<1>5. QED
  BY ONLY <1>3, <1>4

LEMMA HeaderFits ==
  ASSUME NEW d, DataOK(d), NEW v, Written("header", HeaderFields(d), v),
         Len(OrElse(d.device_id, Unknown)) + Len(OrElse(d.firmware_version, FirstFirmware)) <= 42
  PROVE  Len(FlattenSeq(HeaderFields(d))) \in Nat /\ Len(FlattenSeq(HeaderFields(d))) <= 64
<1> DEFINE cs == HeaderFields(d)
           fw == OrElse(d.firmware_version, FirstFirmware)
           id == OrElse(d.device_id, Unknown)
           a == Len(id)
           b == Len(fw)
           g == <<2 + a, 8 + a, 14 + a, (16 + a) + b, (22 + a) + b>>
<1>1. /\ id \in Seq(Bytes) /\ a < MaxSize /\ a \in Nat
      /\ fw \in Seq(Bytes) /\ b < MaxSize /\ b \in Nat
  BY ONLY DataOK(d), StringSize DEF DataOK
<1>2. d.timestamp \in Uint32Words /\ d.seq_no \in Uint32Words /\ d.boot_count \in Uint32Words
  BY DEF DataOK
<1>3. d.timestamp \in Words /\ d.seq_no \in Words /\ d.boot_count \in Words
  BY ONLY <1>2, Uint32IsKept
<1>4. /\ cs[1] = StringField(1, id) /\ cs[2] = VarintField(2, d.timestamp)
      /\ cs[3] = VarintField(3, d.seq_no) /\ cs[4] = StringField(4, fw)
      /\ cs[5] = VarintField(5, d.boot_count) /\ Len(cs) = 5
  BY DEF HeaderFields
<1>5. cs \in Seq(Seq(Bytes)) /\ DOMAIN cs = 1 .. Len(cs)
  BY WrittenIs
<1>6. /\ g[1] = 2 + a /\ g[2] = 8 + a /\ g[3] = 14 + a /\ g[4] = (16 + a) + b
      /\ g[5] = (22 + a) + b
  OBVIOUS
<1>7. a + b <= 42
  OBVIOUS
<1>8. /\ 1 \in FieldNumbers /\ 2 \in FieldNumbers /\ 3 \in FieldNumbers
      /\ 4 \in FieldNumbers /\ 5 \in FieldNumbers
      /\ 1 < 16 /\ 2 < 16 /\ 3 < 16 /\ 4 < 16 /\ 5 < 16
  BY SmallNumbers
<1> HIDE DEF cs, g
<1>9. /\ Len(cs[2]) <= 6 /\ Len(cs[3]) <= 6 /\ Len(cs[5]) <= 6
      /\ Len(cs[2]) \in Nat /\ Len(cs[3]) \in Nat /\ Len(cs[5]) \in Nat
  BY ONLY <1>2, <1>3, <1>4, <1>8, VarintFieldLength
<1>10. a < 128 /\ b < 128
  <2> HIDE DEF a, b
  <2>1. QED
    BY ONLY <1>1, <1>7
<1>11. Len(cs[1]) = 2 + a /\ Len(cs[4]) = 2 + b
  <2>1. Len(StringField(1, id)) = 2 + Len(id)
    BY ONLY <1>1, <1>8, <1>10, StringFieldLength
  <2>2. Len(StringField(4, fw)) = 2 + Len(fw)
    BY ONLY <1>1, <1>8, <1>10, StringFieldLength
  <2>3. QED
    BY ONLY <1>4, <2>1, <2>2
<1> DEFINE x1 == Len(cs[1])
           x2 == Len(cs[2])
           x3 == Len(cs[3])
           x4 == Len(cs[4])
           x5 == Len(cs[5])
<1> HIDE DEF a, b, x1, x2, x3, x4, x5
<1>12. /\ g[1] \in Nat /\ x1 <= g[1]
       /\ g[2] \in Nat /\ x2 + g[1] <= g[2]
       /\ g[3] \in Nat /\ x3 + g[2] <= g[3]
       /\ g[4] \in Nat /\ x4 + g[3] <= g[4]
       /\ g[5] \in Nat /\ x5 + g[4] <= g[5]
       /\ g[5] <= 64
  <2> DEFINE y1 == g[1]
             y2 == g[2]
             y3 == g[3]
             y4 == g[4]
             y5 == g[5]
  <2>1. /\ y1 = 2 + a /\ y2 = 8 + a /\ y3 = 14 + a /\ y4 = (16 + a) + b /\ y5 = (22 + a) + b
        /\ x1 = 2 + a /\ x4 = 2 + b /\ a \in Nat /\ b \in Nat /\ a + b <= 42
        /\ x2 \in Nat /\ x3 \in Nat /\ x5 \in Nat /\ x2 <= 6 /\ x3 <= 6 /\ x5 <= 6
    BY ONLY <1>1, <1>6, <1>7, <1>9, <1>11 DEF x1, x2, x3, x4, x5
  <2> HIDE DEF y1, y2, y3, y4, y5
  <2>2. /\ y1 \in Nat /\ x1 <= y1
        /\ y2 \in Nat /\ x2 + y1 <= y2
        /\ y3 \in Nat /\ x3 + y2 <= y3
        /\ y4 \in Nat /\ x4 + y3 <= y4
        /\ y5 \in Nat /\ x5 + y4 <= y5
        /\ y5 <= 64
    BY ONLY <2>1
  <2>3. QED
    BY ONLY <2>2 DEF y1, y2, y3, y4, y5
<1>13. ASSUME NEW k \in 1 .. 5
       PROVE  g[k] \in Nat /\ Len(cs[k]) + (IF k = 1 THEN 0 ELSE g[k - 1]) <= g[k]
  <2>1. Len(cs[1]) + 0 = Len(cs[1])
    <3>1. x1 \in Nat
      BY ONLY <1>1, <1>11 DEF x1
    <3>2. x1 + 0 = x1
      BY ONLY <3>1
    <3>3. QED
      BY ONLY <3>2 DEF x1
  <2>2. k = 1 \/ (k = 2 /\ k - 1 = 1) \/ (k = 3 /\ k - 1 = 2) \/ (k = 4 /\ k - 1 = 3)
        \/ (k = 5 /\ k - 1 = 4)
    BY ONLY k \in 1 .. 5
  <2>3. QED
    BY ONLY <1>12, <2>1, <2>2 DEF x1, x2, x3, x4, x5
<1>14. Fits(cs, g)
  BY ONLY <1>4, <1>13 DEF Fits
<1>15. Len(FlattenSeq(cs)) \in Nat /\ Len(FlattenSeq(cs)) <= g[5]
  <2>1. Len(cs) # 0
    BY ONLY <1>4
  <2>2. QED
    BY ONLY <1>4, <1>5, <1>14, <2>1, FlattenFits
<1>16. QED
  <2> DEFINE l == Len(FlattenSeq(cs))
             y == g[5]
  <2>1. l \in Nat /\ l <= y /\ y <= 64 /\ y \in Nat
    BY ONLY <1>12, <1>15
  <2> HIDE DEF l, y
  <2>2. l <= 64
    BY ONLY <2>1
  <2>3. QED
    BY ONLY <1>15, <2>2 DEF l, cs

LEMMA MetricsFits ==
  ASSUME NEW d, DataOK(d), NEW v, Written("metrics", MetricsFields(d), v)
  PROVE  Len(FlattenSeq(MetricsFields(d))) \in Nat /\ Len(FlattenSeq(MetricsFields(d))) <= 38
<1> DEFINE cs == MetricsFields(d)
           r == Word(d.rssi)
           g == <<5, 10, 15, 21, 32, 38>>
<1>1. /\ d.temperature \in Floats /\ d.humidity \in Floats /\ d.battery_voltage \in Floats
      /\ d.battery_level_pct \in Uint32Words /\ d.interval_sec \in Uint32Words
      /\ d.rssi \in Int32s
  BY DEF DataOK
<1>2. d.battery_level_pct \in Words /\ d.interval_sec \in Words /\ r \in Words
  BY ONLY <1>1, Uint32IsKept, WordOfInt
<1>3. /\ cs[1] = FloatField(1, d.temperature) /\ cs[2] = FloatField(2, d.humidity)
      /\ cs[3] = FloatField(3, d.battery_voltage)
      /\ cs[4] = VarintField(4, d.battery_level_pct) /\ cs[5] = VarintField(5, r)
      /\ cs[6] = VarintField(6, d.interval_sec) /\ Len(cs) = 6
  BY DEF MetricsFields
<1>4. cs \in Seq(Seq(Bytes)) /\ DOMAIN cs = 1 .. Len(cs)
  BY WrittenIs
<1>5. /\ g[1] = 5 /\ g[2] = 10 /\ g[3] = 15 /\ g[4] = 21 /\ g[5] = 32 /\ g[6] = 38
  OBVIOUS
<1>6. /\ 1 \in FieldNumbers /\ 2 \in FieldNumbers /\ 3 \in FieldNumbers
      /\ 4 \in FieldNumbers /\ 5 \in FieldNumbers /\ 6 \in FieldNumbers
      /\ 1 < 16 /\ 2 < 16 /\ 3 < 16 /\ 4 < 16 /\ 5 < 16 /\ 6 < 16
  BY SmallNumbers
<1> HIDE DEF cs, g, r
<1>7. Len(cs[1]) = 5 /\ Len(cs[2]) = 5 /\ Len(cs[3]) = 5
  BY ONLY <1>1, <1>3, <1>6, FloatFieldLength
<1>8. /\ Len(cs[4]) <= 6 /\ Len(cs[5]) <= 11 /\ Len(cs[6]) <= 6
      /\ Len(cs[4]) \in Nat /\ Len(cs[5]) \in Nat /\ Len(cs[6]) \in Nat
  BY ONLY <1>1, <1>2, <1>3, <1>6, VarintFieldLength
<1>9. ASSUME NEW k \in 1 .. 6
      PROVE  g[k] \in Nat /\ Len(cs[k]) + (IF k = 1 THEN 0 ELSE g[k - 1]) <= g[k]
  <2> DEFINE x == Len(cs[k])
             y == g[k]
             z == g[k - 1]
  <2>1. \/ k = 1 /\ x = 5 /\ y = 5
        \/ k = 2 /\ k - 1 = 1 /\ x = 5 /\ y = 10 /\ z = 5
        \/ k = 3 /\ k - 1 = 2 /\ x = 5 /\ y = 15 /\ z = 10
        \/ k = 4 /\ k - 1 = 3 /\ x <= 6 /\ x \in Nat /\ y = 21 /\ z = 15
        \/ k = 5 /\ k - 1 = 4 /\ x <= 11 /\ x \in Nat /\ y = 32 /\ z = 21
        \/ k = 6 /\ k - 1 = 5 /\ x <= 6 /\ x \in Nat /\ y = 38 /\ z = 32
    BY ONLY <1>5, <1>7, <1>8, k \in 1 .. 6
  <2> HIDE DEF x, y, z
  <2>2. y \in Nat /\ x + (IF k = 1 THEN 0 ELSE z) <= y
    BY ONLY <2>1
  <2>3. QED
    BY ONLY <2>2 DEF x, y, z
<1>10. Fits(cs, g)
  BY ONLY <1>3, <1>9 DEF Fits
<1>11. Len(FlattenSeq(cs)) \in Nat /\ Len(FlattenSeq(cs)) <= g[6]
  <2>1. Len(cs) # 0
    BY ONLY <1>3
  <2>2. QED
    BY ONLY <1>3, <1>4, <1>10, <2>1, FlattenFits
<1>12. QED
  BY ONLY <1>5, <1>11 DEF cs

LEMMA StatusFits ==
  ASSUME NEW d, DataOK(d), NEW v, Written("status", StatusFields(d), v)
  PROVE  Len(FlattenSeq(StatusFields(d))) \in Nat /\ Len(FlattenSeq(StatusFields(d))) <= 14
<1> DEFINE cs == StatusFields(d)
           e == StateEnum(d.state)
           g == <<2, 8, 14>>
<1>1. d.uptime_sec \in Uint32Words /\ d.free_heap_bytes \in Uint32Words
  BY DEF DataOK
<1>2. /\ d.uptime_sec \in Words /\ d.free_heap_bytes \in Words /\ e \in Words
      /\ \A k \in 2 .. 10 : e[k] = 0
  BY ONLY <1>1, Uint32IsKept, StateIsRead, StateIsShort
<1>3. /\ cs[1] = VarintField(1, e) /\ cs[2] = VarintField(2, d.uptime_sec)
      /\ cs[3] = VarintField(3, d.free_heap_bytes) /\ Len(cs) = 3
  BY DEF StatusFields
<1>4. cs \in Seq(Seq(Bytes)) /\ DOMAIN cs = 1 .. Len(cs)
  BY WrittenIs
<1>5. g[1] = 2 /\ g[2] = 8 /\ g[3] = 14
  OBVIOUS
<1>6. /\ 1 \in FieldNumbers /\ 2 \in FieldNumbers /\ 3 \in FieldNumbers
      /\ 1 < 16 /\ 2 < 16 /\ 3 < 16
  BY SmallNumbers
<1> HIDE DEF cs, g, e
<1>7. /\ Len(cs[1]) <= 2 /\ Len(cs[2]) <= 6 /\ Len(cs[3]) <= 6
      /\ Len(cs[1]) \in Nat /\ Len(cs[2]) \in Nat /\ Len(cs[3]) \in Nat
  BY ONLY <1>1, <1>2, <1>3, <1>6, VarintFieldLength
<1>8. ASSUME NEW k \in 1 .. 3
      PROVE  g[k] \in Nat /\ Len(cs[k]) + (IF k = 1 THEN 0 ELSE g[k - 1]) <= g[k]
  <2> DEFINE x == Len(cs[k])
             y == g[k]
             z == g[k - 1]
  <2>1. \/ k = 1 /\ x <= 2 /\ x \in Nat /\ y = 2
        \/ k = 2 /\ k - 1 = 1 /\ x <= 6 /\ x \in Nat /\ y = 8 /\ z = 2
        \/ k = 3 /\ k - 1 = 2 /\ x <= 6 /\ x \in Nat /\ y = 14 /\ z = 8
    BY ONLY <1>5, <1>7, k \in 1 .. 3
  <2> HIDE DEF x, y, z
  <2>2. y \in Nat /\ x + (IF k = 1 THEN 0 ELSE z) <= y
    BY ONLY <2>1
  <2>3. QED
    BY ONLY <2>2 DEF x, y, z
<1>9. Fits(cs, g)
  BY ONLY <1>3, <1>8 DEF Fits
<1>10. Len(FlattenSeq(cs)) \in Nat /\ Len(FlattenSeq(cs)) <= g[3]
  <2>1. Len(cs) # 0
    BY ONLY <1>3
  <2>2. QED
    BY ONLY <1>3, <1>4, <1>9, <2>1, FlattenFits
<1>11. QED
  BY ONLY <1>5, <1>10 DEF cs

(* What serialize_telemetry_protobuf needs room for.                       *)
DataFits(d) ==
  LET size == [i \in 1 .. 3 |-> Len(FlattenSeq(Sections(d)[i]))]
  IN Len(OrElse(d.device_id, Unknown)) + Len(OrElse(d.firmware_version, FirstFirmware)) <= 42
       => size[1] <= 64 /\ size[2] <= 64 /\ size[3] <= 32 /\ Len(Encode(d)) <= 128

LEMMA RootFits ==
  ASSUME NEW bodies, ShortBodies(bodies), Len(bodies["header"]) <= 64,
         Len(bodies["metrics"]) <= 38, Len(bodies["status"]) <= 14
  PROVE  Len(FlattenSeq(RootRow(bodies))) <= 128
<1> DEFINE cs == RootRow(bodies)
           g == <<66, 106, 122>>
           h == bodies["header"]
           m == bodies["metrics"]
           s == bodies["status"]
           a == Len(h)
           b == Len(m)
           c == Len(s)
<1>1. /\ h \in Seq(Bytes) /\ a < MaxSize /\ m \in Seq(Bytes) /\ b < MaxSize
      /\ s \in Seq(Bytes) /\ c < MaxSize
  BY DEF ShortBodies, RootNames
<1>2. a \in Nat /\ b \in Nat /\ c \in Nat
  BY ONLY <1>1, LenProperties
<1>3. a <= 64 /\ b <= 38 /\ c <= 14
  OBVIOUS
<1>4. cs[1] = StringField(1, h) /\ cs[2] = StringField(2, m) /\ cs[3] = StringField(3, s)
      /\ Len(cs) = 3
  BY DEF RootRow
<1>5. g[1] = 66 /\ g[2] = 106 /\ g[3] = 122
  OBVIOUS
<1>6. /\ 1 \in FieldNumbers /\ 2 \in FieldNumbers /\ 3 \in FieldNumbers
      /\ 1 < 16 /\ 2 < 16 /\ 3 < 16
  BY SmallNumbers
<1> HIDE DEF cs, g
<1>7. a < 128 /\ b < 128 /\ c < 128
  <2> HIDE DEF a, b, c
  <2>1. QED
    BY ONLY <1>2, <1>3
<1>8. /\ Len(cs[1]) = 2 + a /\ Len(cs[2]) = 2 + b /\ Len(cs[3]) = 2 + c
      /\ cs[1] \in Seq(Bytes) /\ cs[2] \in Seq(Bytes) /\ cs[3] \in Seq(Bytes)
  <2>1. Len(StringField(1, h)) = 2 + Len(h) /\ StringField(1, h) \in Seq(Bytes)
    BY ONLY <1>1, <1>6, <1>7, StringFieldLength
  <2>2. Len(StringField(2, m)) = 2 + Len(m) /\ StringField(2, m) \in Seq(Bytes)
    BY ONLY <1>1, <1>6, <1>7, StringFieldLength
  <2>3. Len(StringField(3, s)) = 2 + Len(s) /\ StringField(3, s) \in Seq(Bytes)
    BY ONLY <1>1, <1>6, <1>7, StringFieldLength
  <2>4. QED
    BY ONLY <1>4, <2>1, <2>2, <2>3
<1> HIDE DEF a, b, c
<1>9. /\ Len(cs[1]) <= 66 /\ Len(cs[2]) <= 40 /\ Len(cs[3]) <= 16
      /\ Len(cs[1]) \in Nat /\ Len(cs[2]) \in Nat /\ Len(cs[3]) \in Nat
  <2>1. /\ 2 + a <= 66 /\ 2 + b <= 40 /\ 2 + c <= 16
        /\ 2 + a \in Nat /\ 2 + b \in Nat /\ 2 + c \in Nat
    BY ONLY <1>2, <1>3
  <2>2. QED
    BY ONLY <1>8, <2>1
<1>10. ASSUME NEW k \in 1 .. 3
       PROVE  g[k] \in Nat /\ Len(cs[k]) + (IF k = 1 THEN 0 ELSE g[k - 1]) <= g[k]
  <2> DEFINE x == Len(cs[k])
             y == g[k]
             z == g[k - 1]
  <2>1. \/ k = 1 /\ x <= 66 /\ x \in Nat /\ y = 66
        \/ k = 2 /\ k - 1 = 1 /\ x <= 40 /\ x \in Nat /\ y = 106 /\ z = 66
        \/ k = 3 /\ k - 1 = 2 /\ x <= 16 /\ x \in Nat /\ y = 122 /\ z = 106
    BY ONLY <1>5, <1>9, k \in 1 .. 3
  <2> HIDE DEF x, y, z
  <2>2. y \in Nat /\ x + (IF k = 1 THEN 0 ELSE z) <= y
    BY ONLY <2>1
  <2>3. QED
    BY ONLY <2>2 DEF x, y, z
<1>11. Fits(cs, g)
  BY ONLY <1>4, <1>10 DEF Fits
<1>12. cs \in Seq(Seq(Bytes))
  BY RootHolds DEF Holds, cs
<1>13. Len(FlattenSeq(cs)) \in Nat /\ Len(FlattenSeq(cs)) <= g[3]
  <2>1. Len(cs) # 0
    BY ONLY <1>4
  <2>2. QED
    BY ONLY <1>4, <1>11, <1>12, <2>1, FlattenFits
<1>14. QED
  <2> DEFINE l == Len(FlattenSeq(cs))
  <2>1. l \in Nat /\ l <= 122
    BY ONLY <1>5, <1>13
  <2> HIDE DEF l
  <2>2. l <= 128
    BY ONLY <2>1
  <2>3. QED
    BY ONLY <2>2 DEF l, cs

LEMMA EncodedDataFits ==
  ASSUME NEW d \in TelemetryData
  PROVE  DataFits(d)
<1> DEFINE id == OrElse(d.device_id, Unknown)
           fw == OrElse(d.firmware_version, FirstFirmware)
           v == Received(d)
           ss == Sections(d)
           bodies == Bodies(ss)
<1> SUFFICES ASSUME Len(id) + Len(fw) <= 42
             PROVE  /\ Len(FlattenSeq(ss[1])) <= 64 /\ Len(FlattenSeq(ss[2])) <= 64
                    /\ Len(FlattenSeq(ss[3])) <= 32 /\ Len(Encode(d)) <= 128
  BY DEF DataFits
<1>1. Measured(v, d) /\ v["state"] = StateRead(d)
  BY ReceivedIsMeasured
<1>2. DataOK(d)
  BY DataIsOK
<1>3. ss[1] = HeaderFields(d) /\ ss[2] = MetricsFields(d) /\ ss[3] = StatusFields(d)
  BY DEF Sections
<1> HIDE DEF v
<1>4. /\ DOMAIN ss = 1 .. 3
      /\ Written("header", ss[1], v) /\ Written("metrics", ss[2], v)
      /\ Written("status", ss[3], v)
  BY ONLY <1>1, <1>2, SectionsAreWritten
<1> HIDE DEF ss
<1>5. /\ Len(FlattenSeq(ss[1])) \in Nat /\ Len(FlattenSeq(ss[1])) <= 64
      /\ Len(FlattenSeq(ss[2])) \in Nat /\ Len(FlattenSeq(ss[2])) <= 38
      /\ Len(FlattenSeq(ss[3])) \in Nat /\ Len(FlattenSeq(ss[3])) <= 14
  BY ONLY <1>2, <1>3, <1>4, Len(id) + Len(fw) <= 42, HeaderFits, MetricsFits, StatusFits
<1>6. v = [n \in Names |-> v[n]]
  BY ONLY <1>1 DEF Measured
<1>7. /\ SectionIsRead("header", ss[1], v) /\ SectionIsRead("metrics", ss[2], v)
      /\ SectionIsRead("status", ss[3], v)
  BY ONLY <1>4, WrittenIsRead
<1>8. ShortBodies(bodies)
  BY ONLY <1>4, <1>6, <1>7, MessageIsRead
<1>9. /\ bodies["header"] = FlattenSeq(ss[1]) /\ bodies["metrics"] = FlattenSeq(ss[2])
      /\ bodies["status"] = FlattenSeq(ss[3])
  BY DEF Bodies
<1>10. Encode(d) = FlattenSeq(RootRow(bodies))
  BY ONLY <1>4, AssembleForm DEF Encode, ss
<1> HIDE DEF bodies
<1>11. Len(Encode(d)) <= 128
  BY ONLY <1>5, <1>8, <1>9, <1>10, RootFits
<1>12. Len(FlattenSeq(ss[2])) <= 64 /\ Len(FlattenSeq(ss[3])) <= 32
  <2> DEFINE a == Len(FlattenSeq(ss[2]))
             b == Len(FlattenSeq(ss[3]))
  <2>1. a \in Nat /\ a <= 38 /\ b \in Nat /\ b <= 14
    BY ONLY <1>5
  <2> HIDE DEF a, b
  <2>2. a <= 64 /\ b <= 32
    BY ONLY <2>1
  <2>3. QED
    BY ONLY <2>2 DEF a, b
<1>13. QED
  BY ONLY <1>5, <1>11, <1>12
-----------------------------------------------------------------------------
(* Whose telemetry is stored.                                              *)

ConnSteps == {"closed", "open", "auth", "decode", "check", "answered"}

(* A connection, whatever requests and payloads there are.                 *)
Connections(requests, payloads) ==
  [pc: ConnSteps, peer: Devices \cup {NoCert}, req: requests, id: Devices \cup {None},
   payload: payloads, status: Nat]

(* The device that the configuration and the connection stand for.         *)
OwnerOf(c) == IF requireMTLS THEN c.peer ELSE BypassDevice

(* The certificate is the one that the configuration asks for, and the id  *)
(* of a request is its owner from the middleware to the check.             *)
ConnOK(c) ==
  /\ \E requests, payloads : c \in Connections(requests, payloads)
  /\ c.pc # "closed" => IF requireMTLS THEN c.peer \in Devices ELSE c.peer = NoCert
  /\ c.pc \in {"decode", "check"} => c.id = OwnerOf(c)

(* ... and nothing is stored before the answer.                            *)
OwnInv ==
  /\ requireMTLS \in BOOLEAN
  /\ ConnOK(conn)
  /\ row # None => conn.pc = "answered" /\ row.device_id = OwnerOf(conn)

LEMMA ClosedOK == ConnOK(Closed)
<1>1. Closed \in Connections({None}, {None})
  BY DEF Closed, Connections, ConnSteps
<1>2. QED
  BY <1>1 DEF ConnOK, Closed

LEMMA InitOwn == Init => OwnInv
BY ClosedOK DEF Init, OwnInv

(* What a step may do to a connection.                                     *)
LEMMA OpenOK ==
  ASSUME ConnOK(conn), requireMTLS \in BOOLEAN, NEW peer \in Devices \cup {NoCert},
         IF requireMTLS THEN peer \in Devices ELSE peer = NoCert
  PROVE  ConnOK([Closed EXCEPT !.pc = "open", !.peer = peer])
<1> DEFINE c == [Closed EXCEPT !.pc = "open", !.peer = peer]
<1>1. c \in Connections({None}, {None}) /\ c.pc = "open" /\ c.peer = peer
  BY DEF Closed, Connections, ConnSteps
<1> HIDE DEF c
<1>2. ConnOK(c)
  BY <1>1 DEF ConnOK
<1>3. QED
  BY <1>2 DEF c

LEMMA SentOK ==
  ASSUME ConnOK(conn), conn.pc = "open", NEW r
  PROVE  ConnOK([conn EXCEPT !.pc = "auth", !.req = r])
<1> DEFINE c == [conn EXCEPT !.pc = "auth", !.req = r]
<1>1. PICK requests, payloads : conn \in Connections(requests, payloads)
  BY DEF ConnOK
<1>2. c \in Connections({r}, payloads) /\ c.pc = "auth" /\ c.peer = conn.peer
  BY <1>1 DEF Connections, ConnSteps
<1> HIDE DEF c
<1>3. ConnOK(c)
  BY <1>2 DEF ConnOK
<1>4. QED
  BY <1>3 DEF c

LEMMA NamedOK ==
  ASSUME ConnOK(conn), conn.pc = "auth", NEW id \in Devices, id = OwnerOf(conn)
  PROVE  ConnOK([conn EXCEPT !.pc = "decode", !.id = id])
<1> DEFINE c == [conn EXCEPT !.pc = "decode", !.id = id]
<1>1. PICK requests, payloads : conn \in Connections(requests, payloads)
  BY DEF ConnOK
<1>2. /\ c \in Connections(requests, payloads)
      /\ c.pc = "decode" /\ c.peer = conn.peer /\ c.id = id
  BY <1>1 DEF Connections, ConnSteps
<1> HIDE DEF c
<1>3. ConnOK(c)
  BY <1>2 DEF ConnOK, OwnerOf
<1>4. QED
  BY <1>3 DEF c

LEMMA DecodedOK ==
  ASSUME ConnOK(conn), conn.pc = "decode", NEW payload
  PROVE  ConnOK([conn EXCEPT !.pc = "check", !.payload = payload])
<1> DEFINE c == [conn EXCEPT !.pc = "check", !.payload = payload]
<1>1. PICK requests, payloads : conn \in Connections(requests, payloads)
  BY DEF ConnOK
<1>2. /\ c \in Connections(requests, {payload})
      /\ c.pc = "check" /\ c.peer = conn.peer /\ c.id = conn.id
  BY <1>1 DEF Connections, ConnSteps
<1> HIDE DEF c
<1>3. ConnOK(c)
  BY <1>2 DEF ConnOK, OwnerOf
<1>4. QED
  BY <1>3 DEF c

LEMMA AnsweredOK ==
  ASSUME ConnOK(conn), conn.pc # "closed", NEW status \in Nat
  PROVE  /\ ConnOK([conn EXCEPT !.pc = "answered", !.status = status])
         /\ [conn EXCEPT !.pc = "answered", !.status = status].pc = "answered"
<1> DEFINE c == [conn EXCEPT !.pc = "answered", !.status = status]
<1>1. PICK requests, payloads : conn \in Connections(requests, payloads)
  BY DEF ConnOK
<1>2. c \in Connections(requests, payloads) /\ c.pc = "answered" /\ c.peer = conn.peer
  BY <1>1 DEF Connections, ConnSteps
<1> HIDE DEF c
<1>3. ConnOK(c)
  BY <1>2 DEF ConnOK
<1>4. QED
  BY <1>2, <1>3 DEF c

LEMMA UnreadOK ==
  ASSUME ConnOK(conn), conn.pc # "closed", NEW status \in Nat, NEW req
  PROVE  ConnOK([conn EXCEPT !.pc = "answered", !.status = status, !.req = req])
<1> DEFINE c == [conn EXCEPT !.pc = "answered", !.status = status, !.req = req]
<1>1. PICK requests, payloads : conn \in Connections(requests, payloads)
  BY DEF ConnOK
<1>2. c \in Connections({req}, payloads) /\ c.pc = "answered" /\ c.peer = conn.peer
  BY <1>1 DEF Connections, ConnSteps
<1> HIDE DEF c
<1>3. ConnOK(c)
  BY <1>2 DEF ConnOK
<1>4. QED
  BY <1>3 DEF c

(* The states of requireMTLS and row that go with a connection.            *)
LEMMA KeepsOwn ==
  ASSUME UNCHANGED requireMTLS, requireMTLS \in BOOLEAN, ConnOK(conn'),
         row' # None => conn'.pc = "answered" /\ row'.device_id = OwnerOf(conn')
  PROVE  OwnInv'
BY DEF OwnInv, ConnOK, OwnerOf, Connections

LEMMA NextOwn == OwnInv /\ [Next]_vars => OwnInv'
<1> SUFFICES ASSUME OwnInv, [Next]_vars PROVE OwnInv'
  OBVIOUS
<1>0. /\ requireMTLS \in BOOLEAN /\ ConnOK(conn)
      /\ conn.pc # "answered" => row = None
  BY DEF OwnInv
<1>1. ASSUME NEW cert \in Devices \cup {NoCert}, Connect(cert) PROVE OwnInv'
  <2>1. ConnOK(conn')
    BY <1>0, <1>1, OpenOK, UplinkAssumption DEF Connect
  <2>2. QED
    BY <1>0, <1>1, <2>1, KeepsOwn DEF Connect
<1>2. ASSUME NEW r, Send(r) PROVE OwnInv'
  BY <1>0, <1>2, SentOK, KeepsOwn DEF Send
<1>3. CASE Authenticate
  <2>1. conn.peer \in Devices \cup {NoCert} /\ conn.pc = "auth"
    BY <1>0, <1>3 DEF ConnOK, Connections, Authenticate
  <2>2. requireMTLS => conn.peer \in Devices
    BY <1>0, <2>1 DEF ConnOK
  <2>3. ~ requireMTLS => conn.peer = NoCert
    BY <1>0, <2>1 DEF ConnOK
  <2>4. conn' = [conn EXCEPT !.pc = "decode", !.id = OwnerOf(conn)]
    BY <1>0, <1>3, <2>1, <2>2, <2>3, UplinkAssumption DEF Authenticate, OwnerOf
  <2>5. ConnOK(conn')
    BY <1>0, <2>1, <2>2, <2>4, NamedOK, UplinkAssumption DEF OwnerOf
  <2>6. QED
    BY <1>0, <1>3, <2>1, <2>5, KeepsOwn DEF Authenticate
<1>4. CASE ReadFails
  <2> DEFINE read == [conn.req EXCEPT !.type = "unread"]
  <2>1. conn' = [conn EXCEPT !.pc = "answered", !.status = 400, !.req = read]
    BY <1>4 DEF ReadFails
  <2>2. conn.pc = "decode" /\ 400 \in Nat
    BY <1>4 DEF ReadFails
  <2> HIDE DEF read
  <2>3. ConnOK([conn EXCEPT !.pc = "answered", !.status = 400, !.req = read])
    <3>1. 400 \in Nat /\ conn.pc # "closed"
      BY <2>2
    <3>2. QED
      BY ONLY <1>0, <3>1, UnreadOK
  <2>5. ConnOK(conn')
    BY ONLY <2>1, <2>3, Zenon
  <2>6. QED
    BY <1>0, <1>4, <2>2, <2>5, KeepsOwn DEF ReadFails
<1>5. CASE DecodeFails
  <2>1. conn' = [conn EXCEPT !.pc = "answered", !.status = 400] /\ 400 \in Nat
    BY <1>5 DEF DecodeFails, Answer
  <2>2. conn.pc # "closed" /\ row = None
    BY <1>0, <1>5 DEF DecodeFails
  <2>3. ConnOK(conn')
    BY <1>0, <2>1, <2>2, AnsweredOK
  <2>4. QED
    BY <1>0, <1>5, <2>2, <2>3, KeepsOwn DEF DecodeFails
<1>6. CASE DecodeBody
  BY <1>0, <1>6, DecodedOK, KeepsOwn DEF DecodeBody
<1>7. CASE Forbid
  <2>1. conn' = [conn EXCEPT !.pc = "answered", !.status = 403] /\ 403 \in Nat
    BY <1>7 DEF Forbid, Answer
  <2>2. conn.pc # "closed" /\ row = None
    BY <1>0, <1>7 DEF Forbid
  <2>3. ConnOK(conn')
    BY <1>0, <2>1, <2>2, AnsweredOK
  <2>4. QED
    BY <1>0, <1>7, <2>2, <2>3, KeepsOwn DEF Forbid
<1>8. CASE Store
  <2>1. conn.pc = "check" /\ conn.id = OwnerOf(conn) /\ UNCHANGED requireMTLS
    BY <1>0, <1>8 DEF Store, ConnOK
  <2>2. OwnerOf(conn) \in Devices
    BY <1>0, <2>1, UplinkAssumption DEF ConnOK, OwnerOf
  <2>3. row'.device_id = OwnerOf(conn)
    BY <1>8, <2>1, <2>2, UplinkAssumption DEF Store, Mismatch
  <2>4. conn' = [conn EXCEPT !.pc = "answered", !.status = 200]
    BY <1>8 DEF Store, Answer
  <2>5. ConnOK(conn') /\ conn'.pc = "answered" /\ conn'.peer = conn.peer
    <3>1. PICK requests, payloads : conn \in Connections(requests, payloads)
      BY <1>0 DEF ConnOK
    <3>2. conn'.peer = conn.peer
      BY <2>4, <3>1 DEF Connections, ConnSteps
    <3>3. ConnOK(conn') /\ conn'.pc = "answered"
      <4>1. conn.pc # "closed" /\ 200 \in Nat
        BY <2>1
      <4>2. QED
        BY <1>0, <2>4, <4>1, AnsweredOK
    <3>4. QED
      BY <3>2, <3>3
  <2>6. row'.device_id = OwnerOf(conn)'
    BY <2>1, <2>3, <2>5 DEF OwnerOf
  <2>7. QED
    BY <1>0, <2>1, <2>5, <2>6 DEF OwnInv, ConnOK, OwnerOf, Connections
<1>9. CASE Respond
  <2>1. /\ conn.pc = "answered" /\ conn.peer \in Devices \cup {NoCert}
        /\ IF requireMTLS THEN conn.peer \in Devices ELSE conn.peer = NoCert
    BY <1>0, <1>9 DEF ConnOK, Connections, Respond
  <2>2. ConnOK(conn')
    BY <1>0, <1>9, <2>1, OpenOK DEF Respond
  <2>3. QED
    BY <1>0, <1>9, <2>2, KeepsOwn DEF Respond
<1>10. CASE Disconnect
  BY <1>0, <1>10, ClosedOK, KeepsOwn DEF Disconnect
<1>11. CASE UNCHANGED vars
  BY <1>11 DEF vars, OwnInv, ConnOK, OwnerOf, Connections
<1>12. QED
  BY <1>1, <1>2, <1>3, <1>4, <1>5, <1>6, <1>7, <1>8, <1>9, <1>10, <1>11 DEF Next

(* mtls_auth.go and HandleTelemetry: what is stored belongs to the owner   *)
(* of the connection, whatever bytes the request has.                      *)
THEOREM OnlyOwnIsStored == Spec => []StoredIsOwn
<1>1. Init => OwnInv
  BY InitOwn
<1>2. OwnInv /\ [Next]_vars => OwnInv'
  BY NextOwn
<1>3. OwnInv => StoredIsOwn
  BY DEF OwnInv, StoredIsOwn, OwnerOf
<1>4. QED
  BY <1>1, <1>2, <1>3, PTL DEF Spec

-----------------------------------------------------------------------------
(* What every request comes to.                                            *)

Known(r) == \E d \in Samples : r \in RequestsOf(d)

(* The answer, and what is stored by then.                                 *)
Answered(r, id, status, stored) ==
  \/ status = 400 /\ stored = None /\ r.type = "unread" /\ r.data \in Samples
  \/ status = 400 /\ stored = None /\ Known(r) /\ Payload(r) = Invalid
  \/ /\ status = 403 /\ stored = None
     /\ Known(r) /\ Payload(r) # Invalid /\ Mismatch(id, Payload(r))
  \/ status = 200 /\ stored = Payload(r) /\ Known(r) /\ Payload(r) # Invalid

ConnHolds(c, stored) ==
  /\ c.pc = "closed" => c.peer = NoCert
  /\ c.pc \in {"closed", "open"} => c.req = None
  /\ c.pc \in {"closed", "open", "auth"} => c.id = None
  /\ c.pc \in {"decode", "check", "answered"} => c.id \in Devices
  /\ c.pc \in {"auth", "decode", "check"} => Known(c.req)
  /\ c.pc = "check" => c.payload = Payload(c.req) /\ c.payload # Invalid
  /\ c.pc # "answered" => c.status = 0 /\ stored = None
  /\ c.pc = "answered" => Answered(c.req, c.id, c.status, stored)

LEMMA KnownForm ==
  ASSUME NEW r, Known(r)
  PROVE  \E type, b : \E d \in Samples : r = Request(type, d, b)
<1>1. PICK d \in Samples : r \in RequestsOf(d)
  BY DEF Known
<1>2. \/ r = Request("edge", d, Encode(d))
      \/ r = Request("sparse", d, Sparse(d))
      \/ r = Request("reversed", d, Reversed(d))
      \/ r = Request("json", d, Json(d))
      \/ r = Request("json cut", d, Invalid)
      \/ \E b \in Newer(d) : r = Request("newer", d, b)
      \/ \E b \in Cut(d) : r = Request("cut", d, b)
  BY ONLY <1>1 DEF RequestsOf, JsonRequests
<1>3. QED
  BY ONLY <1>1, <1>2, Zenon

LEMMA UnreadIs ==
  ASSUME NEW r, Known(r)
  PROVE  /\ [r EXCEPT !.type = "unread"].type = "unread"
         /\ [r EXCEPT !.type = "unread"].data \in Samples
<1>1. PICK type, b : \E d \in Samples : r = Request(type, d, b)
  BY KnownForm
<1>2. PICK d \in Samples : r = Request(type, d, b)
  BY <1>1
<1>3. QED
  BY <1>2 DEF Request

LEMMA ClosedHolds ==
  ASSUME NEW peer
  PROVE  /\ ConnHolds(Closed, None)
         /\ ConnHolds([Closed EXCEPT !.pc = "open", !.peer = peer], None)
BY DEF Closed, ConnHolds

LEMMA SentHolds ==
  ASSUME ConnOK(conn), ConnHolds(conn, row), conn.pc = "open", NEW r, Known(r)
  PROVE  ConnHolds([conn EXCEPT !.pc = "auth", !.req = r], None)
<1> DEFINE c == [conn EXCEPT !.pc = "auth", !.req = r]
<1>1. PICK requests, payloads : conn \in Connections(requests, payloads)
  BY DEF ConnOK
<1>2. c.pc = "auth" /\ c.req = r /\ c.id = conn.id /\ c.status = conn.status
  BY <1>1 DEF Connections
<1> HIDE DEF c
<1>3. ConnHolds(c, None)
  BY <1>2 DEF ConnHolds
<1>4. QED
  BY ONLY <1>3 DEF c

LEMMA NamedHolds ==
  ASSUME ConnOK(conn), ConnHolds(conn, row), conn.pc = "auth", NEW id \in Devices
  PROVE  ConnHolds([conn EXCEPT !.pc = "decode", !.id = id], row)
<1> DEFINE c == [conn EXCEPT !.pc = "decode", !.id = id]
<1>1. PICK requests, payloads : conn \in Connections(requests, payloads)
  BY DEF ConnOK
<1>2. c.pc = "decode" /\ c.req = conn.req /\ c.id = id /\ c.status = conn.status
  BY <1>1 DEF Connections
<1> HIDE DEF c
<1>3. ConnHolds(c, row)
  BY <1>2 DEF ConnHolds
<1>4. QED
  BY ONLY <1>3 DEF c

LEMMA DecodedHolds ==
  ASSUME ConnOK(conn), ConnHolds(conn, row), conn.pc = "decode", Payload(conn.req) # Invalid
  PROVE  ConnHolds([conn EXCEPT !.pc = "check", !.payload = Payload(conn.req)], row)
<1> DEFINE p == Payload(conn.req)
           c == [conn EXCEPT !.pc = "check", !.payload = p]
<1>1. PICK requests, payloads : conn \in Connections(requests, payloads)
  BY DEF ConnOK
<1> HIDE DEF p
<1>2. /\ c.pc = "check" /\ c.req = conn.req /\ c.id = conn.id /\ c.status = conn.status
      /\ c.payload = p
  BY <1>1 DEF Connections
<1> HIDE DEF c
<1>3. ConnHolds(c, row)
  BY <1>2 DEF ConnHolds, p
<1>4. QED
  BY ONLY <1>3 DEF c, p

LEMMA AnsweredHolds ==
  ASSUME ConnOK(conn), ConnHolds(conn, row), conn.pc \in {"decode", "check"},
         NEW status, NEW stored, Answered(conn.req, conn.id, status, stored)
  PROVE  ConnHolds([conn EXCEPT !.pc = "answered", !.status = status], stored)
<1> DEFINE c == [conn EXCEPT !.pc = "answered", !.status = status]
<1>1. PICK requests, payloads : conn \in Connections(requests, payloads)
  BY DEF ConnOK
<1>2. c.pc = "answered" /\ c.req = conn.req /\ c.id = conn.id /\ c.status = status
  BY <1>1 DEF Connections
<1> HIDE DEF c
<1>3. ConnHolds(c, stored)
  BY <1>2 DEF ConnHolds
<1>4. QED
  BY ONLY <1>3 DEF c

LEMMA UnreadHolds ==
  ASSUME ConnOK(conn), ConnHolds(conn, row), conn.pc = "decode"
  PROVE  ConnHolds([conn EXCEPT !.pc = "answered", !.status = 400, !.req.type = "unread"], None)
<1> DEFINE r == [conn.req EXCEPT !.type = "unread"]
           c == [conn EXCEPT !.pc = "answered", !.status = 400, !.req = r]
<1>1. PICK requests, payloads : conn \in Connections(requests, payloads)
  BY DEF ConnOK
<1>2. r.type = "unread" /\ r.data \in Samples
  BY UnreadIs DEF ConnHolds
<1>3. [conn EXCEPT !.pc = "answered", !.status = 400, !.req.type = "unread"] = c
  OBVIOUS
<1> HIDE DEF r
<1>4. c.pc = "answered" /\ c.req = r /\ c.id = conn.id /\ c.status = 400
  BY <1>1 DEF Connections
<1>5. conn.id \in Devices
  BY DEF ConnHolds
<1> HIDE DEF c
<1>6. Answered(r, conn.id, 400, None)
  BY ONLY <1>2 DEF Answered
<1>7. ConnHolds(c, None)
  BY ONLY <1>4, <1>5, <1>6 DEF ConnHolds
<1>8. QED
  BY ONLY <1>3, <1>7

LEMMA NextHolds ==
  ASSUME OwnInv, ConnHolds(conn, row), [Next]_vars
  PROVE  ConnHolds(conn', row')
<1>0. requireMTLS \in BOOLEAN /\ ConnOK(conn)
  BY DEF OwnInv
<1>1. ASSUME NEW cert, Connect(cert) PROVE ConnHolds(conn', row')
  BY <1>1, ClosedHolds DEF Connect, ConnHolds
<1>2. ASSUME NEW d \in Samples, NEW r \in RequestsOf(d), Send(r) PROVE ConnHolds(conn', row')
  <2>1. Known(r)
    BY DEF Known
  <2>2. /\ conn.pc = "open" /\ row' = None
        /\ conn' = [conn EXCEPT !.pc = "auth", !.req = r]
    BY ONLY <1>2 DEF Send
  <2>3. QED
    BY ONLY <1>0, <2>1, <2>2, ConnHolds(conn, row), SentHolds
<1>3. CASE Authenticate
  <2>1. conn.pc = "auth" /\ row' = row /\ (requireMTLS => conn.peer \in Devices)
        /\ (~ requireMTLS => conn.peer = NoCert)
    BY <1>0, <1>3 DEF Authenticate, ConnOK
  <2>2. PICK id \in Devices : conn' = [conn EXCEPT !.pc = "decode", !.id = id]
    BY <1>0, <1>3, <2>1, UplinkAssumption DEF Authenticate
  <2>3. QED
    BY ONLY <1>0, <2>1, <2>2, ConnHolds(conn, row), NamedHolds
<1>4. CASE ReadFails
  <2>1. /\ conn.pc = "decode" /\ row' = row
        /\ conn' = [conn EXCEPT !.pc = "answered", !.status = 400, !.req.type = "unread"]
    BY ONLY <1>4 DEF ReadFails
  <2>2. row = None
    BY <2>1 DEF ConnHolds
  <2>3. QED
    BY ONLY <1>0, <2>1, <2>2, ConnHolds(conn, row), UnreadHolds
<1>5. CASE DecodeFails
  <2>1. /\ conn.pc = "decode" /\ row' = row /\ Payload(conn.req) = Invalid
        /\ conn' = [conn EXCEPT !.pc = "answered", !.status = 400]
    BY ONLY <1>5 DEF DecodeFails, Answer
  <2>2. Answered(conn.req, conn.id, 400, row)
    BY <2>1 DEF ConnHolds, Answered
  <2>3. conn.pc \in {"decode", "check"}
    BY ONLY <2>1
  <2>4. QED
    BY ONLY <1>0, <2>1, <2>2, <2>3, ConnHolds(conn, row), AnsweredHolds
<1>6. CASE DecodeBody
  <2>1. /\ conn.pc = "decode" /\ row' = row /\ Payload(conn.req) # Invalid
        /\ conn' = [conn EXCEPT !.pc = "check", !.payload = Payload(conn.req)]
    BY ONLY <1>6 DEF DecodeBody
  <2>2. QED
    BY ONLY <1>0, <2>1, ConnHolds(conn, row), DecodedHolds
<1>7. CASE Forbid
  <2>1. /\ conn.pc = "check" /\ row' = row /\ Mismatch(conn.id, conn.payload)
        /\ conn' = [conn EXCEPT !.pc = "answered", !.status = 403]
    BY ONLY <1>7 DEF Forbid, Answer
  <2>2. Answered(conn.req, conn.id, 403, row)
    BY <2>1 DEF ConnHolds, Answered
  <2>3. conn.pc \in {"decode", "check"}
    BY ONLY <2>1
  <2>4. QED
    BY ONLY <1>0, <2>1, <2>2, <2>3, ConnHolds(conn, row), AnsweredHolds
<1>8. CASE Store
  <2>1. /\ conn.pc = "check" /\ row' = conn.payload
        /\ conn' = [conn EXCEPT !.pc = "answered", !.status = 200]
    BY ONLY <1>8 DEF Store, Answer
  <2>2. Answered(conn.req, conn.id, 200, conn.payload)
    BY <2>1 DEF ConnHolds, Answered
  <2>3. conn.pc \in {"decode", "check"}
    BY ONLY <2>1
  <2>4. QED
    BY ONLY <1>0, <2>1, <2>2, <2>3, ConnHolds(conn, row), AnsweredHolds
<1>9. CASE Respond
  BY ONLY <1>9, ClosedHolds DEF Respond
<1>10. CASE Disconnect
  BY ONLY <1>10, ClosedHolds DEF Disconnect
<1>11. CASE UNCHANGED vars
  BY ONLY <1>11, ConnHolds(conn, row) DEF vars
<1>12. QED
  BY <1>1, <1>2, <1>3, <1>4, <1>5, <1>6, <1>7, <1>8, <1>9, <1>10, <1>11 DEF Next

UplinkInv == OwnInv /\ ConnHolds(conn, row)

LEMMA UplinkInvariant == Spec => []UplinkInv
<1>1. Init => UplinkInv
  BY InitOwn, ClosedHolds DEF Init, UplinkInv
<1>2. UplinkInv /\ [Next]_vars => UplinkInv'
  BY NextOwn, NextHolds DEF UplinkInv
<1>3. QED
  BY <1>1, <1>2, PTL DEF Spec

(* A stored telemetry is what its request was read as.                     *)
LEMMA StoredIs ==
  ASSUME UplinkInv, row # None
  PROVE  /\ row = Payload(conn.req) /\ row # Invalid
         /\ \E d \in TelemetryData : d \in Samples /\ conn.req \in RequestsOf(d)
<1>1. row = Payload(conn.req) /\ Payload(conn.req) # Invalid /\ Known(conn.req)
  BY DEF UplinkInv, ConnHolds, Answered
<1>2. QED
  BY ONLY <1>1, UplinkAssumption DEF Known

(* BuildTLSConfig, MTLSAuthMiddleware and HandleTelemetry: behind the      *)
(* middleware every request belongs to a device, the connection has the    *)
(* certificate that the configuration asks for, and 200 is the answer to   *)
(* exactly the requests that were stored.                                  *)
THEOREM UplinkTypes == Spec => []TypeOK
<1>1. ASSUME UplinkInv PROVE TypeOK
  <2>1. PICK requests, payloads : conn \in Connections(requests, payloads)
    BY <1>1 DEF UplinkInv, OwnInv, ConnOK
  <2>2. /\ conn.pc \in {"closed", "open", "auth", "decode", "check", "answered"}
        /\ conn.peer \in Devices \cup {NoCert}
    BY <2>1 DEF Connections, ConnSteps
  <2>3. /\ requireMTLS \in BOOLEAN
        /\ conn.pc # "closed" => IF requireMTLS THEN conn.peer \in Devices ELSE conn.peer = NoCert
    BY <1>1 DEF UplinkInv, OwnInv, ConnOK
  <2>4. requireMTLS /\ conn.pc # "closed" <=> conn.peer # NoCert
    <3>1. conn.pc = "closed" => conn.peer = NoCert
      BY <1>1 DEF UplinkInv, ConnHolds
    <3>2. QED
      BY <2>3, <3>1, UplinkAssumption
  <2>5. conn.id \in IF conn.pc \in {"decode", "check", "answered"} THEN Devices ELSE {None}
    <3>1. /\ conn.pc \in {"closed", "open", "auth"} => conn.id = None
          /\ conn.pc \in {"decode", "check", "answered"} => conn.id \in Devices
      BY <1>1 DEF UplinkInv, ConnHolds
    <3>2. QED
      BY ONLY <2>2, <3>1
  <2>6. conn.status \in {0, 200, 400, 403} /\ (conn.status = 200 <=> row # None)
    <3>1. CASE conn.pc # "answered"
      BY <1>1, <3>1 DEF UplinkInv, ConnHolds
    <3>2. CASE conn.pc = "answered"
      <4>1. Answered(conn.req, conn.id, conn.status, row)
        BY <1>1, <3>2 DEF UplinkInv, ConnHolds
      <4>2. Known(conn.req) => Payload(conn.req) # None
        BY ONLY NoneIsNoPayload DEF Known
      <4>3. QED
        BY ONLY <4>1, <4>2 DEF Answered
    <3>3. QED
      BY ONLY <3>1, <3>2
  <2>7. QED
    BY ONLY <2>2, <2>3, <2>4, <2>5, <2>6 DEF TypeOK
<1>2. QED
  BY <1>1, UplinkInvariant, PTL

(* DecodeTelemetryProtobuf reads every complete telemetry as its sender    *)
(* meant it, whatever was measured, whoever wrote it, in whatever order,   *)
(* with whatever unknown fields; and of a text every measurement to the    *)
(* nearest hundredth.                                                      *)
THEOREM StoredIsMeant == Spec => []StoredAsMeasured
<1>1. ASSUME UplinkInv, row # None, Whole(conn.req) PROVE StoredAsMeasured
  <2> DEFINE r == conn.req
             d == r.data
             exact == DOMAIN d \ (Measurements \cup {"interval_sec", "state"})
  <2>1. row = Payload(r) /\ row # Invalid
    BY ONLY <1>1, StoredIs
  <2>2. /\ d \in TelemetryData
        /\ r.type # "json" => row = AsRead(d, r.type)
        /\ r.type = "json" => row = Json(d) /\ IsSayable(d)
    <3>1. PICK x \in TelemetryData : r \in RequestsOf(x)
      BY ONLY <1>1, StoredIs
    <3>2. QED
      BY ONLY <1>1, <2>1, <3>1, WholePayload
  <2>3. DOMAIN d = Names
    BY ONLY <2>2, DataFields
  <2>4. /\ Meant(d)["device_id"] = OrElse(d.device_id, Unknown)
        /\ Meant(d)["firmware_version"] = OrElse(d.firmware_version, FirstFirmware)
        /\ Meant(d)["rssi"] = Word(d.rssi) /\ Meant(d)["state"] = StateRead(d)
        /\ \A n \in Names \ {"device_id", "firmware_version", "rssi", "state"} :
             Meant(d)[n] = d[n]
    BY ONLY <2>2, MeantIs
  <2>5. CASE r.type # "json"
    <3>1. /\ row["state"] = StateOfRequest(r.type, d)
          /\ \A n \in Names \ {"state"} : row[n] = Meant(d)[n]
      BY ONLY <2>2, <2>5, BinaryIs
    <3>2. \A f \in exact : row[f] = Meant(d)[f]
      BY ONLY <2>3, <3>1
    <3>3. \A f \in Measurements : row[f] = d[f]
      BY ONLY <2>4, <3>1, NamesAre DEF Measurements
    <3>4. row.interval_sec = d.interval_sec
      BY ONLY <2>4, <3>1, NamesAre
    <3>5. LeavesStateOut(r) \/ row.state = Meant(d).state
      BY ONLY <2>4, <3>1 DEF LeavesStateOut, StateOfRequest, StateLeft
    <3>6. QED
      BY ONLY <2>5, <3>2, <3>3, <3>4, <3>5 DEF StoredAsMeasured
  <2>6. CASE r.type = "json"
    <3>1. /\ row["device_id"] = OrElse(d.device_id, Unknown)
          /\ row["firmware_version"] = OrElse(d.firmware_version, FirstFirmware)
          /\ row["rssi"] = Word(d.rssi) /\ row["state"] = OrElse(d.state, "NORMAL")
          /\ row["interval_sec"] = Zero
          /\ \A n \in Measurements : row[n] = Printed(d[n])
          /\ \A n \in Names \ (Measurements \cup {"device_id", "firmware_version", "rssi",
                                                 "interval_sec", "state"}) : row[n] = d[n]
      BY ONLY <2>2, <2>6, JsonIs
    <3>2. ASSUME NEW f \in exact PROVE row[f] = Meant(d)[f]
      <4>1. CASE f \in {"device_id", "firmware_version", "rssi"}
        BY ONLY <2>4, <3>1, <4>1
      <4>2. CASE f \notin {"device_id", "firmware_version", "rssi"}
        <5>1. row[f] = d[f]
          BY ONLY <2>3, <3>1, <3>2, <4>2
        <5>2. Meant(d)[f] = d[f]
          BY ONLY <2>3, <2>4, <3>2, <4>2
        <5>3. QED
          BY ONLY <5>1, <5>2
      <4>3. QED
        BY ONLY <4>1, <4>2
    <3>3. ASSUME NEW f \in Measurements PROVE Near(row[f], d[f])
      <4>1. d.temperature \in Floats /\ d.humidity \in Floats /\ d.battery_voltage \in Floats
        BY ONLY <2>2, DataIsOK DEF DataOK
      <4>2. d[f] \in Floats
        BY ONLY <4>1, <3>3 DEF Measurements
      <4>3. row[f] = Printed(d[f])
        BY ONLY <3>1, <3>3
      <4>4. QED
        BY ONLY <4>2, <4>3, PrintedIsNear
    <3>4. row.interval_sec = Zero /\ row.state = OrElse(d.state, "NORMAL")
      BY ONLY <3>1
    <3>5. QED
      BY ONLY <2>6, <3>2, <3>3, <3>4 DEF StoredAsMeasured
  <2>7. QED
    BY ONLY <2>5, <2>6
<1>2. UplinkInv => StoredAsMeasured
  BY ONLY <1>1 DEF StoredAsMeasured
<1>3. QED
  BY <1>2, UplinkInvariant, PTL

(* The decoders and the id check of HandleTelemetry refuse no complete     *)
(* telemetry of the device that the connection belongs to, but for those   *)
(* that serialize_telemetry_json cannot say.                               *)
THEOREM OwnDataIsStored == Spec => []OwnDataIsAccepted
<1>1. ASSUME UplinkInv, conn.pc = "answered", Whole(conn.req),
             Meant(conn.req.data).device_id = conn.id
      PROVE  conn.status =
               IF conn.req.type = "json" /\ ~ IsSayable(conn.req.data) THEN 400 ELSE 200
  <2> DEFINE r == conn.req
             d == r.data
             p == Payload(r)
  <2>1. Answered(r, conn.id, conn.status, row)
    BY <1>1 DEF UplinkInv, ConnHolds
  <2>2. r.type # "unread"
    BY ONLY <1>1 DEF Whole
  <2>3. Known(r)
    BY ONLY <2>1, <2>2 DEF Answered
  <2>4. PICK x \in TelemetryData : r \in RequestsOf(x)
    BY ONLY <2>3, UplinkAssumption DEF Known
  <2>5. /\ d \in TelemetryData
        /\ r.type # "json" => p = AsRead(d, r.type) /\ p # Invalid
        /\ r.type = "json" => p = Json(d) /\ (p = Invalid <=> ~ IsSayable(d))
    BY ONLY <1>1, <2>4, WholePayload
  <2>6. p # Invalid => p["device_id"] = conn.id
    <3>1. Meant(d)["device_id"] = OrElse(d.device_id, Unknown)
      BY ONLY <2>5, MeantIs
    <3>2. ASSUME r.type # "json" PROVE p["device_id"] = Meant(d)["device_id"]
      <4>1. "device_id" \in Names \ {"state"}
        BY ONLY NamesAre
      <4>2. QED
        BY ONLY <2>5, <3>2, <4>1, BinaryIs
    <3>3. ASSUME r.type = "json", p # Invalid PROVE p["device_id"] = OrElse(d.device_id, Unknown)
      BY ONLY <2>5, <3>3, JsonIs
    <3>4. QED
      BY ONLY <1>1, <3>1, <3>2, <3>3
  <2>7. p # Invalid => conn.status = 200
    BY ONLY <2>1, <2>2, <2>6 DEF Answered, Mismatch
  <2>8. p = Invalid => conn.status = 400
    BY ONLY <2>1, <2>2 DEF Answered
  <2>9. QED
    BY ONLY <2>5, <2>7, <2>8
<1>2. UplinkInv => OwnDataIsAccepted
  BY ONLY <1>1 DEF OwnDataIsAccepted
<1>3. QED
  BY <1>2, UplinkInvariant, PTL

(* DecodeTelemetryProtobuf: a telemetry that lost its end anywhere on the  *)
(* way is refused, or stored as the whole sections that arrived.           *)
THEOREM StoredCutIsMeant == Spec => []CutIsNotMisread
<1>1. ASSUME UplinkInv, row # None, ~ Whole(conn.req)
      PROVE  SectionsAreMeant(row, Meant(conn.req.data))
  BY ONLY <1>1, StoredIs, CutPayload
<1>2. ASSUME SectionsAreMeant(row, Meant(conn.req.data)) PROVE CutIsNotMisread
  BY ONLY <1>2 DEF CutIsNotMisread, SectionsAreMeant, NamesIn, NameAt, RootNames
<1>3. UplinkInv => CutIsNotMisread
  BY ONLY <1>1, <1>2 DEF CutIsNotMisread
<1>4. QED
  BY <1>3, UplinkInvariant, PTL

(* serialize_telemetry_protobuf does not write beyond its arrays when id   *)
(* and version have 42 bytes together, whatever else was measured.         *)
THEOREM SerializerHasRoom == Spec => []EncodedFits
<1>1. ASSUME UplinkInv, conn.req # None PROVE DataFits(conn.req.data)
  <2>1. conn.pc \in {"auth", "decode", "check", "answered"}
    <3>1. PICK requests, payloads : conn \in Connections(requests, payloads)
      BY <1>1 DEF UplinkInv, OwnInv, ConnOK
    <3>2. conn.pc \in ConnSteps
      BY <3>1 DEF Connections
    <3>3. QED
      BY <1>1, <3>2 DEF UplinkInv, ConnHolds, ConnSteps
  <2>2. Known(conn.req) \/ conn.req.data \in Samples
    BY <1>1, <2>1 DEF UplinkInv, ConnHolds, Answered
  <2>3. Known(conn.req) => conn.req.data \in Samples
    BY ONLY RequestIs DEF Known
  <2>4. QED
    BY ONLY <2>2, <2>3, UplinkAssumption, EncodedDataFits
<1>2. UplinkInv => EncodedFits
  BY ONLY <1>1, Zenon DEF EncodedFits, DataFits
<1>3. QED
  BY <1>2, UplinkInvariant, PTL
=============================================================================
