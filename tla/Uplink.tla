------------------------------- MODULE Uplink -------------------------------
(***************************************************************************)
(* The way of a telemetry into the Go server: the TLS connection           *)
(* (BuildTLSConfig), MTLSAuthMiddleware, and HandleTelemetry up to         *)
(* SaveTelemetry, where GoIngest takes over.  The body of a request is     *)
(* what one of several senders writes: the edge serializer, or any other   *)
(* program that follows iot_message.proto in this or in a later version.   *)
(* Requests share nothing before SaveTelemetry, so one connection is       *)
(* enough.                                                                 *)
(***************************************************************************)
EXTENDS TelemetryJson

CONSTANTS
  Devices,      \* common names of certificates: device ids, as bytes (the
                \* CA signs no empty ones)
  BypassDevice, \* "DEV-ESP32-001"
  NoCert,
  None,
  Samples,      \* values of telemetry_data_t
  Extras        \* fields that the decoder does not know

(* The kinds of values are those of the wire format.                       *)
Contents(wire) ==
  CASE wire = 0 -> Words
    [] wire = 1 -> {s \in Seq(Bytes) : Len(s) = 8}
    [] wire = 2 -> Strings
    [] wire = 5 -> Floats

ASSUME UplinkAssumption ==
  /\ BypassDevice \in Devices
  /\ NoCert \notin Devices
  /\ <<>> \notin Devices
  /\ Samples \subseteq TelemetryData
  /\ \A e \in Extras : /\ e.field \in FieldNumbers /\ e.field > 6
                       /\ e.wire \in {0, 1, 2, 5}
                       /\ e.content \in Contents(e.wire)

VARIABLES
  requireMTLS, \* REQUIRE_MTLS
  conn,        \* the connection, and the request that it carries
  row          \* what the request has stored

vars == <<requireMTLS, conn, row>>

-----------------------------------------------------------------------------
(* What senders write.                                                     *)

Request(type, d, body) == [type |-> type, data |-> d, body |-> body]

(* A field whose value is zero, empty or NORMAL.                           *)
IsDefault(field) == \A k \in 2 .. Len(field) : field[k] = 0

(* proto3 libraries leave such fields out.                                 *)
Sparse(d) ==
  LET dense(fields) == [j \in DOMAIN fields |-> IF IsDefault(fields[j]) THEN <<>> ELSE fields[j]]
  IN Assemble([i \in 1 .. 3 |-> dense(Sections(d)[i])])

(* The order of the fields in a message is free.                           *)
Reversed(d) ==
  FlattenSeq([i \in 1 .. 3 |-> StringField(4 - i, FlattenSeq(Reverse(Sections(d)[4 - i])))])

ExtraField(e) ==
  CASE e.wire = 0 -> VarintField(e.field, e.content)
    [] e.wire = 2 -> StringField(e.field, e.content)
    [] OTHER -> Tag(e.field, e.wire) \o e.content

ExtraBefore(d, e, i) == [Sections(d) EXCEPT ![i] = <<ExtraField(e)>> \o @]
ExtraBehind(d, e, i) == [Sections(d) EXCEPT ![i] = @ \o <<ExtraField(e)>>]

(* A later version of the schema, or the custom_metrics of this one.       *)
Newer(d) ==
  {Assemble(ExtraBefore(d, e, i)) : e \in Extras, i \in 1 .. 3}
    \cup {Assemble(ExtraBehind(d, e, i)) : e \in Extras, i \in 1 .. 3}
    \cup {ExtraField(e) \o Encode(d) : e \in Extras}
    \cup {Encode(d) \o ExtraField(e) : e \in Extras}

(* The length handed to the HTTP client was too small.                     *)
Cut(d) == {SubSeq(Encode(d), 1, n) : n \in 0 .. Len(Encode(d)) - 1}

(* transmit_telemetry_item: the text, or nothing if it overflows.          *)
JsonRequests(d) ==
  IF FitsBuffer(d) THEN {Request("json", d, Json(d)), Request("json cut", d, Invalid)} ELSE {}

RequestsOf(d) ==
  {Request("edge", d, Encode(d)), Request("sparse", d, Sparse(d)),
   Request("reversed", d, Reversed(d))}
    \cup JsonRequests(d)
    \cup {Request("newer", d, b) : b \in Newer(d)}
    \cup {Request("cut", d, b) : b \in Cut(d)}

IsJson(r) == r.type \in {"json", "json cut"}

-----------------------------------------------------------------------------
(* The connection.                                                         *)

Closed == [pc |-> "closed", peer |-> NoCert, req |-> None, id |-> None, payload |-> None,
           status |-> 0]

Init ==
  /\ requireMTLS \in BOOLEAN
  /\ conn = Closed
  /\ row = None

(* RequireAndVerifyClientCert: no connection without a certificate of the  *)
(* CA.  NoClientCert: none is asked for, the server sees nobody's.         *)
Connect(cert) ==
  /\ conn.pc = "closed"
  /\ requireMTLS => cert # NoCert
  /\ conn' = [Closed EXCEPT !.pc = "open", !.peer = IF requireMTLS THEN cert ELSE NoCert]
  /\ UNCHANGED <<requireMTLS, row>>

Disconnect ==
  /\ conn.pc = "open"
  /\ conn' = Closed
  /\ row' = None
  /\ UNCHANGED requireMTLS

Send(r) ==
  /\ conn.pc = "open"
  /\ conn' = [conn EXCEPT !.pc = "auth", !.req = r]
  /\ row' = None
  /\ UNCHANGED requireMTLS

Answer(status) == conn' = [conn EXCEPT !.pc = "answered", !.status = status]

(* Mutant: there is no id to bypass with.                                  *)
AuthenticatePeer ==
  /\ conn.pc = "auth"
  /\ conn' = [conn EXCEPT !.pc = "decode", !.id = conn.peer]
  /\ UNCHANGED <<requireMTLS, row>>

(* MTLSAuthMiddleware: 401, the id of the bypass, or the common name.  The *)
(* TLS configuration leaves no request for the 401.                        *)
Authenticate ==
  /\ conn.pc = "auth"
  /\ IF conn.peer # NoCert
     THEN conn' = [conn EXCEPT !.pc = "decode", !.id = conn.peer]
     ELSE IF requireMTLS THEN Answer(401)
     ELSE conn' = [conn EXCEPT !.pc = "decode", !.id = BypassDevice]
  /\ UNCHANGED <<requireMTLS, row>>

(* The body does not arrive: 400.                                          *)
ReadFails ==
  /\ conn.pc = "decode"
  /\ conn' = [conn EXCEPT !.pc = "answered", !.status = 400, !.req.type = "unread"]
  /\ UNCHANGED <<requireMTLS, row>>

Payload(r) == IF IsJson(r) THEN r.body ELSE Decode(r.body)

ASSUME NoneIsNoPayload == \A d \in Samples : \A r \in RequestsOf(d) : Payload(r) # None

DecodeFails ==
  /\ conn.pc = "decode"
  /\ Payload(conn.req) = Invalid
  /\ Answer(400)
  /\ UNCHANGED <<requireMTLS, row>>

DecodeBody ==
  /\ conn.pc = "decode"
  /\ Payload(conn.req) # Invalid
  /\ conn' = [conn EXCEPT !.pc = "check", !.payload = Payload(conn.req)]
  /\ UNCHANGED <<requireMTLS, row>>

(* Mutant: a telemetry without a device id passes.                         *)
NamesOther(id, payload) == payload.device_id \notin {id, <<>>}

(* The device of the payload is not the one of the certificate.            *)
Mismatch(id, payload) == id # <<>> /\ payload.device_id # id

Forbid ==
  /\ conn.pc = "check"
  /\ Mismatch(conn.id, conn.payload)
  /\ Answer(403)
  /\ UNCHANGED <<requireMTLS, row>>

Store ==
  /\ conn.pc = "check"
  /\ ~ Mismatch(conn.id, conn.payload)
  /\ row' = conn.payload
  /\ Answer(200)
  /\ UNCHANGED requireMTLS

(* The answer leaves; the connection stays open.                           *)
Respond ==
  /\ conn.pc = "answered"
  /\ conn' = [Closed EXCEPT !.pc = "open", !.peer = conn.peer]
  /\ row' = None
  /\ UNCHANGED requireMTLS

Next ==
  \/ \E cert \in Devices \cup {NoCert} : Connect(cert)
  \/ \E d \in Samples : \E r \in RequestsOf(d) : Send(r)
  \/ Authenticate \/ ReadFails \/ DecodeFails \/ DecodeBody \/ Forbid \/ Store
  \/ Respond \/ Disconnect

Spec == Init /\ [][Next]_vars

-----------------------------------------------------------------------------
(* Properties.                                                             *)

(* A connection has the certificate that the configuration asks for, and   *)
(* behind the middleware every request belongs to a device.                *)
TypeOK ==
  /\ requireMTLS \in BOOLEAN
  /\ conn.pc \in {"closed", "open", "auth", "decode", "check", "answered"}
  /\ conn.peer \in Devices \cup {NoCert}
  /\ requireMTLS /\ conn.pc # "closed" <=> conn.peer # NoCert
  /\ conn.id \in IF conn.pc \in {"decode", "check", "answered"} THEN Devices ELSE {None}
  /\ conn.status \in {0, 200, 400, 403}
  /\ conn.status = 200 <=> row # None

(* config.go and mtls_auth.go and the handler together: a stored telemetry *)
(* belongs to the device whose certificate the connection has; without     *)
(* mTLS to the one device of the bypass mode.                              *)
StoredIsOwn ==
  row # None => row.device_id = IF requireMTLS THEN conn.peer ELSE BypassDevice

Whole(r) == r.type \in {"edge", "sparse", "reversed", "newer", "json"}

(* The telemetry in the terms of iot_message.proto.                        *)
Meant(d) ==
  [d EXCEPT !.device_id = OrElse(@, Unknown), !.firmware_version = OrElse(@, FirstFirmware),
            !.rssi = Word(@),
            !.state = IF \E i \in DOMAIN States : States[i] = @ THEN @ ELSE "NORMAL"]

(* v is the number that f is, to the nearest hundredth:                    *)
(* |scaled - 2 * half * n| <= half, without leaving 32 bits.               *)
Near(v, f) ==
  IF IsWhole(f) THEN v = f
  ELSE /\ Len(v) = 1
       /\ LET n == IF Negative(f) THEN -v[1] ELSE v[1]
              rest == (Scaled(f) - (Half(f) * n)) - (Half(f) * n)
          IN IF IsTiny(f) THEN n = 0 ELSE -Half(f) <= rest /\ rest <= Half(f)

(* A proto3 library leaves out a state that is NORMAL.                     *)
LeavesStateOut(r) == r.type = "sparse" /\ StateEnum(r.data.state) = Zero

(* DecodeTelemetryProtobuf reads what serialize_telemetry_protobuf writes, *)
(* and json.Unmarshal what serialize_telemetry_json does: every field of a *)
(* stored telemetry is the measured one - a text's measurements to two     *)
(* decimals, and without interval_sec - whatever the order of the fields,  *)
(* the width of the numbers, and the fields beside them that this version  *)
(* does not know.  Nothing is claimed of a state that is left out: the     *)
(* server stores "" where iot_message.proto means NORMAL.                  *)
StoredAsMeasured ==
  row # None /\ Whole(conn.req) =>
    LET d == conn.req.data
        json == conn.req.type = "json"
    IN /\ \A f \in DOMAIN d \ (Measurements \cup {"interval_sec", "state"}) :
            row[f] = Meant(d)[f]
       /\ \A f \in Measurements : IF json THEN Near(row[f], d[f]) ELSE row[f] = d[f]
       /\ row.interval_sec = IF json THEN Zero ELSE d.interval_sec
       /\ LeavesStateOut(conn.req)
            \/ row.state = IF json THEN OrElse(d.state, "NORMAL") ELSE Meant(d).state

(* The decoders and the id check: no complete telemetry of the device      *)
(* itself is refused, but for a text with inf, nan or something to escape, *)
(* which is refused every time.                                            *)
OwnDataIsAccepted ==
  conn.pc = "answered" /\ Whole(conn.req) /\ Meant(conn.req.data).device_id = conn.id
    => conn.status = IF conn.req.type = "json" /\ ~ IsSayable(conn.req.data) THEN 400 ELSE 200

(* DecodeTelemetryProtobuf: what is stored of a message that was cut is    *)
(* what its sender measured, section by section; a section that was cut    *)
(* off leaves its fields at zero.                                          *)
CutIsNotMisread ==
  row # None /\ ~ Whole(conn.req) =>
    \A section \in {"header", "metrics", "status"} :
      LET names == {Schema[section][i].name : i \in DOMAIN Schema[section]}
      IN \/ \A f \in names : row[f] = Meant(conn.req.data)[f]
         \/ \A f \in names : row[f] = Decode(<<>>)[f]

(* serialize_telemetry_protobuf tests only the size of the result, 128,    *)
(* before it writes: ids and versions of 42 bytes together are safe in it  *)
(* and in the arrays of 64, 64 and 32 bytes, whatever was measured.        *)
EncodedFits ==
  conn.req # None =>
    LET d == conn.req.data
        size == [i \in 1 .. 3 |-> Len(FlattenSeq(Sections(d)[i]))]
    IN Len(OrElse(d.device_id, Unknown)) + Len(OrElse(d.firmware_version, FirstFirmware)) <= 42
         => size[1] <= 64 /\ size[2] <= 64 /\ size[3] <= 32 /\ Len(Encode(d)) <= 128
=============================================================================
