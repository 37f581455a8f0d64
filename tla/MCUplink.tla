------------------------------ MODULE MCUplink ------------------------------
(* A small instance of Uplink for TLC. *)
EXTENDS Uplink

(* "DEV-ESP32-001", and an id as long as the header buffer allows. *)
MCBypass == <<68, 69, 86, 45, 69, 83, 80, 51, 50, 45, 48, 48, 49>>
MCLongId == [i \in 1 .. 37 |-> 65]
MCDevices == {MCBypass, MCLongId}

MaxUint32 == <<127, 127, 127, 127, 15, 0, 0, 0, 0, 0>>

(* An ordinary telemetry, one of zeros and null pointers, one with the     *)
(* largest values, one on the edges between the lengths of a varint and    *)
(* between two hundredths (0.125, -0.375, and 2^24), and three that have   *)
(* no text: nan, a quote, and a version that overflows the buffer.         *)
MCSamples ==
  LET ordinary ==
        [device_id |-> MCBypass, timestamp |-> Word(1755420000), seq_no |-> Word(42),
         firmware_version |-> FirstFirmware, boot_count |-> Word(5),
         temperature |-> <<205, 204, 214, 65>>, humidity |-> <<205, 204, 88, 66>>,
         battery_voltage |-> <<205, 204, 124, 64>>, battery_level_pct |-> Word(92),
         rssi |-> -64, interval_sec |-> Word(60), state |-> "NORMAL",
         uptime_sec |-> Word(3600), free_heap_bytes |-> Word(48200)]
      zeros ==
        [f \in DOMAIN ordinary |->
           CASE f \in {"device_id", "firmware_version", "state"} -> Null
             [] f \in {"temperature", "humidity", "battery_voltage"} -> <<0, 0, 0, 0>>
             [] f = "rssi" -> 0
             [] OTHER -> Zero]
      largest ==
        [ordinary EXCEPT !.device_id = MCLongId, !.timestamp = MaxUint32, !.seq_no = MaxUint32,
                         !.boot_count = MaxUint32, !.battery_level_pct = MaxUint32,
                         !.rssi = -2147483647 - 1, !.interval_sec = MaxUint32,
                         !.state = "ERROR", !.uptime_sec = MaxUint32,
                         !.free_heap_bytes = MaxUint32]
      edges ==
        [ordinary EXCEPT !.seq_no = Word(127), !.boot_count = Word(128), !.rssi = 2147483647,
                         !.battery_level_pct = Zero, !.interval_sec = Word(16384),
                         !.state = "SLEEPING", !.uptime_sec = Word(16383),
                         !.temperature = <<0, 0, 192, 190>>, !.humidity = <<0, 0, 0, 62>>,
                         !.battery_voltage = <<0, 0, 128, 75>>]
  IN {ordinary, zeros, [zeros EXCEPT !.device_id = MCBypass], largest, edges,
      [zeros EXCEPT !.device_id = MCBypass, !.humidity = <<0, 0, 192, 127>>],
      [zeros EXCEPT !.device_id = MCBypass, !.firmware_version = <<49, 34>>],
      [zeros EXCEPT !.device_id = MCBypass, !.firmware_version = [i \in 1 .. 247 |-> 49]]}

(* Fields 7, 16 and 536, of each wire type; the strings look like fields,  *)
(* and one makes its section longer than 127 bytes.                        *)
MCExtras ==
  LET field(n, wire, content) == [field |-> n, wire |-> wire, content |-> content]
  IN {field(7, 0, MaxUint32), field(16, 5, <<255, 255, 255, 255>>),
      field(7, 1, <<8, 8, 8, 8, 8, 8, 8, 8>>), field(7, 2, <<10, 1, 66, 24, 9>>),
      field(536, 2, <<>>), field(7, 2, [i \in 1 .. 200 |-> 8])}
=============================================================================
