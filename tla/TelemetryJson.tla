---------------------------- MODULE TelemetryJson ----------------------------
(***************************************************************************)
(* The text form of a telemetry: what serialize_telemetry_json prints into *)
(* the buffer of transmit_telemetry_item, and what json.Unmarshal of       *)
(* HandleTelemetry makes of it.  Numbers are printed with two decimals,    *)
(* strings as they are.                                                    *)
(***************************************************************************)
EXTENDS TelemetryWire

-----------------------------------------------------------------------------
(* %.2f of a float: sign, exponent and significand of its representation.  *)

Negative(f) == f[4] >= 128

Exponent(f) == (2 * (f[4] % 128)) + (f[3] \div 128)

Significand(f) ==
  f[1] + (256 * f[2]) + (65536 * (f[3] % 128)) + IF Exponent(f) = 0 THEN 0 ELSE 8388608

(* Anything else is printed as inf or nan.                                 *)
Finite(f) == Exponent(f) < 255

(* From 2^23 on: printed in full.                                          *)
IsWhole(f) == Exponent(f) >= 150

(* Less than half of a hundredth.                                          *)
IsTiny(f) == Exponent(f) < 119

(* 2^n, up to 30.                                                          *)
PowerOf2(n) == Weights[(n \div 7) + 1] * <<1, 2, 4, 8, 16, 32, 64>>[(n % 7) + 1]

(* A float between the two is Scaled \div (2 * Half) hundredths.           *)
Scaled(f) == 100 * Significand(f)
Half(f) == PowerOf2(149 - Exponent(f))

(* The hundredths next to scaled \div (2 * half); of two, the even ones.   *)
Rounded(scaled, half) ==
  LET low == (scaled \div half) \div 2
      odd(n) == n % 2 = 1
  IN IF odd(scaled \div half) /\ (scaled % half > 0 \/ odd(low)) THEN low + 1 ELSE low

Hundredths(f) ==
  LET n == IF IsTiny(f) THEN 0 ELSE Rounded(Scaled(f), Half(f))
  IN IF Negative(f) THEN -n ELSE n

(* What is read of the printed number: a whole one, or its hundredths.     *)
Printed(f) == IF IsWhole(f) THEN f ELSE <<Hundredths(f)>>

-----------------------------------------------------------------------------
(* The text.                                                               *)

Measurements == {"temperature", "humidity", "battery_voltage"}

(* A quote, a backslash or a control character, which JSON wants escaped.  *)
(* (Text behind one that happens to go on as JSON is not considered; what  *)
(* is above 127 is taken for UTF-8, and a state for a plain name.)         *)
NeedsEscape(s) == \E i \in DOMAIN s : s[i] < 32 \/ s[i] \in {34, 92}

(* The text is JSON.                                                       *)
IsSayable(d) ==
  /\ \A n \in Measurements : Finite(d[n])
  /\ ~ NeedsEscape(OrElse(d.device_id, Unknown))
  /\ ~ NeedsEscape(OrElse(d.firmware_version, FirstFirmware))

(* The payload that is read; interval_sec is not printed.                  *)
Json(d) ==
  IF ~ IsSayable(d) THEN Invalid
  ELSE [d EXCEPT !.device_id = OrElse(@, Unknown), !.firmware_version = OrElse(@, FirstFirmware),
                 !.temperature = Printed(@), !.humidity = Printed(@),
                 !.battery_voltage = Printed(@),
                 !.rssi = Word(@), !.interval_sec = Zero, !.state = OrElse(@, "NORMAL")]

Digits(n) == Max({1} \cup {k \in 1 .. 10 : 10 ^ (k - 1) <= n \/ n <= -(10 ^ (k - 1))})

SignSize(negative) == IF negative THEN 1 ELSE 0

WordSize(w) ==
  IF w[5] >= 8 THEN 10
  ELSE Digits(w[1] + (128 * w[2]) + (16384 * w[3]) + (2097152 * w[4]) + (268435456 * w[5]))

(* Of a whole number seven digits are counted, and there may be more: with *)
(* such a one JsonSize is the least that the text can take.                *)
FloatSize(f) ==
  SignSize(Negative(f)) +
    (CASE ~ Finite(f) -> 3
       [] Finite(f) /\ IsWhole(f) -> 10
       [] ~ IsWhole(f) -> 3 + LET n == Hundredths(f)
                              IN Digits((IF n < 0 THEN -n ELSE n) \div 100))

(* The format has 228 characters beside the values.                        *)
JsonSize(d) ==
  228 + Len(OrElse(d.device_id, Unknown)) + Len(OrElse(d.firmware_version, FirstFirmware))
      + Len(OrElse(d.state, "NORMAL"))
      + WordSize(d.timestamp) + WordSize(d.seq_no) + WordSize(d.boot_count)
      + FloatSize(d.temperature) + FloatSize(d.humidity) + FloatSize(d.battery_voltage)
      + WordSize(d.battery_level_pct) + SignSize(d.rssi < 0) + Digits(d.rssi)
      + WordSize(d.uptime_sec) + WordSize(d.free_heap_bytes)

(* snprintf needs room for the final zero; a longer text is not sent.      *)
JSON_PAYLOAD_SIZE == 512

FitsBuffer(d) == JsonSize(d) < JSON_PAYLOAD_SIZE
=============================================================================
