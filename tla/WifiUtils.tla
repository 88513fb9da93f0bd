------------------------------ MODULE WifiUtils ------------------------------
(***************************************************************************)
(* The value helpers of src/wifi/utils.py: increment_mac_address, the PSK  *)
(* and BSSID validators and validate_set_wifi_options.                     *)
(*                                                                         *)
(* Strings are abstracted to what the code tests of them:                 *)
(*  - a MAC address to its octets, and the address width to MacOctets     *)
(*    (6 in the code, fewer for TLC, whose integers are 32-bit);           *)
(*  - a PSK to the number of its characters in each class the code tells  *)
(*    apart: hex digits, other printable ASCII, control characters below  *)
(*    32, DEL (127) and non-ASCII bytes;                                   *)
(*  - a BSSID to its ':'-separated fields, each "hh" (two hex digits),     *)
(*    "h" (one) or "hhz" (two hex digits and more text);                   *)
(*  - options to the values validate_set_wifi_options compares.            *)
(***************************************************************************)
EXTENDS Integers, Sequences, SequencesExt

CONSTANTS
  MacOctets   \* octets in a MAC address

(* The exceptions a helper raises, as values its result is compared with. *)
TypeError == << "TypeError" >>
BinWifiException == [raised |-> "BinWifiException"]

-----------------------------------------------------------------------------
(* increment_mac_address, lines 121-125                                    *)

(* int(''.join(mac.split(':')), 16)                                        *)
MacValue(octets) == FoldLeft(LAMBDA n, o : 256 * n + o, 0, octets)

(* '%0Nx' % n: the hex digits of n, at least width of them.               *)
RECURSIVE HexDigits(_, _)
HexDigits(n, width) ==
  IF n = 0 /\ width <= 0 THEN << >>
  ELSE HexDigits(n \div 16, width - 1) \o << n % 16 >>

(* str.decode('hex') then ':'.join of the octets; an odd number of digits *)
(* raises TypeError.                                                        *)
HexToOctets(digits) ==
  IF Len(digits) % 2 = 1 THEN TypeError
  ELSE [ i \in 1 .. Len(digits) \div 2 |-> 16 * digits[2 * i - 1] + digits[2 * i] ]

(* Faulty variant: the sum is not reduced modulo 2^48.                     *)
IncrementMacNoWrap(octets) ==
  HexToOctets(HexDigits(MacValue(octets) + 1, 2 * MacOctets))

(* Lines 122-125: add one, wrap at 2^(8*octets), format as 12 hex digits. *)
IncrementMacAddress(octets) ==
  HexToOctets(HexDigits((MacValue(octets) + 1) % 2^(8 * MacOctets), 2 * MacOctets))

-----------------------------------------------------------------------------
(* validate_and_sanitize_psk, lines 278-309                                *)

PskLen(psk) == psk.hex + psk.text + psk.ctrl + psk.del + psk.high

ValidateAndSanitizePsk(psk) ==
  IF PskLen(psk) = 64
    THEN IF psk.text + psk.ctrl + psk.del + psk.high = 0 THEN psk ELSE BinWifiException
  ELSE IF 8 <= PskLen(psk) /\ PskLen(psk) <= 63
    THEN IF psk.high > 0 THEN BinWifiException
         ELSE LET clean == [psk EXCEPT !.ctrl = 0]
              IN  IF PskLen(clean) < 8 THEN BinWifiException ELSE clean
  ELSE BinWifiException

-----------------------------------------------------------------------------
(* validate_and_sanitize_bssid, lines 268-275: six fields, each of which  *)
(* re.match('[0-9a-f]{2}', ...) accepts, i.e. that starts with two hex     *)
(* digits.                                                                 *)
ValidateAndSanitizeBssid(fields) ==
  IF Len(fields) = 6 /\ \A i \in 1 .. 6 : fields[i] \in {"hh", "hhz"}
    THEN fields ELSE BinWifiException

-----------------------------------------------------------------------------
(* validate_set_wifi_options, lines 199-250: the first error the code     *)
(* raises, or "ok".  opt.protocols is the list '/'.split gives (never      *)
(* empty: ''.split('/') is ['']).                                          *)
ValidProtocols == {"a", "b", "ab", "g", "n", "ac"}

ValidateSetWifiOptions(opt) ==
  LET protocols == ToSet(opt.protocols)
  IN  CASE opt.band \notin {"2.4", "5"}                   -> "band"
        [] opt.band = "2.4" /\ opt.width = "80"            -> "80_in_2.4"
        [] opt.band = "2.4" /\ opt.autotype = "DFS"        -> "dfs_in_2.4"
        [] opt.band = "5" /\ opt.autotype = "OVERLAP"      -> "overlap_in_5"
        [] protocols = {}                                  -> "no_protocols"
        [] ~(protocols \subseteq ValidProtocols)           -> "unknown_protocol"
        [] opt.width \notin {"20", "40", "80"}             -> "width"
        [] opt.width = "40" /\ "n" \notin protocols        -> "40_needs_n"
        [] opt.width = "80" /\ "ac" \notin protocols       -> "80_needs_ac"
        [] opt.encrypted /\ ~opt.pskSet                    -> "no_psk"
        [] opt.wds /\ ~opt.bridge                          -> "wds_no_bridge"
        [] OTHER                                           -> "ok"
=============================================================================
