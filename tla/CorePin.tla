------------------------------ MODULE CorePin ------------------------------
(***************************************************************************)
(* Whom a node trusts and where it may send: the pinned core key           *)
(* (node_agent/core_pin.py, wasm.py _pin_core_key) and the egress guard    *)
(* (node_agent/egress.py).  A key stands for its base64; a signature is    *)
(* known by the key that made it.                                          *)
(*                                                                         *)
(* pins is what a process takes its key from: the environment variable     *)
(* (or Unset), the constant of a patched build (or ""), the dev flag.      *)
(***************************************************************************)
EXTENDS Integers

Keys == {"core", "dev", "other"}
Unset == "unset"
Pins == [override : Keys \cup {Unset, "", "garbage"}, patched : {"", "core"}, dev : BOOLEAN]

(* Mutated form: the dev key is the default of every build. *)
DefaultDevKey(pins) == "dev"

DefaultPinnedKey(pins) == IF pins.dev THEN "dev" ELSE ""

EffectivePinnedKey(pins) ==
    IF pins.override # Unset THEN pins.override
    ELSE IF pins.patched # "" THEN pins.patched
    ELSE DefaultPinnedKey(pins)

(* The page's key, if it has one, becomes the process's: also of the nodes   *)
(* the page has made before.                                                 *)
PinCoreKey(pins, key) == IF key \in {Unset, ""} THEN pins ELSE [pins EXCEPT !.override = key]

(* verify_wu_signature with `cryptography` at hand: no key, no valid key and  *)
(* no matching signature are refused alike.                                  *)
Verifies(pins, keyId, sig) ==
    /\ keyId = "pinned"
    /\ EffectivePinnedKey(pins) \in Keys
    /\ sig = EffectivePinnedKey(pins)

----------------------------------------------------------------------------
(* A URL is its scheme, host and port; NoPort when it names none.            *)
NoPort == -1
DefaultPort(scheme) == IF scheme = "https" THEN 443 ELSE 80

(* EgressGuard.__init__: a base URL without scheme or netloc is refused.     *)
ValidBase(url) == url.scheme # "" /\ (url.host # "" \/ url.port # NoPort)

(* parsed.port is also falsy when it is 0. *)
GuardPort(base) == IF base.port \in {NoPort, 0} THEN DefaultPort(base.scheme) ELSE base.port

Admits(base, url) ==
    /\ url.scheme = base.scheme
    /\ url.host = base.host
    /\ url.port \in {NoPort, 0, GuardPort(base)}

=============================================================================
