------------------------------- MODULE UrlSign -------------------------------
(***************************************************************************)
(* internal/urlsign: the signature of a /_p/ URL.  The HMAC is what signs  *)
(* this path with this key, salt and length and nothing else.              *)
(***************************************************************************)
EXTENDS Integers

CONSTANT HexBytes   \* HexBytes[s]: the bytes the hex string s spells

ASSUME HexAssumption == "" \notin DOMAIN HexBytes

\* A signing configuration is [key, salt, size, unsafe], key and salt in hex.
\* The verifier it gives, or none when the process refuses to start.  Without
\* key and salt the route is off, unless unsigned URLs are allowed; with one of
\* them, or with either not hex ("" is none), it does not start.
NewVerifier(env) ==
    LET size == IF env.size = 0 THEN 32 ELSE env.size
        isHex(s) == s \in DOMAIN HexBytes
    IN
    IF env.key = "" /\ env.salt = ""
    THEN {[isOn |-> env.unsafe, key |-> << >>, salt |-> << >>, size |-> 32,
           allowUnsafe |-> env.unsafe]}
    ELSE IF isHex(env.key) /\ isHex(env.salt) /\ size \in 1 .. 32
    THEN {[isOn |-> TRUE, key |-> HexBytes[env.key], salt |-> HexBytes[env.salt], size |-> size,
           allowUnsafe |-> env.unsafe]}
    ELSE {}

\* The literal "unsafe", and what does not decode as a signature at all.
Unsafe == <<"unsafe">>

Garbage == <<"garbage">>

digest(v, path) == <<v.key, v.salt, v.size, path>>

\* Mutant: without a key the digest under the empty key is compared.
VerifyUnkeyed(v, signature, path) ==
    v.isOn /\ IF signature = Unsafe THEN v.allowUnsafe ELSE signature = digest(v, path)

Verify(v, signature, path) ==
    /\ v.isOn
    /\ IF signature = Unsafe THEN v.allowUnsafe
       ELSE v.key # << >> /\ signature = digest(v, path)
==============================================================================
