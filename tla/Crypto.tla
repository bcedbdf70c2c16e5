------------------------------- MODULE Crypto -------------------------------
(***************************************************************************)
(* verify_ed25519 (crypto.rs).  Keys and signatures travel as hex text:    *)
(* what the code does with such a text is measure it, decode it, and hand  *)
(* the bytes to ed25519-dalek.  The curve is external: a signature is what *)
(* it was made by and over, which is all the Ed25519 equation tells apart. *)
(***************************************************************************)
EXTENDS Integers

CONSTANTS
    KeyHex,         \* what a text is as a key: its length, its bytes or BadHex
    BadHex,         \* hex::decode failed
    Points,         \* the 32-byte strings that decode to a curve point
    SmallOrder,     \* those of them that are small-order points
    Anyone          \* maker of the message-independent signature

ASSUME PointAssumption == SmallOrder \subseteq Points /\ BadHex \notin Points

\* The empty text is not 64 characters long.
ASSUME EmptyKeyAssumption == KeyHex[""].chars # 64

\* The RFC 8032 equation.  Under a small-order key one signature satisfies
\* it for every message.
Equation(message, signature, key) ==
    \/ signature.by = key /\ signature.over = message
    \/ key \in SmallOrder /\ signature.by = Anyone

\* VerifyingKey::verify_strict: small-order points and scalars that are not
\* reduced are refused before the equation is looked at.
verify_strict(message, signature, key) ==
    /\ key \notin SmallOrder
    /\ ~signature.small_order_r
    /\ signature.reduced
    /\ Equation(message, signature, key)

verify_ed25519(message, signature, public_key) ==
    /\ KeyHex[public_key].chars = 64
    /\ signature.chars = 128
    /\ KeyHex[public_key].bytes # BadHex
    /\ signature.bytes # BadHex
    /\ KeyHex[public_key].bytes \in Points
    /\ verify_strict(message, signature.bytes, KeyHex[public_key].bytes)
=============================================================================
