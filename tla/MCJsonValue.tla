---------------------------- MODULE MCJsonValue ----------------------------
(***************************************************************************)
(* The small sets of texts and numbers that the instances share.           *)
(***************************************************************************)
EXTENDS JsonValue, Sequences

CONSTANTS absent, null, malformed, notObject, none, err,   \* model values
          badHex

\* "3" is an integer out of range; "2.0" is in exponent or fraction form.
AllNumber == {"-1", "-0", "0", "1", "1.5", "2", "2.0", "3"}

TheAsI64 ==
    [n \in AllNumber |-> CASE n = "-1" -> -1 [] n = "0" -> 0 [] n = "1" -> 1
                          [] n = "2" -> 2 [] OTHER -> none]

\* Halves, rounded to even integers at the top: "2.0" and "3" share a double.
TheAsF64 ==
    [n \in AllNumber |-> CASE n = "-1" -> -2 [] n \in {"-0", "0"} -> 0
                          [] n = "1" -> 2 [] n = "1.5" -> 3 [] n = "2" -> 4
                          [] n \in {"2.0", "3"} -> 6]

AllText == {"", "anna", "ANNA", "ben", "lowly", "currency", "tokens", "noon", "dusk",
           "garbled", "agent", "1", "noon elsewhere", "aps-receipt-v1", "Ed25519",
           "digest 1", "digest 2", "pay", "card", "read", "*"}

TheMs == [t \in AllText |-> CASE t \in {"noon", "noon elsewhere"} -> 12
                            [] t = "dusk" -> 20
                            [] OTHER -> err]

\* "ANNA" is the key of "anna" in capitals, "lowly" a small-order key, and
\* no other text is a key.
TheKeyHex ==
    [t \in AllText |->
        CASE t \in {"anna", "ANNA"} -> [chars |-> 64, bytes |-> "A"]
          [] t = "ben" -> [chars |-> 64, bytes |-> "B"]
          [] t = "lowly" -> [chars |-> 64, bytes |-> "O"]
          [] OTHER -> [chars |-> Len(t), bytes |-> badHex]]

\* TLC evaluates a definition once, but one given to a constant wherever that
\* constant is used: hence the second names.
MCNumber == AllNumber
MCAsI64 == TheAsI64
MCAsF64 == TheAsF64
MCText == AllText
MCMs == TheMs
MCKeyHex == TheKeyHex

\* What this key makes over this message.
Signature(key, over) ==
    [chars |-> 128,
     bytes |-> [by |-> key, over |-> over, small_order_r |-> FALSE,
                reduced |-> TRUE]]
=============================================================================
