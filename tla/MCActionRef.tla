---------------------------- MODULE MCActionRef ----------------------------
(***************************************************************************)
(* A small instance of ActionRef: a request with up to three scopes next   *)
(* to one that differs in its scopes, or in one of the other members.      *)
(***************************************************************************)
EXTENDS ActionRef

CONSTANT err        \* model value

\* "cafe+" and "cafe" are one text in two forms, of which "cafe" is the composed.
AllText == {"anna", "ben", "pay", "Pay", "cafe", "cafe+", "epoch", "half past",
            "half to", "half to elsewhere", "garbled"}

Order == <<"Pay", "anna", "ben", "cafe+", "cafe", "epoch", "garbled",
           "half past", "half to", "half to elsewhere", "pay">>

\* Half a second before and after 1970 began.
AllParsed ==
    [t \in AllText |-> CASE t = "epoch" -> 0
                        [] t = "half past" -> 1
                        [] t \in {"half to", "half to elsewhere"} -> -1
                        [] OTHER -> err]

AllNfc == [t \in AllText |-> IF t = "cafe+" THEN "cafe" ELSE t]
AllRank == [t \in AllText |-> CHOOSE i \in DOMAIN Order : Order[i] = t]

Lists(n) == UNION {[1..k -> {"pay", "Pay", "cafe", "cafe+"}] : k \in 0..n}

Request(agent, list, time) ==
    [agent_id |-> agent, action_type |-> "pay", scope_required |-> list,
     created_at |-> time]

Times == {"epoch", "half past", "half to", "half to elsewhere", "garbled"}

AllRequests ==
    LET usual == <<"pay", "cafe">>
        others == {Request(agent, list, time) :
                      agent \in {"anna", "cafe", "cafe+"},
                      list \in {usual, <<"cafe+", "pay">>, <<"pay", "pay">>},
                      time \in Times}
    IN  {<<Request("anna", l, "epoch"), Request("anna", k, "epoch")>> :
            l \in Lists(3), k \in Lists(3)}
        \cup (others \X others)
        \cup {<<r, [r EXCEPT !.action_type = "Pay"]>> : r \in others}

\* TLC evaluates a definition once, but one given to a constant wherever that
\* constant is used: hence the second names.
MCText == AllText
MCParsed == AllParsed
MCNfc == AllNfc
MCRank == AllRank
MCRequests == AllRequests
=============================================================================
