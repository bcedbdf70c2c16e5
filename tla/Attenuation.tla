---------------------------- MODULE Attenuation ----------------------------
(***************************************************************************)
(* What structural narrowing verification decides, with no loop in it.  A  *)
(* chain attenuates when every bound a link states is at least as tight as *)
(* every bound stated anywhere above it, however many links in between say *)
(* nothing.                                                                *)
(***************************************************************************)
EXTENDS DelegationLink

\* Wherever two links of the chain both state a facet, the later one is no
\* wider: Below(ancestor's, descendant's).
Descends(c, Facet(_), Unstated, Below(_, _)) ==
    \A j \in 1..Len(c) : \A i \in 1..(j - 1) :
        Facet(c[i]) # Unstated /\ Facet(c[j]) # Unstated
            => Below(Facet(c[i]), Facet(c[j]))

AtMost(ancestor, descendant) == descendant <= ancestor
AtLeast(ancestor, descendant) == descendant >= ancestor
Same(ancestor, descendant) == descendant = ancestor

SpendAttenuates(c) ==
    /\ Descends(c, spend_limit_of, None, AtMost)
    /\ Descends(c, stated_unit, "", Same)

\* Positions count up by one from the root, are never negative, and stay at
\* or below every ceiling stated at that link or above it.
DepthAttenuates(c) ==
    /\ \A j \in 1..Len(c) :
          /\ position(c[j]) = position(c[1]) + (j - 1)
          /\ \A key \in DepthMembers :
                depth_of(c[j], key) = None \/ depth_of(c[j], key) >= 0
          /\ \A i \in 1..j :
                max_depth_of(c[i]) = None \/ position(c[j]) <= max_depth_of(c[i])
    /\ Descends(c, max_depth_of, None, AtMost)

ActivationAttenuates(c) ==
    /\ \A j \in 1..Len(c) : not_before_of(c[j]) # Err
    /\ Descends(c, not_before_of, None, AtLeast)

\* Once an expiry is stated, every link below states one, no later.  The
\* expiry of a chain of one link is never read.
ExpiryAttenuates(c) ==
    Len(c) > 1 =>
        /\ \A j \in 1..Len(c) : expiry_of(c[j]) # Err
        /\ \A j \in 1..Len(c) : \A i \in 1..(j - 1) :
              expiry_of(c[i]) # None =>
                  expiry_of(c[j]) # None /\ expiry_of(c[j]) <= expiry_of(c[i])

Linked(c) ==
    \A j \in 2..Len(c) :
        /\ text_of(c[j], "delegatedBy") = text_of(c[j - 1], "delegatedTo")
        /\ \A scope \in scopes_of(c[j]) :
              scope_authorizes(scopes_of(c[j - 1]), scope)

Attenuates(c) ==
    /\ c # << >>
    /\ \A i \in 1..Len(c) : WellTyped(c[i])
    /\ Linked(c)
    /\ SpendAttenuates(c)
    /\ DepthAttenuates(c)
    /\ ActivationAttenuates(c)
    /\ ExpiryAttenuates(c)
============================================================================
