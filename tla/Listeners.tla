----------------------------- MODULE Listeners -----------------------------
(***************************************************************************)
(* What the relay promises about who listens to it, without saying how.    *)
(* An actor is admitted while it is not denied, an admission that is still *)
(* standing lets it join, and the list of denied actors may change at any  *)
(* time.  A denied actor that is out and has no standing admission has no  *)
(* way in.                                                                 *)
(***************************************************************************)
CONSTANT Actors

VARIABLES listeners,  \* the actors that receive what the relay forwards
          admitted,   \* the actors with a Follow admitted and not yet settled
          denied      \* the actors the allow and block lists turn away

vars == <<listeners, admitted, denied>>

TypeOK == /\ listeners \subseteq Actors
          /\ admitted \subseteq Actors
          /\ denied \subseteq Actors

Init == /\ listeners = {}
        /\ admitted = {}
        /\ denied \in SUBSET Actors

\* A Follow passes the allow and block lists.
Admit(a) == /\ a \notin denied
            /\ admitted' = admitted \cup {a}
            /\ UNCHANGED <<listeners, denied>>

\* An admitted Follow takes effect.
Join(a) == /\ a \in admitted
           /\ listeners' = listeners \cup {a}
           /\ UNCHANGED <<admitted, denied>>

\* Admitted Follows are settled, given up or lost.
Settle == /\ admitted' \in SUBSET admitted
          /\ UNCHANGED <<listeners, denied>>

\* An actor stops listening, by its own will or an administrator's.
Leave(a) == /\ listeners' = listeners \ {a}
            /\ UNCHANGED <<admitted, denied>>

\* An administrator edits the lists.
Relist == /\ denied' \in SUBSET Actors
          /\ UNCHANGED <<listeners, admitted>>

Next == \/ \E a \in Actors : Admit(a) \/ Join(a) \/ Leave(a)
        \/ Settle
        \/ Relist

Spec == Init /\ [][Next]_vars

Barred(a) == a \in denied /\ a \notin listeners /\ a \notin admitted

\* A denied actor that is out, with no admission left from earlier, stays out
\* for as long as it is denied.
BarredStaysOut == [][\A a \in Actors : Barred(a) /\ a \in denied' => Barred(a)']_vars
=============================================================================
