------------------------------ MODULE Domains ------------------------------
(***************************************************************************)
(* How the relay compares domains (src/src/db.rs).  An authority is the    *)
(* sequence of its dot-separated labels, <<"a", "example", "com">> for     *)
(* a.example.com.  The trees of allowed and blocked domains are keyed by   *)
(* the reversed name with a final dot, "com.example.a.", so that a prefix  *)
(* of a key, taken as a string, is a prefix of it taken label by label.    *)
(***************************************************************************)
EXTENDS SequencesExt

\* "a.example.com" |-> "com.example.a."
DomainKey(authority) == Reverse(authority)

\* A mutated form: the scan starts from the last three labels.
DomainPrefixOfThree(authority) ==
  IF Len(authority) <= 3 THEN DomainKey(authority)
                         ELSE SubSeq(DomainKey(authority), 1, 3)

\* The key of the last two labels: what is_allowed scans the trees from.
DomainPrefix(authority) ==
  IF Len(authority) <= 2 THEN DomainKey(authority)
                         ELSE SubSeq(DomainKey(authority), 1, 2)

\* connected_rdnn.starts_with(rdnn): the domain is the authority or above it.
KeyMatches(domain, authority) ==
  IsPrefix(DomainKey(domain), DomainKey(authority))

\* The domains of a tree that is_allowed finds for an authority: those in the
\* range scan_prefix(domain_prefix) whose key begins the authority's key.
ListMatches(list, authority) ==
  \E domain \in list : /\ IsPrefix(DomainPrefix(authority), DomainKey(domain))
                       /\ KeyMatches(domain, authority)

\* Inner::is_allowed.  In restricted mode only the allowed tree is looked at,
\* otherwise only the blocked one.
IsAllowed(restricted, allowed, blocked, authority) ==
  IF restricted THEN ListMatches(allowed, authority)
                ELSE ~ListMatches(blocked, authority)

(***************************************************************************)
(* Db::is_connected scans the connected ids for "https://" + authority.    *)
(* That string has no final separator, so it also begins an authority with *)
(* more labels, or with a longer last label.  labelPrefix holds the pairs  *)
(* of distinct labels <<short, long>> such that short begins long.         *)
(***************************************************************************)
UrlPrefix(labelPrefix, authority, other) ==
  LET n == Len(authority) IN
  /\ n > 0
  /\ n <= Len(other)
  /\ \A i \in 1..(n - 1) : authority[i] = other[i]
  /\ authority[n] = other[n] \/ <<authority[n], other[n]>> \in labelPrefix
=============================================================================
