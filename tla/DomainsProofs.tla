--------------------------- MODULE DomainsProofs ---------------------------
(* What the lookups of Domains find, for names of any length. *)
EXTENDS Domains, TLAPS

\* The key of a name has the labels of the name, last first.
LEMMA KeyLabels ==
  ASSUME NEW Label, NEW s \in Seq(Label)
  PROVE  /\ DomainKey(s) \in Seq(Label)
         /\ Len(DomainKey(s)) = Len(s)
BY DEF DomainKey, Reverse

\* A prefix, label by label.
LEMMA PrefixLabels ==
  ASSUME NEW Label, NEW s \in Seq(Label), NEW t \in Seq(Label)
  PROVE  IsPrefix(s, t) <=> /\ Len(s) <= Len(t)
                            /\ \A i \in 1..Len(s) : s[i] = t[i]
BY DEF IsPrefix

\* A name of two labels or more whose key begins the authority's key is in the
\* range that is_allowed scans.
LEMMA ScanReaches ==
  ASSUME NEW Label, NEW d \in Seq(Label), NEW authority \in Seq(Label),
         Len(d) >= 2, KeyMatches(d, authority)
  PROVE  IsPrefix(DomainPrefix(authority), DomainKey(d))
<1> DEFINE key == DomainKey(authority)
<1>1. /\ key \in Seq(Label) /\ Len(key) = Len(authority)
      /\ DomainKey(d) \in Seq(Label) /\ Len(DomainKey(d)) = Len(d)
  BY KeyLabels
<1>2. Len(d) <= Len(authority) /\ \A i \in 1..Len(d) : DomainKey(d)[i] = key[i]
  BY <1>1, PrefixLabels DEF KeyMatches
<1>3. /\ DomainPrefix(authority) \in Seq(Label)
      /\ Len(DomainPrefix(authority)) = 2
      /\ \A i \in 1..2 : DomainPrefix(authority)[i] = key[i]
  <2>1. Len(authority) \in Nat /\ Len(d) \in Nat
    OBVIOUS
  <2>2. CASE Len(authority) <= 2
    <3>1. DomainPrefix(authority) = key
      BY <2>2 DEF DomainPrefix
    <3>2. Len(key) = 2
      BY <1>1, <1>2, <2>1, <2>2
    <3> HIDE DEF key
    <3> QED BY <1>1, <3>1, <3>2
  <2>3. CASE Len(authority) > 2
    BY <1>1, <2>1, <2>3 DEF DomainPrefix
  <2> QED BY <2>1, <2>2, <2>3
<1>4. Len(d) \in Nat /\ \A i \in 1..2 : i \in 1..Len(d)
  OBVIOUS
<1>5. \A i \in 1..Len(DomainPrefix(authority)) : DomainPrefix(authority)[i] = DomainKey(d)[i]
  BY <1>2, <1>3, <1>4
<1> HIDE DEF key
<1> QED BY <1>1, <1>3, <1>5, PrefixLabels

\* Lengths, of which only being one, two or more matters.
LEMMA SmallNumbers ==
  \A n \in Nat : /\ n > 1 => n # 1 /\ (n = 2 \/ n > 2)
                 /\ n >= 1 => n = 1 \/ n >= 2
OBVIOUS

\* A name of one label is in that range only if the authority has one label, too.
LEMMA ScanMisses ==
  ASSUME NEW Label, NEW d \in Seq(Label), NEW authority \in Seq(Label),
         Len(d) = 1, Len(authority) >= 1, KeyMatches(d, authority)
  PROVE  IsPrefix(DomainPrefix(authority), DomainKey(d)) <=> Len(authority) = 1
<1> DEFINE key == DomainKey(authority)
<1>1. /\ key \in Seq(Label) /\ Len(key) = Len(authority)
      /\ DomainKey(d) \in Seq(Label) /\ Len(DomainKey(d)) = 1
  BY KeyLabels
<1>2. DomainKey(d)[1] = key[1]
  <2>1. IsPrefix(DomainKey(d), key)
    BY DEF KeyMatches
  <2> HIDE DEF key
  <2>2. \A i \in 1..Len(DomainKey(d)) : DomainKey(d)[i] = key[i]
    BY <1>1, <2>1, PrefixLabels
  <2>3. 1 \in 1..Len(DomainKey(d))
    BY <1>1
  <2> QED BY <2>2, <2>3
<1>3. Len(authority) \in Nat
  OBVIOUS
<1>4. CASE Len(authority) = 1
  <2>1. DomainPrefix(authority) = key
    BY <1>4 DEF DomainPrefix
  <2> HIDE DEF key
  <2> QED BY <1>1, <1>2, <1>4, <2>1, PrefixLabels
<1>5. CASE Len(authority) > 1
  <2>1. DomainPrefix(authority) \in Seq(Label) /\ Len(DomainPrefix(authority)) = 2
    <3>1. CASE Len(authority) = 2
      <4>1. DomainPrefix(authority) = key
        BY <3>1 DEF DomainPrefix
      <4> HIDE DEF key
      <4> QED BY <1>1, <3>1, <4>1
    <3>2. CASE Len(authority) > 2
      BY <1>1, <1>3, <3>2 DEF DomainPrefix
    <3>3. Len(authority) = 2 \/ Len(authority) > 2
      BY <1>3, <1>5, SmallNumbers, Zenon
    <3> QED BY <3>1, <3>2, <3>3, Zenon
  <2>2. ~(Len(DomainPrefix(authority)) <= Len(DomainKey(d)))
    BY <1>1, <2>1
  <2>3. ~IsPrefix(DomainPrefix(authority), DomainKey(d))
    BY <1>1, <2>1, <2>2, PrefixLabels
  <2>4. Len(authority) # 1
    BY <1>3, <1>5, SmallNumbers, Zenon
  <2> QED BY <2>3, <2>4, Zenon
<1> QED BY <1>3, <1>4, <1>5

\* The range scan of is_allowed finds a name exactly if the authority is that
\* name or below it, but for names of one label, which it finds for themselves
\* only; KeyMatches alone is what the sweeps of add_blocks and remove_allows ask.
THEOREM ScanIsExact ==
  ASSUME NEW Label, NEW authority \in Seq(Label), NEW list \in SUBSET Seq(Label),
         Len(authority) >= 1, \A d \in list : Len(d) >= 1
  PROVE  ListMatches(list, authority)
           <=> \E d \in list : /\ KeyMatches(d, authority)
                               /\ Len(d) >= 2 \/ Len(authority) = 1
<1>1. ASSUME NEW d \in list, KeyMatches(d, authority)
      PROVE  IsPrefix(DomainPrefix(authority), DomainKey(d))
               <=> Len(d) >= 2 \/ Len(authority) = 1
  <2>1. d \in Seq(Label) /\ Len(d) \in Nat /\ Len(d) >= 1
    OBVIOUS
  <2>2. CASE Len(d) >= 2
    <3>1. IsPrefix(DomainPrefix(authority), DomainKey(d))
      BY <1>1, <2>1, <2>2, ScanReaches
    <3> QED BY <2>2, <3>1
  <2>3. CASE Len(d) = 1
    <3>1. IsPrefix(DomainPrefix(authority), DomainKey(d)) <=> Len(authority) = 1
      BY <1>1, <2>1, <2>3, ScanMisses
    <3>2. ~(Len(d) >= 2)
      BY <2>3
    <3> QED BY <3>1, <3>2, Zenon
  <2>4. Len(d) >= 2 \/ Len(d) = 1
    BY <2>1, SmallNumbers, Zenon
  <2> QED BY <2>2, <2>3, <2>4, Zenon
<1> QED BY <1>1 DEF ListMatches
=============================================================================
