------------------------------- MODULE Ledger -------------------------------
(***************************************************************************)
(* What the relay promises about the delivery of what its listeners post,  *)
(* without saying how.  An accepted activity of s about o is open until    *)
(* the relay looks who listens, and is then owed to each of those but s    *)
(* and the server o lives on, once.  What has been sent or skipped may be  *)
(* owed again only if a step fails, and then only to the same servers.     *)
(***************************************************************************)
EXTENDS Integers

CONSTANTS Servers, Objects, HomeOf

VARIABLES listening,  \* the servers that listen
          accepted,   \* the activities accepted, by object
          errors,     \* the steps that have failed
          copies,     \* the copies sent, by object and server
          open,       \* the activities yet to be addressed, by sender and object
          owed,       \* the copies owed, by sender, object and server
          served      \* the copies sent or skipped that a failure may repeat

vars == <<listening, accepted, errors, copies, open, owed, served>>

Init ==
  /\ listening \in SUBSET Servers
  /\ accepted = [o \in Objects |-> 0]
  /\ errors = 0
  /\ copies = [p \in Objects \X Servers |-> 0]
  /\ open = [p \in Servers \X Objects |-> 0]
  /\ owed = [p \in Servers \X Objects \X Servers |-> 0]
  /\ served = owed

\* f with n more at each of the places P.
More(f, P, n) == [p \in DOMAIN f |-> IF p \in P THEN f[p] + n ELSE f[p]]

\* f is at least one at each of the places P.
Has(f, P) == \A p \in P : f[p] > 0

\* The copies of one activity for the servers T.
For(s, o, T) == {s} \X {o} \X T

Accept(s, o) ==
  /\ accepted' = [accepted EXCEPT ![o] = @ + 1]
  /\ open' = More(open, {<<s, o>>}, 1)
  /\ UNCHANGED <<listening, errors, copies, owed, served>>

\* An activity is given up before anyone is owed it, failed or not.
Drop(s, o) ==
  /\ Has(open, {<<s, o>>})
  /\ open' = More(open, {<<s, o>>}, -1)
  /\ errors' \in {errors, errors + 1}
  /\ UNCHANGED <<listening, accepted, copies, owed, served>>

\* The relay looks who listens.
Address(s, o) ==
  /\ Has(open, {<<s, o>>})
  /\ open' = More(open, {<<s, o>>}, -1)
  /\ owed' = More(owed, For(s, o, listening \ {s, HomeOf[o]}), 1)
  /\ UNCHANGED <<listening, accepted, errors, copies, served>>

\* A copy is sent, or skipped because of the server's configuration.
Serve(s, o, t) ==
  /\ Has(owed, For(s, o, {t}))
  /\ owed' = More(owed, For(s, o, {t}), -1)
  /\ served' = More(served, For(s, o, {t}), 1)
  /\ copies' \in {copies, More(copies, {<<o, t>>}, 1)}
  /\ UNCHANGED <<listening, accepted, errors, open>>

\* All are served.
Finish(s, o, T) ==
  /\ Has(served, For(s, o, T))
  /\ served' = More(served, For(s, o, T), -1)
  /\ UNCHANGED <<listening, accepted, errors, copies, open, owed>>

\* A failure before anyone is served: who listens is looked up again, or it was
\* yet to be.
Reopen(s, o, T) ==
  /\ Has(owed, For(s, o, T))
  /\ owed' = More(owed, For(s, o, T), -1)
  /\ open' = More(open, {<<s, o>>}, 1)
  /\ errors' = errors + 1
  /\ UNCHANGED <<listening, accepted, copies, served>>

Stumble ==
  /\ errors' = errors + 1
  /\ UNCHANGED <<listening, accepted, copies, open, owed, served>>

\* A failure among the deliveries: the servers served are owed the copy again.
Repeat(s, o, T) ==
  /\ Has(served, For(s, o, T))
  /\ served' = More(served, For(s, o, T), -1)
  /\ owed' = More(owed, For(s, o, T), 1)
  /\ errors' = errors + 1
  /\ UNCHANGED <<listening, accepted, copies, open>>

\* Or there have been too many: those not served are owed it no more.
GiveUp(s, o, T, U) ==
  /\ Has(owed, For(s, o, T))
  /\ Has(served, For(s, o, U))
  /\ owed' = More(owed, For(s, o, T), -1)
  /\ served' = More(served, For(s, o, U), -1)
  /\ errors' = errors + 1
  /\ UNCHANGED <<listening, accepted, copies, open>>

Churn ==
  /\ listening' \in SUBSET Servers
  /\ UNCHANGED <<accepted, errors, copies, open, owed, served>>

\* What was under way is lost.
Restart ==
  /\ open' = [p \in Servers \X Objects |-> 0]
  /\ owed' = [p \in Servers \X Objects \X Servers |-> 0]
  /\ served' = owed'
  /\ UNCHANGED <<listening, accepted, errors, copies>>

Next ==
  \/ \E s \in Servers, o \in Objects :
       \/ Accept(s, o) \/ Drop(s, o) \/ Address(s, o)
       \/ \E t \in Servers : Serve(s, o, t)
       \/ \E T \in SUBSET Servers :
            \/ Finish(s, o, T) \/ Reopen(s, o, T) \/ Repeat(s, o, T)
            \/ \E U \in SUBSET Servers : GiveUp(s, o, T, U)
  \/ Stumble \/ Churn \/ Restart

Spec == Init /\ [][Next]_vars
=============================================================================
