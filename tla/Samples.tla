------------------------------ MODULE Samples ------------------------------
(* The servers and domains the TLC instances use. *)
EXTENDS TLC

\* Two servers under the domain b.test, one of them on the domain itself, one
\* elsewhere, and one whose name merely begins with "b.test".
MCAuthorityOf ==
     "sub"  :> <<"a", "b", "test">>
  @@ "apex" :> <<"b", "test">>
  @@ "else" :> <<"c", "test">>
  @@ "look" :> <<"b", "tester">>

MCLabelPrefix == {<<"test", "tester">>}

BTest == {<<"b", "test">>}
\* A name of one label, too, which the lists take but never find.
TestAndBTest == {<<"test">>, <<"b", "test">>}
=============================================================================
