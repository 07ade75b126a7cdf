--------------------------- MODULE MCAccountServer ---------------------------
(* A small server for TLC. *)
EXTENDS AccountServer, FiniteSets, TLC

\* Handlers are interchangeable, and so are usernames.
ServerSymmetry == Permutations(Requests) \cup Permutations(Usernames)

\* Bound on the cookies: beside a suspended copy of a record one, which may run out
\* and make room for another.
FewCookies ==
  Cardinality(cookies) <= IF \E r \in Requests : Carries(r) THEN 1 ELSE 2

\* Bound on the fields of records that are set together: no property reads the second
\* factor or a pending reset.
WithTotp  == {a \in Accounts : Exists(a) /\ accounts[a].totp}
WithReset == {a \in Accounts : Exists(a) /\ accounts[a].reset}
OneSwitch == Cardinality(WithTotp) + Cardinality(WithReset) <= 1
=============================================================================
