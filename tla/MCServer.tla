------------------------------ MODULE MCServer ------------------------------
(* Instances of Server for TLC.                                            *)
EXTENDS Server

CONSTANTS r1, s1, s2, e1, e2, e3, c1

OneRequest == {r1}
TwoSockets == {s1, s2}
ThreeEvents == {e1, e2, e3}
OneCounter == {c1}

Person(id, organization, roles) ==
  [id |-> id, organizationId |-> organization, branchId |-> None,
   venueId |-> organization, roles |-> roles]

\* An admin, and a customer before and after they create an organization.
ThreeUsers ==
  {Person("a", None, {"admin"}),
   Person("b", None, {"user"}),
   Person("b", "o", {"user", "organization_admin"})}

\* Two names, and an array that reads as another one.
TwoNamesAndAnArray ==
  {Name(AdminRoom), Name(<<"queue", "q">>),
   Target("user", "b", {<<"queue", "q">>}, TRUE)}
=============================================================================
