-------------------------- MODULE MCPolicyContract --------------------------
EXTENDS PolicyContract

ObservationTerms == {<<"ang_vel", "dof_pos">>, <<"foot_contacts", "typo">>}
Histories == {<<>>, <<1, 0>>, <<-1>>}
InputShapeLists ==
  {<< <<1, 5>> >>, << <<1, 10>> >>, << <<-1, 5>> >>, << <<-1, -1>> >>,
   << <<1, 5>>, <<1, 2, 5>> >>, << <<-1, 5>>, <<-1, -1, 5>> >>}
=============================================================================
