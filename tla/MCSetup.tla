------------------------------ MODULE MCSetup -------------------------------
EXTENDS Setup

MCArguments == {<<>>, <<"-v">>}
=============================================================================
