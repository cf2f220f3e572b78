------------------------------ MODULE MCOperators ------------------------------
EXTENDS Operators

MCUserFroms ==
  {<<"Meters", "Int">>, <<"Int", "Meters">>, <<"Int", "Color">>, <<"Meters", "Color">>,
   <<"Color", "Meters">>, <<"String", "Color">>, <<"Meters", "Array">>}
=============================================================================
