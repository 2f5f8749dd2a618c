------------------------------- MODULE MCMenu --------------------------------
EXTENDS Menu
=============================================================================
