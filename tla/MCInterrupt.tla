----------------------------- MODULE MCInterrupt -----------------------------
EXTENDS Interrupt
KeyOrder == <<"CENTER">>
=============================================================================
