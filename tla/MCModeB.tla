------------------------------ MODULE MCModeB ------------------------------
EXTENDS ModeB

MBackoff == <<1, 2>>

=============================================================================
