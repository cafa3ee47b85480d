----------------------------- MODULE MCUserCtrls -----------------------------
EXTENDS UserCtrls

\* A signed control, one that is not listed, an unsigned one.
MCMin     == <<-1, 0, 0>>
MCMax     == <<1, 1, 2>>
MCDefault == <<0, 0, 1>>
=============================================================================
