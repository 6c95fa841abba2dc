--------------------------- MODULE MCArbitration ---------------------------
\* Two holders, one worker and one retry: the smallest instance in which an
\* adoption, a human decision and a delivery overlap.
EXTENDS Arbitration
=============================================================================
