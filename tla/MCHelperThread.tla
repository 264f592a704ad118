--------------------------- MODULE MCHelperThread ---------------------------
EXTENDS HelperThread

CONSTANTS g1, g2, g3

ThreeGhosts == <<g1, g2, g3>>

=============================================================================
