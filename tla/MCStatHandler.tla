--------------------------- MODULE MCStatHandler ---------------------------
EXTENDS StatHandler

=============================================================================
