----------------------------- MODULE MCPrinting -----------------------------
EXTENDS Printing
=============================================================================
