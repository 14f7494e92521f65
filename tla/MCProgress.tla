----------------------------- MODULE MCProgress -----------------------------
\* A small instance of Progress for TLC.
EXTENDS Progress, TLC

=============================================================================
