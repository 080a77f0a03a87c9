-------------------------- MODULE MCProgressStream --------------------------
EXTENDS ProgressStream
=============================================================================
