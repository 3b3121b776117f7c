---------------------------- MODULE MCDbWorkspace ----------------------------
EXTENDS DbWorkspace
=============================================================================
