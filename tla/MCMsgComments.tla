--------------------------- MODULE MCMsgComments ---------------------------
EXTENDS MsgComments

AllKinds == LineKinds
=============================================================================
