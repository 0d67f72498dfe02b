--------------------------- MODULE MCCoreLifecycle ---------------------------
EXTENDS CoreLifecycle

CONSTANTS bt, wfd, receiver
=============================================================================
