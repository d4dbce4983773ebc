--------------------------- MODULE MCProxyBridge ----------------------------
EXTENDS ProxyBridge
=============================================================================
