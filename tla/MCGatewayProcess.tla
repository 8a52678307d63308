--------------------------- MODULE MCGatewayProcess ---------------------------
\* TLC instance of GatewayProcess: gateway_shutdown.cfg.
EXTENDS GatewayProcess
=============================================================================
