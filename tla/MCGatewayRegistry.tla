-------------------------- MODULE MCGatewayRegistry --------------------------
EXTENDS GatewayRegistry
==============================================================================
