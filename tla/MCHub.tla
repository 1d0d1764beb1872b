-------------------------------- MODULE MCHub --------------------------------
EXTENDS HubProps

CONSTANTS canvas, agent, b1, b2
=============================================================================
