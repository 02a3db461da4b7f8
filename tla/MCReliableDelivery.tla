------------------------ MODULE MCReliableDelivery ------------------------
EXTENDS ReliableDelivery
=============================================================================
