------------------------- MODULE MCDeliveryWorker -------------------------
EXTENDS DeliveryWorker
CONSTANTS i1, w1, w2, w3
=============================================================================
