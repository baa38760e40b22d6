------------------------ MODULE MCCustomerFulfilment ------------------------
EXTENDS CustomerFulfilment
=============================================================================
