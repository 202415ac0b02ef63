---------------------------- MODULE MCMyCRDOperator ----------------------------
EXTENDS MyCRDOperator

MCReplicas == {-1, 2}
================================================================================
