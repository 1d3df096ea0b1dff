------------------------------ MODULE MCCluster ------------------------------
EXTENDS Cluster

CONSTANTS n1, n2, n3, n4

MCTemplates ==
    {[ids |-> <<n1, n2, n3>>, mapped |-> TRUE], [ids |-> <<n1, n2, n3, n4>>, mapped |-> TRUE],
     [ids |-> <<n1, n2>>, mapped |-> FALSE]}
=============================================================================
