---------------------------- MODULE MCProvisioning ----------------------------
(* An instance of Provisioning for TLC.                                     *)
EXTENDS Provisioning, TLC

CONSTANTS r1, r2, p1, n1, n2

(* At most one disk in an XML.                                              *)
MostForms(f) == f.op = "create_xml" => Cardinality(f.disks) <= 1

Symmetric == Permutations(Requests) \cup Permutations(Names)
=============================================================================
