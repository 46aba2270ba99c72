---------------------------- MODULE MCEntityRecords ----------------------------
\* Administrators that race with each other and with the provisioner.
EXTENDS EntityRecords, TLC

Symmetric == Permutations(Admins)
==============================================================================
