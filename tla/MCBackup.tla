------------------------------ MODULE MCBackup ------------------------------
\* A report and two shots: a collection with one document and one with two.
EXTENDS Backup

CONSTANTS r1, s1, s2

MCDoc == {r1, s1, s2}
MCReport == {r1}
=============================================================================
