----------------------------- MODULE MCDatabase -----------------------------
EXTENDS Database

CONSTANTS e, m, d1, v1, p, q
============================================================================
