--------------------------- MODULE MCSeqRegistry ---------------------------
\* SeqRegistry with few threads and addresses.
EXTENDS SeqRegistry, TLC
=============================================================================
