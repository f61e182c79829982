---------------------------- MODULE MCOrderStore ----------------------------
EXTENDS OrderStore

=============================================================================
