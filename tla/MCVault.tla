------------------------------ MODULE MCVault -------------------------------
EXTENDS Vault
=============================================================================
