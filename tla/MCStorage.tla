----------------------------- MODULE MCStorage ------------------------------
EXTENDS CachedStorage
=============================================================================
