--------------------------- MODULE MCCatalogGitOps ---------------------------
EXTENDS CatalogGitOps
==============================================================================
