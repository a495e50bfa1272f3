---------------------------- MODULE MCWireCutover ----------------------------
EXTENDS WireCutover
CONSTANTS shell, desktop, container

MCCatalog == <<shell, container, desktop>>
=============================================================================
