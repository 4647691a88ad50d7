---------------------------- MODULE ProviderIds ----------------------------
\* The provider ids the router's shared state is keyed by.
CONSTANT Ids
=============================================================================
