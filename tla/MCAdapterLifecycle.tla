-------------------------- MODULE MCAdapterLifecycle --------------------------
EXTENDS AdapterLifecycle
=============================================================================
