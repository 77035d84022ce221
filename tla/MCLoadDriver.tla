---------------------------- MODULE MCLoadDriver ----------------------------
EXTENDS LoadDriver

\* 504: the deadline passed, the inference goes on. client_timeout: nobody asked yet.
AllResponses == {"200", "504", "client_timeout"}
=============================================================================
