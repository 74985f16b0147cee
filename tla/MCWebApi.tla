------------------------------ MODULE MCWebApi ------------------------------
\* For TLC: see the configuration.
EXTENDS WebApi
=============================================================================
