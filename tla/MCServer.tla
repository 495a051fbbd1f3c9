---- MODULE MCServer ----
EXTENDS Server
====
