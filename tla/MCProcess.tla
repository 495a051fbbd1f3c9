---- MODULE MCProcess ----
EXTENDS Process
====
