---- MODULE MCSelfUpdate ----
EXTENDS SelfUpdate
====
