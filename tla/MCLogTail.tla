---- MODULE MCLogTail ----
EXTENDS LogTail
====
