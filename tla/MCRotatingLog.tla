---- MODULE MCRotatingLog ----
EXTENDS RotatingLog
====
