---- MODULE MCWebServer ----
EXTENDS WebServer, TLC

Symmetry == Permutations(Clients)
====
