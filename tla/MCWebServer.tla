---------------------------- MODULE MCWebServer ----------------------------
(* An instance of WebServer for TLC. *)
EXTENDS WebServer
=============================================================================
