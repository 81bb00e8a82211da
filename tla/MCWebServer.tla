---------------------------- MODULE MCWebServer ----------------------------
(* Small instance of WebServer for TLC; the values are in the cfg file. *)
EXTENDS WebServer
=============================================================================
