---------------------------- MODULE MCBrowserOpener ----------------------------
(* An instance of BrowserOpener for TLC. *)
EXTENDS BrowserOpener
================================================================================
