-------------------------- MODULE MCBrowserRuntime --------------------------
(* A small instance of the browser runtime for TLC. *)
EXTENDS BrowserRuntime

Cmd(key, kind) == [key |-> key, kind |-> kind]
Commands ==
  {Cmd("e1", "execute"), Cmd("m1", "modify"), Cmd("c1", "complete"), Cmd("r1", "restart")}
=============================================================================
