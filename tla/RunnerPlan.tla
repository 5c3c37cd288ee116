----------------------------- MODULE RunnerPlan -----------------------------
(***************************************************************************)
(* How the code runner decides, from what a program needs, in what kind of *)
(* container it runs: which network, which rights, or not at all.  What    *)
(* the scanners of the program's text find is the input; the scripts that  *)
(* run in the container are left out.                                      *)
(***************************************************************************)

\* What is found in a program.
Programs == [
  python   : BOOLEAN,    \* or another language of the table
  web      : BOOLEAN,    \* imports or marks a web framework
  terminal : BOOLEAN,    \* reads from a terminal
  window   : BOOLEAN,    \* opens a window
  packages : {"none", "bundled", "other"},  \* third-party packages it names
  system   : BOOLEAN,    \* needs system packages
  dynamic  : BOOLEAN,    \* imports by computed names
  online   : BOOLEAN]    \* the language's own table asks for the network

\* A terminal program gets a window, unless it serves the web.
NeedsScreen(p) == (p.terminal /\ ~p.web) \/ p.window

PythonPlan(p) == [
  gui         |-> NeedsScreen(p),
  ports       |-> NeedsScreen(p) \/ p.web,
  apt         |-> p.system /\ ~NeedsScreen(p),
  network     |-> ~NeedsScreen(p) /\ (p.system \/ p.packages # "none" \/ p.dynamic),
  unsupported |-> NeedsScreen(p) /\ p.packages = "other"]

OtherPlan(p) == [
  gui |-> FALSE, ports |-> FALSE, apt |-> FALSE, network |-> p.online, unsupported |-> FALSE]

Plan(p) == IF p.python THEN PythonPlan(p) ELSE OtherPlan(p)

\* The network of a session: under "none", ports need a network of their own.
Network(configured, plan) ==
  IF configured = "none" /\ plan.ports THEN "internal" ELSE configured

\* Read-only root file system and an unprivileged user.
Restricted(plan) == ~plan.apt /\ ~plan.network

=============================================================================
