-------------------------- MODULE MCConfigRegistry --------------------------
(* Instances of ConfigRegistry for TLC. *)
EXTENDS ConfigRegistry, TLC

CONSTANTS port, port_logs, Port, int, str, num, word

Entry(key, parent, valid, text) ==
  [key |-> key, parent |-> parent, valid |-> valid, text |-> text]

\* A number everything can read and a word only a string can.
CastAll == {<<int, num>>, <<str, num>>, <<str, word>>}

\* port: 1; port: "x"; port.logs: 1; and Port with a node below it, whose path
\* Port.logs would become port.logs too if it were not left out.
Doc ==
  << Entry(port, 0, TRUE, num), Entry(port, 0, TRUE, word),
     Entry(port_logs, 0, TRUE, num), Entry(port, 0, FALSE, word),
     Entry(port_logs, 4, TRUE, word) >>
=============================================================================
