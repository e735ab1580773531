------------------------------- MODULE Client -------------------------------
(***************************************************************************)
(* client.js: a window that shows the sending or the receiving page.  The  *)
(* pages share client-shared.js and nothing else.                          *)
(***************************************************************************)
EXTENDS ClientReceive, ClientSend

VARIABLE role

clientVars == <<role, vars, sendVars>>

(* client.js starts the part whose script the page has loaded. *)
ClientInit ==
  /\ role \in {"send", "receive"}
  /\ Init /\ SendInit
  /\ role = "send" => link = "none" /\ blob = "text" /\ server = "gone"
  /\ role = "receive" => origin = "https"

ReceivePage == role = "receive" /\ Next /\ UNCHANGED <<role, sendVars>>
SendPage == role = "send" /\ SendNext /\ UNCHANGED <<role, vars>>

(* The receiving page's fairness; of the sending page none is needed. *)
ClientSpec ==
  /\ ClientInit /\ [][ReceivePage \/ SendPage]_clientVars
  /\ role = "receive" => Fairness
=============================================================================
