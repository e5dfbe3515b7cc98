----------------------------- MODULE MCTftpRecv -----------------------------
(* All kinds of requests.                                                  *)
EXTENDS TftpRecv

AllRequests == {"put", "badname", "badoption", "malformed", "rrq"}
=============================================================================
