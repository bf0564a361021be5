-------------------------- MODULE MCOnlineDelete --------------------------
(***************************************************************************)
(* Ledgers for OnlineDelete: x stays for good, y comes, goes and comes     *)
(* back.                                                                   *)
(***************************************************************************)
EXTENDS OnlineDelete

CONSTANTS x, y

MCContents == << {x}, {x}, {x}, {x, y}, {x}, {x, y} >>
===========================================================================
