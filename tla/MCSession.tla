----------------------------- MODULE MCSession -----------------------------
(***************************************************************************)
(* Two users of one tab, with two of a login, an unlocking and a refresh   *)
(* in flight at once.  A token lives long enough to be refreshed before    *)
(* its margin, and short enough to reach the margin while the answer that  *)
(* carries it is on its way.                                               *)
(***************************************************************************)
EXTENDS Session
=============================================================================
