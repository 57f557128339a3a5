--------------------------- MODULE MCPrivacyIndex ---------------------------
(* The index of one pool over two short branches.                          *)
EXTENDS PrivacyIndex
=============================================================================
