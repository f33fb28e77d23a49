------------------------------ MODULE Optional ------------------------------
(* None, where the code holds None: no objective, no bar, no price yet.        *)
CONSTANT None
=============================================================================
