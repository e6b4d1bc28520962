----------------------------- MODULE MCService -----------------------------
(* Two chains that share three connections and one document: both can be in *)
(* a transaction at once, and look the same document up at once.             *)
EXTENDS Service
=============================================================================
