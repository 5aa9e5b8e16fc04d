------------------------------ MODULE MCLifecycle -----------------------------
(* The definitions of MCEngine for model checking module Lifecycle.         *)
EXTENDS MCEngine, Lifecycle
===============================================================================
